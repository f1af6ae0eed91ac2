--------------------------- MODULE RecoveryProofs ---------------------------
(***************************************************************************)
(* The recovery cycle, for every number of functions, passes, attempts,    *)
(* runs, restarts and acts of the operator: how the cycle's row, the       *)
(* operations it names and the handler in memory belong together, so that  *)
(* a writeback is taken up again and never begun twice.                    *)
(***************************************************************************)
EXTENDS Recovery, SequenceTheorems, TLAPS

NamesAt == {"names", "keep names", "apply names", "save names", "record names"}

\* Where the type plans of the handler are being tried.
TriesAt == {"types", "keep without locals", "types without locals", "isolate"}

TypesAt == TriesAt \cup {"keep types", "apply types", "save types", "export types",
                         "types decided"}

\* Where the outcome of an operation is open.
SavesAt == {"save names", "record names", "save types", "export types"}

RefreshAt == {"refreshing", "mark"}

SelectAt == {"reanalysis", "selected"}

Places == {"idle", "claimed", "done", "assessing"} \cup NamesAt \cup TypesAt \cup RefreshAt
             \cup SelectAt

TrialStates == {"none", "saved same", "saved changed", "same", "changed"}

RowSet ==
    [id : Nat, phase : Live \cup Ended \cup {"absent"}, pass : Nat, attempts : Nat,
     names : Nat, types : Nat, proposals : SUBSET Results, trials : [Functions -> TrialStates]]

HandlerSet ==
    [at : Places, scope : Scopes, op : Nat, proposals : SUBSET Results,
     todo : SUBSET Functions, changed : BOOLEAN]

\* An operation, as the tables have it.
OpSet ==
    [kind : {"names", "types", "none"},
     status : {"preview", "unchanged", "applying", "uncertain", "applied", "conflict"},
     items : SUBSET [result : Results, revision : {0, 1}],
     saved : BOOLEAN, written : SUBSET Results, begun : {<<>>} \cup (Scopes \X Scopes)]

\* The operations as a function of their numbers.
OpsShape == ops \in Seq(OpSet)

LEMMA Shape ==
    ASSUME OpsShape
    PROVE  /\ Len(ops) \in Nat /\ DOMAIN ops = 1 .. Len(ops)
           /\ \A o \in DOMAIN ops : ops[o] \in OpSet
BY LenProperties, ElementOfSeq DEF OpsShape

LEMMA LenIsCounted ==
    ASSUME OpsShape
    PROVE  \A n : n = None => n <= Len(ops)
BY Shape DEF None

LEMMA LessIsAtMost == \A m, n \in Nat : m < n => m <= n
OBVIOUS

LEMMA IsNumbered == \A m, n \in Nat : n # 0 /\ n <= m => n \in 1 .. m
OBVIOUS

LEMMA NextNumber ==
    ASSUME NEW m \in Nat
    PROVE  /\ 1 .. (m + 1) = (1 .. m) \cup {m + 1} /\ m + 1 \notin 1 .. m
           /\ m + 1 \in Nat /\ m + 1 # 0 /\ m <= m + 1 /\ m + 1 <= m + 1
           /\ \A k \in Nat : k <= m => k # m + 1 /\ k <= m + 1
OBVIOUS

LEMMA LessOrSame == \A m, n \in Nat : m = n => m <= n
OBVIOUS

LEMMA FewerNumbers ==
    ASSUME NEW m \in Nat
    PROVE  /\ 1 .. m - 1 \subseteq 1 .. m
           /\ \A n \in Nat : n <= m /\ n # m => n <= m - 1 /\ (n # 0 => n \in 1 .. m - 1)
OBVIOUS

LEMMA CountsOn ==
    ASSUME NEW m \in Nat, m < MaxAttempts
    PROVE  m + 1 < MaxAttempts + 1 /\ (~(m + 1 >= MaxAttempts) => m + 1 < MaxAttempts)
BY RecoveryAssumption

LEMMA OneMore ==
    ASSUME NEW m \in Nat, NEW n \in {m, m + 1}
    PROVE  \A i \in Nat : /\ i <= m => i <= n
                          /\ i < m => i < n /\ i <= n /\ i # n
                          /\ i > n => i > m
                          /\ i <= m /\ n = m + 1 => i < n
                          /\ i = 0 \/ i = n => i <= n
OBVIOUS

LEMMA Appended ==
    ASSUME OpsShape, NEW op \in OpSet, Previewed(op)
    PROVE  /\ OpsShape' /\ Len(ops)' = Len(ops) + 1 /\ ops'[Len(ops) + 1] = op
           /\ \A o \in 1 .. Len(ops) : ops'[o] = ops[o]
BY AppendProperties DEF OpsShape, Previewed

LEMMA AppendedEntry ==
    ASSUME NEW S, NEW q \in Seq(S), NEW op, NEW i \in 1 .. Len(q)
    PROVE  Append(q, op)[i] = q[i]
<1>1. q \in Seq(S \cup {op}) /\ op \in S \cup {op}
    BY SeqMonotonic
<1> QED BY <1>1, AppendProperties

\* An operation is changed.
LEMMA Changes ==
    ASSUME OpsShape, NEW op \in OpSet, NEW p \in DOMAIN ops, ops' = [ops EXCEPT ![p] = op]
    PROVE  /\ OpsShape' /\ Len(ops)' = Len(ops) /\ ops'[p] = op
           /\ \A o \in DOMAIN ops \ {p} : ops'[o] = ops[o]
BY Shape, ExceptSeq DEF OpsShape

LEMMA Mapped ==
    ASSUME OpsShape, NEW T \in [DOMAIN ops -> OpSet], ops' = T
    PROVE  OpsShape' /\ Len(ops)' = Len(ops)
BY Shape DEF OpsShape

LEMMA Fronted ==
    ASSUME OpsShape, Len(ops) # 0, ops' = Front(ops)
    PROVE  /\ OpsShape' /\ Len(ops)' = Len(ops) - 1
           /\ \A o \in 1 .. Len(ops) - 1 : ops'[o] = ops[o]
<1>1. \A i \in 1 .. Len(ops) - 1 : ops[i] \in OpSet
    BY Shape
<1> QED BY <1>1, Shape, SubSeqProperties DEF OpsShape, Front
-----------------------------------------------------------------------------
ResultTypes ==
    /\ current \in [Functions -> Nat] /\ made \in [Functions -> Nat]
    /\ \A f \in Functions : current[f] <= made[f] /\ made[f] <= MaxResults
    /\ taken \subseteq Results /\ stale \subseteq Results
    /\ accepted \subseteq Answered /\ marked \subseteq Answered
    /\ revision \in [Results -> {0, 1}]
    /\ types \in [Functions -> {"", "validated", "deferred", "applied", "unchanged"}]

QueueTypes ==
    /\ paused \in BOOLEAN /\ writer \in BOOLEAN
    /\ runs \in Scopes /\ active \in 0 .. runs
    /\ job \in [Scopes \X Functions ->
                    {"none", "queued", "open", "done", "failed", "uncertain"}]
    /\ unexported \subseteq Functions /\ news \subseteq Functions

CycleTypes == cycle \in [Scopes -> RowSet] /\ handler \in HandlerSet

Typed == ResultTypes /\ QueueTypes /\ CycleTypes /\ OpsShape

\* The handler is in the phase of its cycle.
HandlerHere ==
    /\ writer <=> handler.at # "idle"
    /\ handler.at = "assessing" => Mine.phase = "assessing"
    /\ handler.at \in NamesAt => Mine.phase = "names"
    /\ handler.at \in TypesAt => Mine.phase = "types"
    /\ handler.at \in RefreshAt => Mine.phase = "refreshing"
    /\ handler.at \in SelectAt => Mine.phase = "reanalysis"

\* A cycle belongs to a run that was made, and stays within its limits.
RowsCount ==
    /\ \A s \in Scopes :
        /\ cycle[s].phase \in Live => cycle[s].attempts < MaxAttempts
        /\ cycle[s].pass < MaxPasses /\ cycle[s].attempts < MaxAttempts + 1
        /\ cycle[s].id <= runs
        /\ s > runs => cycle[s].phase = "absent"
    /\ At("selected") /\ handler.todo # {} => Mine.pass + 1 < MaxPasses /\ runs <= MaxRuns

ItemsOf(o) == {i.result : i \in ops[o].items}

\* The operations that the cycles name: of the kind they take them for, of one cycle each.
RowsRefer ==
    /\ \A s \in Scopes :
        /\ cycle[s].names <= Len(ops) /\ cycle[s].types <= Len(ops)
        /\ cycle[s].phase = "assessing" => cycle[s].names = None
        /\ cycle[s].phase \in {"assessing", "names"} => cycle[s].types = None
        /\ cycle[s].phase \in Live /\ cycle[s].names # None => ops[cycle[s].names].kind = "names"
        /\ cycle[s].phase \in Live /\ cycle[s].types # None =>
            /\ ops[cycle[s].types].kind = "types"
            /\ cycle[s].proposals # {}
            /\ cycle[s].phase = "types" => cycle[s].proposals \subseteq ItemsOf(cycle[s].types)
    /\ \A s, t \in Scopes : cycle[s].phase \in Live /\ cycle[t].phase \in Live /\ s # t =>
        /\ cycle[s].names = cycle[t].names => cycle[s].names = None
        /\ cycle[s].types = cycle[t].types => cycle[s].types = None

\* The operation at hand is the one that the cycle names, or is to name.
HandlerRefers ==
    /\ handler.op <= Len(ops)
    /\ handler.at \in {"keep names", "keep types"} =>
        /\ handler.op = Len(ops) /\ handler.op # 0
        /\ ops[handler.op].begun = <<>> /\ ops[handler.op].status \in {"preview", "unchanged"}
        /\ \A s \in Scopes : cycle[s].names # handler.op /\ cycle[s].types # handler.op
    /\ At("keep names") => Mine.names = None /\ ops[handler.op].kind = "names"
    /\ At("keep types") => /\ Mine.types = None /\ ops[handler.op].kind = "types"
                           /\ Mine.proposals # {}
                           /\ Mine.proposals \subseteq ItemsOf(handler.op)
    /\ handler.at \in {"apply names", "save names", "record names"} =>
        handler.op = Mine.names /\ handler.op # None
    /\ handler.at \in {"apply types", "save types", "export types"} =>
        handler.op = Mine.types /\ handler.op # None
    /\ handler.at \in TriesAt \ {"types"} => Mine.types = None
    /\ handler.at \in {"types", "types without locals"} => handler.proposals = Mine.proposals
    /\ handler.at \in TriesAt => handler.proposals \subseteq Mine.proposals
    /\ At("types decided") => \/ Mine.types = None
                              \/ ops[Mine.types].status \in {"applied", "unchanged"}

\* Only the operation at hand is being applied, and what it reports was saved.
OpsStand ==
    /\ \A o \in DOMAIN ops :
        /\ ops[o].status = "applying" => handler.at \in SavesAt /\ o = handler.op
        /\ ops[o].status \in {"applying", "uncertain"} /\ ops[o].kind = "names"
             => ops[o].items # {}
        /\ ops[o].written # {} => ops[o].saved
        /\ ops[o].kind = "types" /\ ops[o].status = "applied" => ops[o].saved
    /\ At("export types") => ops[handler.op].saved
    /\ handler.at \in SavesAt => ops[handler.op].status = "applying"
    /\ At("save names") => \A i \in ops[handler.op].items : revision[i.result] = i.revision

\* The first part of OneWritebackPerPass: an open outcome is its cycle's.
Settles ==
    \A o \in Unresolved : \E s \in Scopes :
        \/ ops[o].kind = "names" /\ cycle[s].names = o /\ cycle[s].phase \in {"names", "failed"}
        \/ ops[o].kind = "types" /\ cycle[s].types = o /\ cycle[s].phase \in {"types", "failed"}

\* What a pass has begun is what its cycle names, and a pass to come has begun nothing.
BegunBy(o, s, i) ==
    /\ i <= runs
    /\ cycle[s].phase = "absent" => i < runs
    /\ cycle[s].phase # "absent" /\ cycle[s].id = i =>
        /\ ops[o].kind = "names" => cycle[s].names = o
        /\ ops[o].kind = "types" => cycle[s].types = o

Begun ==
    \A o \in DOMAIN ops, s \in Scopes, i \in Scopes :
        ops[o].begun = <<s, i>> => BegunBy(o, s, i)

\* The second part: a pass begins one operation of a kind.
Once ==
    \A o, p \in DOMAIN ops :
        ops[o].begun # <<>> /\ ops[o].begun = ops[p].begun /\ ops[o].kind = ops[p].kind => o = p

Core == HandlerHere /\ RowsCount /\ RowsRefer /\ HandlerRefers /\ OpsStand /\ Settles /\ Begun /\ Once

-----------------------------------------------------------------------------
LEMMA CurIsResult ==
    ASSUME ResultTypes, NEW f \in Answered
    PROVE  f \in Functions /\ Cur(f) \in Results
<1>1. MaxResults \in Nat
    BY RecoveryAssumption
<1>2. f \in Functions /\ current[f] \in Nat /\ current[f] # 0 /\ made[f] \in Nat
    BY DEF ResultTypes, Answered
<1>3. current[f] <= made[f] /\ made[f] <= MaxResults
    BY <1>2 DEF ResultTypes
<1>4. current[f] \in 1 .. MaxResults
    BY <1>1, <1>2, <1>3
<1> QED BY <1>2, <1>4 DEF Cur, Results

LEMMA ReplaceTypes ==
    ASSUME ResultTypes, NEW f \in Functions, made[f] < MaxResults, Replace(f),
           taken' \subseteq Results, stale' \subseteq Results,
           accepted' \subseteq accepted \cup {f}, revision' \in [Results -> {0, 1}]
    PROVE  ResultTypes'
<1>1. current' = [current EXCEPT ![f] = made[f] + 1] /\ made' = [made EXCEPT ![f] = @ + 1]
    BY DEF Replace
<1>9. types' = [types EXCEPT ![f] = ""] /\ marked' = marked \ {f}
    BY DEF Replace
<1>2. /\ current \in [Functions -> Nat] /\ made \in [Functions -> Nat] /\ MaxResults \in Nat
      /\ \A g \in Functions : current[g] <= made[g] /\ made[g] <= MaxResults
    BY RecoveryAssumption DEF ResultTypes
<1>3. current' \in [Functions -> Nat] /\ made' \in [Functions -> Nat]
    BY <1>1, <1>2
<1>4. /\ current'[f] = made[f] + 1 /\ made'[f] = made[f] + 1
      /\ \A g \in Functions \ {f} : current'[g] = current[g] /\ made'[g] = made[g]
    BY <1>1, <1>2
<1>5. ASSUME NEW g \in Functions
      PROVE  /\ current'[g] <= made'[g] /\ made'[g] <= MaxResults
             /\ current'[g] # 0 <=> (g = f \/ current[g] # 0)
  <2>1. made[f] + 1 <= MaxResults /\ made[f] + 1 # 0 /\ made[f] + 1 <= made[f] + 1
      BY <1>2
  <2>2. current[g] <= made[g] /\ made[g] <= MaxResults
      BY <1>2
  <2> QED BY <1>4, <2>1, <2>2
<1>6. Answered' = Answered \cup {f}
    BY <1>5 DEF Answered
<1>7. types' \in [Functions -> {"", "validated", "deferred", "applied", "unchanged"}]
    BY <1>9 DEF ResultTypes
<1>8. accepted' \subseteq Answered' /\ marked' \subseteq Answered'
    BY <1>9, <1>6 DEF ResultTypes
<1> QED BY <1>3, <1>5, <1>7, <1>8 DEF ResultTypes

LEMMA OutcomeTypes ==
    ASSUME ResultTypes, NEW rs, NEW outcome \in {"deferred", "applied", "unchanged"},
           Outcome(rs, outcome)
    PROVE  types' \in [Functions -> {"", "validated", "deferred", "applied", "unchanged"}]
BY DEF ResultTypes, Outcome

LEMMA ResultTypesStep ==
    ASSUME Typed, [Next]_vars
    PROVE  ResultTypes'
<1> USE DEF Typed
<1>1. CASE UNCHANGED <<results, audit>>
    BY <1>1 DEF ResultTypes, results, audit, Answered
<1>2. ASSUME NEW s \in Scopes, NEW f \in Functions, Answer(s, f) PROVE ResultTypes'
  <2>1. CASE Cur(f) \in taken
      BY <1>2, <2>1 DEF Answer, ResultTypes, audit, Answered
  <2>2. CASE Cur(f) \notin taken
      BY <1>2, <2>2, ReplaceTypes DEF Answer, ResultTypes
  <2> QED BY <2>1, <2>2
<1>3. CASE AssessRow
    BY <1>3 DEF AssessRow, Unassessed, Open, ResultTypes, Answered
<1>4. CASE AssessDone \/ TypesRefused \/ LocalsDropped \/ IsolateReject \/ TypesOutcome
  <2>1. types' \in [Functions -> {"", "validated", "deferred", "applied", "unchanged"}]
    <3>1. CASE AssessDone
        BY <3>1, OutcomeTypes DEF AssessDone
    <3>2. CASE TypesRefused \/ LocalsDropped \/ IsolateReject
        BY <3>2, OutcomeTypes DEF TypesRefused, LocalsDropped, IsolateReject, Deferring
    <3>3. CASE TypesOutcome
        BY <3>3, OutcomeTypes DEF TypesOutcome
    <3> QED BY <1>4, <3>1, <3>2, <3>3
  <2>2. UNCHANGED <<results, marked>>
      BY <1>4 DEF AssessDone, TypesRefused, LocalsDropped, IsolateReject, TypesOutcome
  <2> QED BY <2>1, <2>2 DEF ResultTypes, results, Answered
<1>5. CASE TypesExport \/ RefreshExport
  <2>1. PICK S \in SUBSET Functions : stale' = stale \cup {Cur(f) : f \in S \cap Answered}
      BY <1>5 DEF TypesExport, RefreshExport, Export
  <2>2. UNCHANGED <<current, made, taken, revision, accepted, audit>>
      BY <1>5 DEF TypesExport, RefreshExport
  <2> QED BY <2>1, <2>2, CurIsResult DEF ResultTypes, audit, Answered
<1>6. CASE Mark
    BY <1>6 DEF Mark, ResultTypes, results, Answered
<1>7. ASSUME NEW f \in Functions, Review(f) PROVE ResultTypes'
  <2>1. Cur(f) \in Results /\ UNCHANGED <<current, made, audit>>
      BY <1>7, CurIsResult DEF Review
  <2>2. revision' \in [Results -> {0, 1}]
      BY <1>7 DEF Review, Revise, ResultTypes
  <2>3. stale' \subseteq Results
    <3>1. \A S \in SUBSET (Answered \ {f}) : {Cur(g) : g \in S} \subseteq Results
        BY CurIsResult
    <3>2. stale \subseteq Results
        BY DEF ResultTypes
    <3> QED BY <1>7, <3>1, <3>2 DEF Review
  <2>4. taken' \subseteq Results /\ accepted' \subseteq Answered
      BY <1>7, <2>1 DEF Review, ResultTypes
  <2> QED BY <2>1, <2>2, <2>3, <2>4 DEF ResultTypes, audit, Answered
<1>8. ASSUME NEW f \in Functions, Correct(f) PROVE ResultTypes'
  <2>1. revision' \in [Results -> {0, 1}]
      BY <1>8 DEF Correct, Revise, ResultTypes
  <2>2. stale' \subseteq Results
      BY <1>8, CurIsResult DEF Correct, ResultTypes
  <2>3. taken' \subseteq Results
    <3>1. /\ f \in Functions /\ made[f] \in Nat /\ made[f] < MaxResults /\ MaxResults \in Nat
          /\ taken' = taken \cup {<<f, made[f] + 1>>}
        BY <1>8, RecoveryAssumption DEF Correct, ResultTypes, Answered
    <3>2. made[f] + 1 \in 1 .. MaxResults
        BY <3>1
    <3> QED BY <3>1, <3>2 DEF ResultTypes, Results
  <2> QED BY <1>8, <2>1, <2>2, <2>3, ReplaceTypes DEF Correct
<1> QED BY <1>1, <1>2, <1>3, <1>4, <1>5, <1>6, <1>7, <1>8
        DEF Next, Requests, Ends, PhaseStep, Names, TypePlans, Refreshing, People, Ghidra, LateSave, vars,
            Ask, JobFails, Claim, Enter, Release, NamesPreview, NamesKeep, NamesAgain, NamesBegin,
            NamesSave, NamesRecord, NamesDone, TypesNothing, TypesAgain, TypesPreview, LocalsKeep,
            IsolateAccept, TypesKeep, TypesBegin, TypesSave, TypesDone, TrialSave, TrialRecord,
            RefreshNothing, Select, FollowUp, Finish, PhaseFails, Control, ChooseScope, Restart

-----------------------------------------------------------------------------
LEMMA ScopesAreNat == Scopes \subseteq Nat
BY RecoveryAssumption DEF Scopes

LEMMA RunsGrow ==
    ASSUME runs \in Nat, runs' \in Nat, runs <= runs'
    PROVE  \A i \in Nat : (i <= runs => i <= runs') /\ (i < runs => i < runs') /\ (i > runs' => i > runs)
OBVIOUS

LEMMA SetsRow ==
    ASSUME CycleTypes, NEW row \in RowSet, SetMine(row)
    PROVE  /\ handler.scope \in Scopes /\ Mine \in RowSet
           /\ cycle' \in [Scopes -> RowSet] /\ cycle'[handler.scope] = row
           /\ \A s \in Scopes \ {handler.scope} : cycle'[s] = cycle[s]
BY DEF CycleTypes, HandlerSet, SetMine, Mine

\* A step that leaves the cycles, their operations and the handler alone.
LEMMA AsideKeeps ==
    ASSUME Typed, Core, UNCHANGED <<cycle, ops, handler, writer>>,
           runs' \in Scopes, runs <= runs',
           At("selected") /\ handler.todo # {} => runs' <= MaxRuns,
           At("save names") => \A i \in ops[handler.op].items :
                                    revision'[i.result] = revision[i.result]
    PROVE  CycleTypes' /\ OpsShape' /\ Core'
<1> USE DEF Typed, Core
<1>1. CycleTypes' /\ OpsShape'
    BY DEF CycleTypes, OpsShape
<1>2. HandlerHere'
    BY DEF HandlerHere, Mine
<1>0. runs \in Nat /\ runs' \in Nat /\ runs <= runs' /\ \A s \in Scopes : cycle[s].id \in Nat
    BY ScopesAreNat DEF QueueTypes, CycleTypes, RowSet
<1>3. RowsCount'
  <2>1. \A s \in Scopes : cycle[s].id <= runs' /\ (s > runs' => s > runs)
    <3>1. \A s \in Scopes : cycle[s].id <= runs
        BY DEF RowsCount
    <3> QED BY <1>0, <3>1, RunsGrow, ScopesAreNat
  <2> QED BY <2>1 DEF RowsCount, Mine, At
<1>4. RowsRefer' /\ HandlerRefers'
    BY DEF RowsRefer, HandlerRefers, Mine, At, ItemsOf
<1>5. OpsStand'
    BY DEF OpsStand, At
<1>6. Settles' /\ Once'
    BY DEF Settles, Once, Unresolved
<1>7. Begun'
  <2>1. \A i \in Scopes : (i <= runs => i <= runs') /\ (i < runs => i < runs')
      BY <1>0, RunsGrow, ScopesAreNat
  <2> QED BY <2>1 DEF Begun, BegunBy
<1> QED BY <1>1, <1>2, <1>3, <1>4, <1>5, <1>6, <1>7

\* The handler goes on to another await, outside the script of an operation.
LEMMA MoveKeeps ==
    ASSUME Typed, Core, UNCHANGED <<cycle, ops, runs>>,
           handler.at \notin SavesAt, handler'.at \notin SavesAt,
           handler' \in HandlerSet, HandlerHere', HandlerRefers',
           At("selected")' /\ handler'.todo # {} => Mine'.pass + 1 < MaxPasses /\ runs <= MaxRuns
    PROVE  CycleTypes' /\ OpsShape' /\ Core'
<1> USE DEF Typed, Core
<1>1. CycleTypes' /\ OpsShape'
    BY DEF CycleTypes, OpsShape
<1>2. RowsCount'
    BY DEF RowsCount, At
<1>3. RowsRefer'
    BY DEF RowsRefer, ItemsOf
<1>4. OpsStand'
    BY DEF OpsStand, At, SavesAt
<1>5. Settles' /\ Once' /\ Begun'
    BY DEF Settles, Once, Unresolved, Begun, BegunBy
<1> QED BY <1>1, <1>2, <1>3, <1>4, <1>5

\* The cycle at s has settled nothing that its row would lose by leaving the phase.
NothingOpenAt(s) ==
    \A o \in Unresolved :
        /\ ~(ops[o].kind = "names" /\ cycle[s].names = o /\ cycle[s].phase \in {"names", "failed"})
        /\ ~(ops[o].kind = "types" /\ cycle[s].types = o /\ cycle[s].phase \in {"types", "failed"})

\* The operation number n is new: not begun, and no cycle's.
New(n) ==
    /\ n \in DOMAIN ops /\ ops[n].begun = <<>>
    /\ \A s \in Scopes : cycle[s].names # n /\ cycle[s].types # n

\* The row of a live cycle changes between two awaits, outside the script of an operation.
LEMMA RowKeeps ==
    ASSUME Typed, Core, UNCHANGED <<ops, runs>>, handler.at \notin SavesAt,
           NEW s \in Scopes, NEW row \in RowSet, cycle[s].phase \in Live,
           cycle' = [cycle EXCEPT ![s] = row],
           row.id = cycle[s].id, row.pass = cycle[s].pass, row.phase # "absent",
           row.attempts < MaxAttempts + 1, row.phase \in Live => row.attempts < MaxAttempts,
           \/ row.names = cycle[s].names
           \/ cycle[s].names = None /\ New(row.names) /\ ops[row.names].kind = "names",
           \/ row.types = cycle[s].types
           \/ cycle[s].types = None /\ New(row.types) /\ ops[row.types].kind = "types",
           row.phase = "assessing" => row.names = None,
           row.phase \in {"assessing", "names"} => row.types = None,
           row.phase \in Live /\ row.types # None => row.proposals # {},
           row.phase = "types" /\ row.types # None => row.proposals \subseteq ItemsOf(row.types),
           row.phase \in {cycle[s].phase, "failed"} \/ NothingOpenAt(s),
           handler'.at \notin SavesAt, handler' \in HandlerSet, HandlerHere', HandlerRefers',
           At("selected")' => handler'.todo = {}
    PROVE  CycleTypes' /\ OpsShape' /\ Core'
<1> USE DEF Typed, Core
<1>1. /\ cycle' \in [Scopes -> RowSet] /\ cycle'[s] = row
      /\ \A t \in Scopes \ {s} : cycle'[t] = cycle[t]
    BY DEF CycleTypes
<1>2. CycleTypes' /\ OpsShape'
    BY <1>1 DEF CycleTypes, OpsShape
<1>3. RowsCount'
    BY <1>1 DEF RowsCount, At, Live
<1>4. RowsRefer'
  <2>1. ItemsOf(row.types)' = ItemsOf(row.types)
      BY DEF ItemsOf
  <2>2. row.names <= Len(ops) /\ row.types <= Len(ops)
      BY Shape DEF RowsRefer, New
  <2>3. /\ row.phase \in Live /\ row.names # None => ops[row.names].kind = "names"
        /\ row.phase \in Live /\ row.types # None => ops[row.types].kind = "types"
      BY DEF RowsRefer
  <2>4. \A t \in Scopes \ {s} : cycle[t].phase \in Live =>
            /\ row.names = cycle[t].names => row.names = None
            /\ row.types = cycle[t].types => row.types = None
      BY DEF RowsRefer, New
  <2> QED BY <1>1, <2>1, <2>2, <2>3, <2>4 DEF RowsRefer, ItemsOf
<1>5. OpsStand'
    BY DEF OpsStand, At, SavesAt
<1>6. Settles'
  <2>1. Unresolved' = Unresolved
      BY DEF Unresolved
  <2>2. SUFFICES ASSUME NEW o \in Unresolved
                 PROVE  \E t \in Scopes :
        \/ ops[o].kind = "names" /\ cycle'[t].names = o /\ cycle'[t].phase \in {"names", "failed"}
        \/ ops[o].kind = "types" /\ cycle'[t].types = o /\ cycle'[t].phase \in {"types", "failed"}
      BY <2>1 DEF Settles
  <2>3. PICK t \in Scopes :
        \/ ops[o].kind = "names" /\ cycle[t].names = o /\ cycle[t].phase \in {"names", "failed"}
        \/ ops[o].kind = "types" /\ cycle[t].types = o /\ cycle[t].phase \in {"types", "failed"}
      BY DEF Settles
  <2>4. o # None
      BY Shape DEF Unresolved, None
  <2>5. CASE t # s
      BY <1>1, <2>3, <2>5
  <2>6. CASE t = s
    <3>1. row.phase \in {cycle[s].phase, "failed"}
        BY <2>3, <2>6 DEF NothingOpenAt
    <3> QED BY <1>1, <2>3, <2>4, <2>6, <3>1
  <2> QED BY <2>5, <2>6
<1>7. Begun'
  <2>1. SUFFICES ASSUME NEW o \in DOMAIN ops, NEW t \in Scopes, NEW i \in Scopes,
                        ops[o].begun = <<t, i>>
                 PROVE  BegunBy(o, t, i)'
      BY DEF Begun
  <2>2. BegunBy(o, t, i)
      BY <2>1 DEF Begun
  <2>3. o # None
      BY Shape DEF None
  <2>4. CASE t # s
      BY <1>1, <2>2, <2>4 DEF BegunBy
  <2>5. CASE t = s
    <3>1. cycle[s].phase # "absent" /\ cycle'[s] = row /\ i <= runs
        BY <1>1, <2>2 DEF Live, BegunBy
    <3>2. CASE row.id = i
      <4>1. /\ ops[o].kind = "names" => cycle[s].names = o
            /\ ops[o].kind = "types" => cycle[s].types = o
          BY <2>2, <2>5, <3>1, <3>2 DEF BegunBy
      <4> QED BY <2>3, <2>5, <3>1, <4>1 DEF BegunBy
    <3> QED BY <2>5, <3>1, <3>2 DEF BegunBy
  <2> QED BY <2>4, <2>5
<1>8. Once'
    BY DEF Once
<1> QED BY <1>2, <1>3, <1>4, <1>5, <1>6, <1>7, <1>8

-----------------------------------------------------------------------------
\* Requests, people and the assessment of a row go on beside the cycles.
LEMMA OthersKeep ==
    ASSUME Typed, Core, Requests \/ People \/ AssessRow
    PROVE  CycleTypes' /\ OpsShape' /\ Core'
<1>1. UNCHANGED <<cycle, ops, handler, writer>>
    BY DEF Requests, People, Ask, Ends, Answer, JobFails, Control, ChooseScope, Review, Correct,
       AssessRow, queue
<1>2. UNCHANGED runs \/ (runs < MaxRuns /\ runs' = runs + 1)
    BY DEF Requests, People, Ask, Ends, Answer, JobFails, Control, ChooseScope, Review, Correct,
       AssessRow, queue
<1>3. runs \in Nat /\ MaxRuns \in Nat /\ runs \in Scopes
    BY ScopesAreNat, RecoveryAssumption DEF Typed, QueueTypes
<1>4. runs' \in Scopes /\ runs <= runs' /\ (runs <= MaxRuns => runs' <= MaxRuns)
    BY <1>2, <1>3 DEF Scopes
<1>5. At("selected") /\ handler.todo # {} => runs' <= MaxRuns
    BY <1>4 DEF Core, RowsCount
<1>6. ASSUME At("save names"), NEW i \in ops[handler.op].items
      PROVE  revision'[i.result] = revision[i.result]
  <2>1. handler.op \in Unresolved /\ ops[handler.op].kind = "names"
    <3>1. handler.op = Mine.names /\ handler.op # None /\ Mine.phase = "names"
        BY <1>6 DEF Core, HandlerRefers, HandlerHere, At, NamesAt
    <3>2. ops[handler.op].status = "applying" /\ handler.op <= Len(ops)
        BY <1>6 DEF Core, OpsStand, HandlerRefers, SavesAt, At
    <3>3. handler.op \in DOMAIN ops
        BY <3>1, <3>2, Shape DEF Typed, CycleTypes, HandlerSet, None
    <3>4. ops[handler.op].kind = "names"
        BY <3>1 DEF Core, RowsRefer, Mine, Live, Typed, CycleTypes, HandlerSet
    <3> QED BY <3>2, <3>3, <3>4 DEF Unresolved
  <2>2. ASSUME NEW r, Revise(r) PROVE revision'[i.result] = revision[i.result]
    <3>1. Held(i.result)
        BY <1>6, <2>1 DEF Held
    <3>2. r # i.result /\ revision' = [revision EXCEPT ![r] = 1]
        BY <2>2, <3>1 DEF Revise
    <3>3. revision \in [Results -> {0, 1}] /\ i.result \in Results
        BY <1>6, <2>1, Shape DEF Typed, ResultTypes, OpSet, Unresolved
    <3> QED BY <3>2, <3>3
  <2> QED BY <2>2 DEF Requests, People, Ask, Ends, Answer, JobFails, Control, ChooseScope, Review,
          Correct, AssessRow, results
<1> QED BY <1>1, <1>4, <1>5, <1>6, AsideKeeps

\* The handler takes the flag, reads what it finds, gives the flag back, or goes on.
LEMMA MovesKeep ==
    ASSUME Typed, Core,
           \/ Claim \/ Release \/ NamesAgain \/ TypesAgain \/ TypesRefused \/ LocalsDropped
           \/ IsolateReject \/ TypesOutcome \/ RefreshExport \/ RefreshNothing \/ Select
    PROVE  CycleTypes' /\ OpsShape' /\ Core'
<1>1. UNCHANGED <<cycle, ops, runs>>
    BY DEF Claim, Release, NamesAgain, TypesAgain, TypesRefused, LocalsDropped, IsolateReject,
       TypesOutcome, RefreshExport, RefreshNothing, Select, queue
<1>2. handler \in HandlerSet /\ Mine \in RowSet /\ handler.scope \in Scopes
    BY DEF Typed, CycleTypes, HandlerSet, Mine
<1>3. All \in Scopes /\ None \in Nat
    BY RecoveryAssumption DEF All, Scopes, None
<1> USE DEF Core, HandlerHere, HandlerRefers, At, Places, NamesAt, TriesAt, TypesAt, RefreshAt,
            SelectAt, SavesAt, Mine, ItemsOf
<1>4. CASE Claim
  <2>1. handler' = [Idle EXCEPT !.at = "claimed"] /\ writer' = TRUE /\ ~writer
      BY <1>4 DEF Claim
  <2>2. handler' \in HandlerSet /\ handler'.at = "claimed" /\ handler'.op = 0
      BY <1>3, <2>1 DEF Idle, HandlerSet, None
  <2>3. handler.at = "idle"
      BY <2>1
  <2>4. HandlerHere'
      BY <2>1, <2>2
  <2>5. HandlerRefers'
    <3>1. handler'.op <= Len(ops)'
      <4>1. handler'.op = None /\ OpsShape
          BY <2>2 DEF None, Typed
      <4> QED BY <1>1, <4>1, LenIsCounted
    <3> QED BY <2>2, <3>1
  <2>6. ~At("selected")' /\ handler.at \notin SavesAt /\ handler'.at \notin SavesAt
      BY <2>2, <2>3
  <2> QED BY <1>1, <2>2, <2>4, <2>5, <2>6, MoveKeeps
<1>5. CASE Release
  <2>1. handler' = Idle /\ writer' = FALSE /\ handler.at = "done"
      BY <1>5 DEF Release
  <2>2. handler' \in HandlerSet /\ handler'.at = "idle" /\ handler'.op = 0
      BY <1>3, <2>1 DEF Idle, HandlerSet, None
  <2> QED BY <1>1, <2>1, <2>2, Shape, MoveKeeps DEF Typed
<1>6. CASE NamesAgain
    BY <1>1, <1>2, <1>6, MoveKeeps DEF NamesAgain, HandlerSet, RowSet, RowsRefer
<1>7. CASE TypesAgain
    BY <1>1, <1>2, <1>7, MoveKeeps DEF TypesAgain, HandlerSet, RowSet, RowsRefer
<1>8. CASE TypesRefused
    BY <1>1, <1>2, <1>8, MoveKeeps DEF TypesRefused, Previewing, HandlerSet
<1>9. CASE LocalsDropped
    BY <1>1, <1>2, <1>9, MoveKeeps DEF LocalsDropped, Previewing, HandlerSet
<1>10. CASE IsolateReject
    BY <1>1, <1>2, <1>10, MoveKeeps DEF IsolateReject, Previewing, HandlerSet
<1>11. CASE TypesOutcome
    BY <1>1, <1>2, <1>11, MoveKeeps DEF TypesOutcome, HandlerSet
<1>12. CASE RefreshExport
    BY <1>1, <1>2, <1>12, MoveKeeps DEF RefreshExport, HandlerSet
<1>13. CASE RefreshNothing
    BY <1>1, <1>2, <1>13, MoveKeeps DEF RefreshNothing, HandlerSet
<1>14. CASE Select
  <2>1. PICK asked \in SUBSET handler.todo :
            handler' = [handler EXCEPT !.at = "selected",
                !.todo = IF Mine.pass + 1 < MaxPasses /\ runs < MaxRuns
                            THEN (handler.todo \cap news) \cup asked ELSE {}]
      BY <1>14 DEF Select
  <2>2. handler' \in HandlerSet /\ handler'.at = "selected" /\ handler'.scope = handler.scope
      BY <1>2, <2>1 DEF HandlerSet
  <2>3. handler'.todo # {} => Mine.pass + 1 < MaxPasses /\ runs <= MaxRuns
    <3>1. handler'.todo # {} => Mine.pass + 1 < MaxPasses /\ runs < MaxRuns
        BY <1>2, <2>1 DEF HandlerSet
    <3>2. runs \in Nat /\ MaxRuns \in Nat
        BY ScopesAreNat, RecoveryAssumption DEF Typed, QueueTypes
    <3>3. runs < MaxRuns => runs <= MaxRuns
        BY <3>2, LessIsAtMost
    <3> QED BY <3>1, <3>3
  <2> QED BY <1>1, <1>2, <1>14, <2>1, <2>2, <2>3, MoveKeeps DEF Select, HandlerSet
<1> QED BY <1>4, <1>5, <1>6, <1>7, <1>8, <1>9, <1>10, <1>11, <1>12, <1>13, <1>14

-----------------------------------------------------------------------------
\* A handler that is over, or starts, refers to nothing.
LEMMA RestFits ==
    ASSUME OpsShape', handler' \in {Over, Idle}, writer' <=> handler' # Idle
    PROVE  /\ handler' \in HandlerSet /\ handler'.at \in {"idle", "done"}
           /\ HandlerHere' /\ HandlerRefers'
<1>1. All \in Scopes /\ None \in Nat
    BY RecoveryAssumption DEF All, Scopes, None
<1>2. /\ handler' \in HandlerSet /\ handler'.at \in {"idle", "done"} /\ handler'.op = None
      /\ handler'.at = "idle" <=> handler' = Idle
  <2>1. /\ Idle \in HandlerSet /\ Idle.at = "idle" /\ Idle.op = None
      BY <1>1 DEF Idle, HandlerSet, Places
  <2>2. /\ Over \in HandlerSet /\ Over.at = "done" /\ Over.op = None
      BY <2>1 DEF Over, HandlerSet, Places
  <2> QED BY <2>1, <2>2
<1>3. handler'.op <= Len(ops)'
  <2>1. \A q \in Seq(OpSet) : None <= Len(q)
      BY LenProperties DEF None
  <2> QED BY <1>2, <2>1 DEF OpsShape
<1>4. HandlerHere'
    BY <1>2 DEF HandlerHere, NamesAt, TypesAt, TriesAt, RefreshAt, SelectAt
<1>5. HandlerRefers'
    BY <1>2, <1>3 DEF HandlerRefers, At, TriesAt
<1> QED BY <1>2, <1>4, <1>5

\* A phase is over, and the next one begins.
LEMMA ProceedKeeps ==
    ASSUME Typed, Core, UNCHANGED <<ops, runs, writer>>,
           handler.at \in Places \ (SavesAt \cup {"idle", "claimed", "done"}),
           NEW phase \in {"types", "refreshing", "reanalysis"}, Proceed(phase),
           phase = "types" => Mine.types = None, NothingOpenAt(handler.scope)
    PROVE  CycleTypes' /\ OpsShape' /\ Core'
<1>1. /\ handler.scope \in Scopes /\ Mine \in RowSet /\ Mine.phase \in Live
      /\ handler' = Over
    BY DEF Typed, CycleTypes, HandlerSet, Mine, Core, HandlerHere, Places, NamesAt, TypesAt,
       TriesAt, RefreshAt, SelectAt, Live, Proceed
<1> DEFINE row == [Mine EXCEPT !.phase = phase, !.attempts = 0,
                               !.trials = [f \in Functions |-> "none"]]
<1>2. /\ row \in RowSet /\ row.id = Mine.id /\ row.pass = Mine.pass /\ row.phase = phase
      /\ row.names = Mine.names /\ row.types = Mine.types /\ row.proposals = Mine.proposals
    BY <1>1 DEF RowSet, Live, TrialStates
<1>3. row.attempts < MaxAttempts /\ row.attempts < MaxAttempts + 1
  <2>1. row.attempts = 0
      BY <1>1 DEF RowSet
  <2>2. 0 < MaxAttempts /\ 0 < MaxAttempts + 1
      BY RecoveryAssumption
  <2> QED BY <2>1, <2>2
<1>4. cycle' = [cycle EXCEPT ![handler.scope] = row]
    BY DEF Proceed, SetMine
<1>5. writer' = TRUE /\ OpsShape' /\ handler' # Idle
    BY <1>1 DEF Core, HandlerHere, Typed, OpsShape, Over, Idle
<1>6. /\ handler' \in HandlerSet /\ handler'.at \in {"idle", "done"}
      /\ HandlerHere' /\ HandlerRefers'
    BY <1>1, <1>5, RestFits
<1>7. row.phase \in Live /\ row.types # None => row.proposals # {}
    BY <1>1, <1>2 DEF Core, RowsRefer, Mine
<1>8. phase = "types" => row.types = None
    BY <1>2
<1>9. handler.at \notin SavesAt /\ handler'.at \notin SavesAt /\ ~At("selected")'
    BY <1>6 DEF SavesAt, At
<1>10. Mine = cycle[handler.scope] /\ phase # "absent" /\ phase # "assessing" /\ phase # "names"
    BY DEF Mine
<1> HIDE DEF row
<1> QED BY <1>1, <1>2, <1>3, <1>4, <1>6, <1>7, <1>8, <1>9, <1>10, RowKeeps

\* What the cycle at hand names has no open outcome once its script is through.
LEMMA ProceedsKeep ==
    ASSUME Typed, Core, NamesDone \/ TypesNothing \/ TypesDone \/ Mark
    PROVE  CycleTypes' /\ OpsShape' /\ Core'
<1>0. /\ UNCHANGED <<ops, runs, writer>> /\ handler.scope \in Scopes
      /\ handler.at \in Places \ (SavesAt \cup {"idle", "claimed", "done"})
    BY DEF NamesDone, TypesNothing, TypesDone, Mark, Typed, CycleTypes, HandlerSet, At, SavesAt, queue
<1>1. CASE NamesDone
  <2>1. Mine.phase = "names" /\ handler.op = Mine.names /\ Mine.types = None
      BY <1>0, <1>1 DEF NamesDone, At, Core, HandlerHere, HandlerRefers, NamesAt, RowsRefer, Mine
  <2>2. NothingOpenAt(handler.scope)
    <3>1. SUFFICES ASSUME NEW o \in Unresolved, ops[o].kind = "names", Mine.names = o
                   PROVE  FALSE
        BY <2>1 DEF NothingOpenAt, Mine
    <3>2. ops[o].items # {} /\ ops[o].status # "applying"
        BY <1>1, <3>1 DEF NamesDone, At, Core, OpsStand, SavesAt, Unresolved
    <3> QED BY <1>1, <2>1, <3>1, <3>2 DEF NamesDone, Unresolved
  <2> QED BY <1>0, <1>1, <2>1, <2>2, ProceedKeeps DEF NamesDone
<1>2. CASE TypesNothing
  <2>1. Mine.phase = "types" /\ Mine.types = None
      BY <1>0, <1>2 DEF TypesNothing, At, Core, HandlerHere, TypesAt, TriesAt, RowsRefer, Mine, Live
  <2>2. NothingOpenAt(handler.scope)
      BY <2>1, Shape DEF NothingOpenAt, Mine, Unresolved, Typed, None
  <2> QED BY <1>0, <1>2, <2>2, ProceedKeeps DEF TypesNothing
<1>3. CASE TypesDone
  <2>1. /\ Mine.phase = "types"
        /\ Mine.types = None \/ ops[Mine.types].status \in {"applied", "unchanged"}
      BY <1>0, <1>3 DEF TypesDone, At, Core, HandlerHere, HandlerRefers, TypesAt
  <2>2. NothingOpenAt(handler.scope)
      BY <2>1, Shape DEF NothingOpenAt, Mine, Unresolved, Typed, None
  <2> QED BY <1>0, <1>3, <2>2, ProceedKeeps DEF TypesDone
<1>4. CASE Mark
  <2>1. Mine.phase = "refreshing"
      BY <1>4 DEF Mark, At, Core, HandlerHere, RefreshAt
  <2>2. NothingOpenAt(handler.scope)
      BY <2>1 DEF NothingOpenAt, Mine
  <2> QED BY <1>0, <1>4, <2>2, ProceedKeeps DEF Mark
<1> QED BY <1>1, <1>2, <1>3, <1>4

\* What a step that stores something with the cycle may start from.
LEMMA MineNow ==
    ASSUME Typed, Core, handler.at \in Places \ {"idle", "claimed", "done"}
    PROVE  /\ handler \in HandlerSet /\ handler.scope \in Scopes /\ Mine = cycle[handler.scope]
           /\ Mine \in RowSet /\ Mine.phase \in Live /\ writer = TRUE /\ handler.op \in Nat
           /\ Mine.attempts < MaxAttempts /\ Mine.attempts < MaxAttempts + 1
           /\ Mine.types # None => Mine.proposals # {}
           /\ Mine.phase = "types" /\ Mine.types # None => Mine.proposals \subseteq ItemsOf(Mine.types)
           /\ Mine.phase = "assessing" => Mine.names = None
           /\ Mine.phase \in {"assessing", "names"} => Mine.types = None
<1>1. handler \in HandlerSet /\ handler.scope \in Scopes /\ Mine \in RowSet /\ handler.op \in Nat
    BY DEF Typed, CycleTypes, HandlerSet, Mine
<1>2. Mine.phase \in Live /\ writer = TRUE
    BY DEF Core, HandlerHere, Places, NamesAt, TypesAt, TriesAt, RefreshAt, SelectAt, Live,
           Typed, QueueTypes
<1>3. Mine.attempts < MaxAttempts /\ Mine.attempts < MaxAttempts + 1
    BY <1>1, <1>2 DEF Core, RowsCount, Mine
<1>4. /\ Mine.types # None => Mine.proposals # {}
      /\ Mine.phase = "types" /\ Mine.types # None => Mine.proposals \subseteq ItemsOf(Mine.types)
      /\ Mine.phase = "assessing" => Mine.names = None
      /\ Mine.phase \in {"assessing", "names"} => Mine.types = None
    BY <1>1, <1>2 DEF Core, RowsRefer, Mine
<1> QED BY <1>1, <1>2, <1>3, <1>4 DEF Mine

LEMMA AssessDoneKeeps ==
    ASSUME Typed, Core, AssessDone
    PROVE  CycleTypes' /\ OpsShape' /\ Core'
<1>1. /\ UNCHANGED <<ops, runs, writer>> /\ handler.at = "assessing" /\ handler' = Over
      /\ Mine.phase = "assessing"
    BY DEF AssessDone, At, queue, Core, HandlerHere
<1>2. PICK kept \in SUBSET Validated : SetMine([Mine EXCEPT !.phase = "names", !.proposals = kept])
    BY DEF AssessDone
<1>3. kept \subseteq Results
    BY CurIsResult DEF Validated, Typed
<1>4. /\ handler.scope \in Scopes /\ Mine = cycle[handler.scope] /\ Mine \in RowSet
      /\ Mine.attempts < MaxAttempts /\ Mine.attempts < MaxAttempts + 1
      /\ Mine.types = None /\ writer = TRUE
    BY <1>1, MineNow DEF Places
<1> DEFINE row == [Mine EXCEPT !.phase = "names", !.proposals = kept]
<1>5. /\ row \in RowSet /\ row.id = Mine.id /\ row.pass = Mine.pass /\ row.phase = "names"
      /\ row.names = Mine.names /\ row.types = Mine.types /\ row.attempts = Mine.attempts
    BY <1>3, <1>4 DEF RowSet, Live
<1>6. NothingOpenAt(handler.scope)
    BY <1>1, <1>4 DEF NothingOpenAt
<1>7. /\ handler' \in HandlerSet /\ handler'.at \in {"idle", "done"}
      /\ HandlerHere' /\ HandlerRefers'
    BY <1>1, <1>4, RestFits DEF Typed, OpsShape, Over, Idle
<1>8. handler.at \notin SavesAt /\ handler'.at \notin SavesAt /\ ~At("selected")'
    BY <1>1, <1>7 DEF SavesAt, At
<1>9. cycle' = [cycle EXCEPT ![handler.scope] = row]
    BY <1>2 DEF SetMine
<1>10. row.phase # "absent" /\ row.phase # "assessing" /\ row.phase # "types"
       /\ Mine.phase \in Live
    BY <1>1, <1>5 DEF Live
<1> HIDE DEF row
<1> QED BY <1>1, <1>4, <1>5, <1>6, <1>7, <1>8, <1>9, <1>10, RowKeeps

LEMMA NamesKeepKeeps ==
    ASSUME Typed, Core, NamesKeep
    PROVE  CycleTypes' /\ OpsShape' /\ Core'
<1>1. /\ UNCHANGED <<ops, runs, writer>> /\ handler.at = "keep names"
      /\ handler' = [handler EXCEPT !.at = "apply names"]
      /\ cycle' = [cycle EXCEPT ![handler.scope] = [Mine EXCEPT !.names = handler.op]]
    BY DEF NamesKeep, At, queue, SetMine
<1>2. Mine.phase = "names" /\ Mine.names = None /\ ops[handler.op].kind = "names"
    BY <1>1 DEF Core, HandlerHere, HandlerRefers, NamesAt, At
<1>3. New(handler.op) /\ handler.op # None /\ handler.op <= Len(ops)
  <2>1. handler.op = Len(ops) /\ handler.op # 0 /\ ops[handler.op].begun = <<>>
        /\ \A s \in Scopes : cycle[s].names # handler.op /\ cycle[s].types # handler.op
      BY <1>1 DEF Core, HandlerRefers
  <2>2. Len(ops) \in 1 .. Len(ops) /\ Len(ops) <= Len(ops)
      BY <2>1, Shape DEF Typed
  <2> QED BY <2>1, <2>2, Shape DEF Typed, New, None
<1>4. /\ handler \in HandlerSet /\ handler.scope \in Scopes /\ Mine = cycle[handler.scope]
      /\ Mine \in RowSet /\ handler.op \in Nat
      /\ Mine.attempts < MaxAttempts /\ Mine.attempts < MaxAttempts + 1
      /\ Mine.types = None /\ writer = TRUE
    BY <1>1, <1>2, MineNow DEF Places, NamesAt
<1> DEFINE row == [Mine EXCEPT !.names = handler.op]
<1>5. /\ row \in RowSet /\ row.id = Mine.id /\ row.pass = Mine.pass /\ row.phase = "names"
      /\ row.names = handler.op /\ row.types = Mine.types /\ row.attempts = Mine.attempts
    BY <1>2, <1>4 DEF RowSet
<1>6. cycle'[handler.scope] = row
    BY <1>1, <1>4 DEF Typed, CycleTypes
<1>7. handler' \in HandlerSet /\ handler'.at = "apply names" /\ handler'.scope = handler.scope
      /\ handler'.op = handler.op
    BY <1>1, <1>4 DEF HandlerSet, Places, NamesAt
<1>8. HandlerHere'
    BY <1>1, <1>4, <1>5, <1>6, <1>7
       DEF HandlerHere, Mine, NamesAt, TypesAt, TriesAt, RefreshAt, SelectAt
<1>9. HandlerRefers'
    BY <1>1, <1>3, <1>5, <1>6, <1>7 DEF HandlerRefers, Mine, TriesAt, At
<1>10. handler.at \notin SavesAt /\ handler'.at \notin SavesAt /\ ~At("selected")'
    BY <1>1, <1>7 DEF SavesAt, At
<1>11. row.phase # "absent" /\ row.phase # "assessing" /\ row.phase # "types" /\ Mine.phase \in Live
    BY <1>2, <1>5 DEF Live
<1> HIDE DEF row
<1>12. cycle' = [cycle EXCEPT ![handler.scope] = row]
    BY <1>1 DEF row
<1> QED BY <1>1, <1>2, <1>3, <1>4, <1>5, <1>7, <1>8, <1>9, <1>10, <1>11, <1>12, RowKeeps

LEMMA LocalsKeepKeeps ==
    ASSUME Typed, Core, LocalsKeep
    PROVE  CycleTypes' /\ OpsShape' /\ Core'
<1> DEFINE row == [Mine EXCEPT !.proposals = handler.proposals]
           to == IF handler.proposals = {} THEN "types decided" ELSE "types without locals"
<1>1. /\ UNCHANGED <<ops, runs, writer>> /\ handler.at = "keep without locals"
      /\ handler' = [handler EXCEPT !.at = to]
      /\ cycle' = [cycle EXCEPT ![handler.scope] = row]
    BY DEF LocalsKeep, At, queue, SetMine
<1>2. Mine.phase = "types" /\ Mine.types = None
    BY <1>1 DEF Core, HandlerHere, HandlerRefers, TypesAt, TriesAt, At
<1>4. /\ handler \in HandlerSet /\ handler.scope \in Scopes /\ Mine = cycle[handler.scope]
      /\ Mine \in RowSet /\ Mine.attempts < MaxAttempts /\ Mine.attempts < MaxAttempts + 1
      /\ writer = TRUE
    BY <1>1, MineNow DEF Places, TypesAt, TriesAt
<1>5. /\ row \in RowSet /\ row.id = Mine.id /\ row.pass = Mine.pass /\ row.phase = "types"
      /\ row.names = Mine.names /\ row.types = None /\ row.attempts = Mine.attempts
      /\ row.proposals = handler.proposals
    BY <1>2, <1>4 DEF RowSet, HandlerSet
<1>6. cycle'[handler.scope] = row
    BY <1>1, <1>4 DEF Typed, CycleTypes
<1>7. handler' \in HandlerSet /\ handler'.at = to /\ handler'.scope = handler.scope
      /\ handler'.op = handler.op /\ handler'.proposals = handler.proposals
      /\ to \in {"types decided", "types without locals"}
    BY <1>1, <1>4 DEF HandlerSet, Places, TypesAt, TriesAt
<1> HIDE DEF row, to
<1>8. HandlerHere'
    BY <1>1, <1>4, <1>5, <1>6, <1>7
       DEF HandlerHere, Mine, NamesAt, TypesAt, TriesAt, RefreshAt, SelectAt
<1>9. HandlerRefers'
  <2>1. handler'.op <= Len(ops)'
      BY <1>1, <1>7 DEF Core, HandlerRefers
  <2> QED BY <2>1, <1>1, <1>5, <1>6, <1>7 DEF HandlerRefers, Mine, TriesAt, At
<1>10. handler.at \notin SavesAt /\ handler'.at \notin SavesAt /\ ~At("selected")'
    BY <1>1, <1>7 DEF SavesAt, At
<1>11. row.phase # "absent" /\ row.phase # "assessing" /\ row.phase # "names" /\ Mine.phase \in Live
    BY <1>2, <1>5 DEF Live
<1> QED BY <1>1, <1>2, <1>4, <1>5, <1>7, <1>8, <1>9, <1>10, <1>11, RowKeeps

LEMMA TypesKeepKeeps ==
    ASSUME Typed, Core, TypesKeep
    PROVE  CycleTypes' /\ OpsShape' /\ Core'
<1> DEFINE row == [Mine EXCEPT !.types = handler.op]
<1>1. /\ UNCHANGED <<ops, runs, writer>> /\ handler.at = "keep types"
      /\ handler' = [handler EXCEPT !.at = "apply types"]
      /\ cycle' = [cycle EXCEPT ![handler.scope] = row]
    BY DEF TypesKeep, At, queue, SetMine
<1>2. /\ Mine.phase = "types" /\ Mine.types = None /\ ops[handler.op].kind = "types"
      /\ Mine.proposals # {} /\ Mine.proposals \subseteq ItemsOf(handler.op)
    BY <1>1 DEF Core, HandlerHere, HandlerRefers, TypesAt, At
<1>3. New(handler.op) /\ handler.op # None /\ handler.op <= Len(ops)
  <2>1. handler.op = Len(ops) /\ handler.op # 0 /\ ops[handler.op].begun = <<>>
        /\ \A s \in Scopes : cycle[s].names # handler.op /\ cycle[s].types # handler.op
      BY <1>1 DEF Core, HandlerRefers
  <2>2. Len(ops) \in 1 .. Len(ops) /\ Len(ops) <= Len(ops)
      BY <2>1, Shape DEF Typed
  <2> QED BY <2>1, <2>2, Shape DEF Typed, New, None
<1>4. /\ handler \in HandlerSet /\ handler.scope \in Scopes /\ Mine = cycle[handler.scope]
      /\ Mine \in RowSet /\ handler.op \in Nat
      /\ Mine.attempts < MaxAttempts /\ Mine.attempts < MaxAttempts + 1 /\ writer = TRUE
    BY <1>1, MineNow DEF Places, TypesAt
<1>5. /\ row \in RowSet /\ row.id = Mine.id /\ row.pass = Mine.pass /\ row.phase = "types"
      /\ row.names = Mine.names /\ row.types = handler.op /\ row.attempts = Mine.attempts
      /\ row.proposals = Mine.proposals
    BY <1>2, <1>4 DEF RowSet
<1>6. cycle'[handler.scope] = row
    BY <1>1, <1>4 DEF Typed, CycleTypes
<1>7. handler' \in HandlerSet /\ handler'.at = "apply types" /\ handler'.scope = handler.scope
      /\ handler'.op = handler.op
    BY <1>1, <1>4 DEF HandlerSet, Places, TypesAt
<1> HIDE DEF row
<1>8. HandlerHere'
    BY <1>1, <1>4, <1>5, <1>6, <1>7
       DEF HandlerHere, Mine, NamesAt, TypesAt, TriesAt, RefreshAt, SelectAt
<1>9. HandlerRefers'
    BY <1>1, <1>3, <1>5, <1>6, <1>7 DEF HandlerRefers, Mine, TriesAt, At
<1>10. handler.at \notin SavesAt /\ handler'.at \notin SavesAt /\ ~At("selected")'
    BY <1>1, <1>7 DEF SavesAt, At
<1>11. row.phase # "absent" /\ row.phase # "assessing" /\ row.phase # "names" /\ Mine.phase \in Live
    BY <1>2, <1>5 DEF Live
<1> QED BY <1>1, <1>2, <1>3, <1>4, <1>5, <1>7, <1>8, <1>9, <1>10, <1>11, RowKeeps

LEMMA TrialsKeep ==
    ASSUME Typed, Core, NEW f \in Functions, TrialSave(f) \/ TrialRecord(f)
    PROVE  CycleTypes' /\ OpsShape' /\ Core'
<1>1. /\ UNCHANGED <<ops, runs, writer>> /\ handler.at = "refreshing"
      /\ Mine.phase = "refreshing"
    BY DEF TrialSave, TrialRecord, At, queue, Core, HandlerHere, RefreshAt
<1>2. PICK trial \in TrialStates : SetMine([Mine EXCEPT !.trials[f] = trial])
    BY DEF TrialSave, TrialRecord, TrialStates
<1>4. /\ handler \in HandlerSet /\ handler.scope \in Scopes /\ Mine = cycle[handler.scope]
      /\ Mine \in RowSet /\ Mine.attempts < MaxAttempts /\ Mine.attempts < MaxAttempts + 1
      /\ writer = TRUE /\ (Mine.types # None => Mine.proposals # {})
    BY <1>1, MineNow DEF Places, RefreshAt
<1> DEFINE row == [Mine EXCEPT !.trials[f] = trial]
<1>5. /\ row \in RowSet /\ row.id = Mine.id /\ row.pass = Mine.pass /\ row.phase = "refreshing"
      /\ row.names = Mine.names /\ row.types = Mine.types /\ row.attempts = Mine.attempts
      /\ row.proposals = Mine.proposals
    BY <1>1, <1>4 DEF RowSet
<1>6. cycle' = [cycle EXCEPT ![handler.scope] = row]
    BY <1>2 DEF SetMine
<1>12. cycle'[handler.scope] = row
    BY <1>4, <1>6 DEF Typed, CycleTypes
<1> HIDE DEF row
<1>7. handler' \in HandlerSet /\ handler'.at = "refreshing" /\ handler'.scope = handler.scope
      /\ handler'.op = handler.op
    BY <1>1, <1>4 DEF HandlerSet, TrialSave, TrialRecord, Changed
<1>8. HandlerHere'
    BY <1>1, <1>4, <1>5, <1>7, <1>12
       DEF HandlerHere, Mine, NamesAt, TypesAt, TriesAt, RefreshAt, SelectAt
<1>9. HandlerRefers'
  <2>1. handler'.op <= Len(ops)'
      BY <1>1, <1>7 DEF Core, HandlerRefers
  <2> QED BY <2>1, <1>7 DEF HandlerRefers, TriesAt, At
<1>10. handler.at \notin SavesAt /\ handler'.at \notin SavesAt /\ ~At("selected")'
    BY <1>1, <1>7 DEF SavesAt, At
<1>11. /\ row.phase # "absent" /\ row.phase # "assessing" /\ row.phase # "names"
       /\ row.phase # "types" /\ Mine.phase \in Live
    BY <1>1, <1>5 DEF Live
<1> QED BY <1>1, <1>4, <1>5, <1>6, <1>7, <1>8, <1>9, <1>10, <1>11, RowKeeps

-----------------------------------------------------------------------------
\* The operation at hand is the one that its cycle names for the phase it is in.
Handles(kind) ==
    /\ handler.op # None /\ ops[handler.op].kind = kind
    /\ \/ kind = "names" /\ Mine.phase = "names" /\ Mine.names = handler.op
       \/ kind = "types" /\ Mine.phase = "types" /\ Mine.types = handler.op

ScriptAt(kind) == IF kind = "names" THEN {"apply names", "save names", "record names"}
                                    ELSE {"apply types", "save types", "export types"}

LEMMA HandlesWhatItNames ==
    ASSUME Typed, Core, NEW kind \in {"names", "types"}, handler.at \in ScriptAt(kind)
    PROVE  Handles(kind) /\ handler.op \in DOMAIN ops /\ ops[handler.op] \in OpSet
<1>1. handler.op # None /\ handler.op <= Len(ops) /\ handler.op \in Nat
    BY DEF ScriptAt, Core, HandlerRefers, Typed, CycleTypes, HandlerSet
<1>2. handler.op \in DOMAIN ops /\ ops[handler.op] \in OpSet
    BY <1>1, Shape DEF Typed, None
<1>3. \/ kind = "names" /\ Mine.phase = "names" /\ Mine.names = handler.op
      \/ kind = "types" /\ Mine.phase = "types" /\ Mine.types = handler.op
    BY DEF ScriptAt, Core, HandlerHere, HandlerRefers, NamesAt, TypesAt
<1>4. handler.scope \in Scopes
    BY DEF Typed, CycleTypes, HandlerSet
<1>5. ops[handler.op].kind = kind
    BY <1>1, <1>3, <1>4 DEF Core, RowsRefer, Live, Mine
<1> QED BY <1>1, <1>2, <1>3, <1>5 DEF Handles

\* Another operation that the pass at hand has begun would be the one its cycle names.
LEMMA BegunHere ==
    ASSUME Typed, Core, NEW kind \in {"names", "types"}, Handles(kind),
           NEW p \in DOMAIN ops, ops[p].begun = Pass, ops[p].kind = kind
    PROVE  p = handler.op
<1>1. /\ handler.scope \in Scopes /\ Mine \in RowSet /\ Mine.id \in Nat
      /\ Mine.id <= runs /\ runs \in Scopes
    BY DEF Typed, CycleTypes, HandlerSet, Mine, RowSet, Core, RowsCount, QueueTypes
<1>2. Mine.id \in Scopes
    BY <1>1, RecoveryAssumption DEF Scopes
<1>3. BegunBy(p, handler.scope, Mine.id)
    BY <1>1, <1>2 DEF Core, Begun, Pass
<1>4. cycle[handler.scope].phase # "absent" /\ cycle[handler.scope].id = Mine.id
    BY DEF Handles, Mine
<1> QED BY <1>3, <1>4 DEF BegunBy, Handles, Mine

\* The cycles refer to the operations by what they are and of what they consist.
LEMMA RowsReferAlike ==
    ASSUME Typed, Core, cycle' = cycle, Len(ops)' = Len(ops),
           \A p \in DOMAIN ops : ops'[p].kind = ops[p].kind /\ ops'[p].items = ops[p].items
    PROVE  RowsRefer'
<1>1. \A s \in Scopes : /\ cycle[s].names # None => cycle[s].names \in DOMAIN ops
                        /\ cycle[s].types # None => cycle[s].types \in DOMAIN ops
  <2>1. \A s \in Scopes : /\ cycle[s].names \in Nat /\ cycle[s].types \in Nat
                          /\ cycle[s].names <= Len(ops) /\ cycle[s].types <= Len(ops)
      BY DEF Core, RowsRefer, Typed, CycleTypes, RowSet
  <2>2. \A n \in Nat : n # None /\ n <= Len(ops) => n \in DOMAIN ops
    <3>1. DOMAIN ops = 1 .. Len(ops) /\ Len(ops) \in Nat
        BY Shape DEF Typed
    <3>2. \A n \in Nat : n # 0 /\ n <= Len(ops) => n \in 1 .. Len(ops)
        BY <3>1, IsNumbered
    <3> QED BY <3>1, <3>2 DEF None
  <2> QED BY <2>1, <2>2
<1>2. /\ \A s \in Scopes : cycle[s].names # None => ops'[cycle[s].names].kind = ops[cycle[s].names].kind
      /\ \A s \in Scopes : cycle[s].types # None =>
              /\ ops'[cycle[s].types].kind = ops[cycle[s].types].kind
              /\ ItemsOf(cycle[s].types)' = ItemsOf(cycle[s].types)
  <2>1. ASSUME NEW s \in Scopes, cycle[s].types # None
        PROVE  ItemsOf(cycle[s].types)' = ItemsOf(cycle[s].types)
    <3>1. ops'[cycle[s].types].items = ops[cycle[s].types].items /\ cycle' = cycle
        BY <1>1, <2>1
    <3> QED BY <3>1 DEF ItemsOf
  <2> QED BY <1>1, <2>1
<1>3. \A s \in Scopes : cycle[s].phase \in Live /\ cycle[s].types # None =>
          /\ ops'[cycle[s].types].kind = "types"
          /\ cycle[s].proposals # {}
          /\ cycle[s].phase = "types" => cycle[s].proposals \subseteq ItemsOf(cycle[s].types)'
    BY <1>2 DEF Core, RowsRefer
<1>4. \A s \in Scopes : cycle[s].phase \in Live /\ cycle[s].names # None =>
          ops'[cycle[s].names].kind = "names"
    BY <1>2 DEF Core, RowsRefer
<1> QED BY <1>3, <1>4 DEF Core, RowsRefer, ItemsOf

\* A step of the script of an operation.
LEMMA ScriptKeeps ==
    ASSUME Typed, Core, UNCHANGED <<cycle, runs, writer, revision>>,
           NEW kind \in {"names", "types"}, handler.at \in ScriptAt(kind),
           NEW to \in ScriptAt(kind), handler' = [handler EXCEPT !.at = to],
           NEW op \in OpSet, ops' = [ops EXCEPT ![handler.op] = op],
           op.kind = ops[handler.op].kind, op.items = ops[handler.op].items,
           op.begun \in {ops[handler.op].begun, Pass},
           op.status = "applying" <=> to \in SavesAt,
           op.status = "uncertain" => ops[handler.op].status = "uncertain",
           kind = "names" /\ to \in SavesAt => op.items # {},
           op.written # {} => op.saved,
           kind = "types" /\ op.status = "applied" => op.saved,
           to = "export types" => op.saved,
           to = "save names" => \A i \in op.items : revision[i.result] = i.revision
    PROVE  CycleTypes' /\ OpsShape' /\ Core'
<1> DEFINE o == handler.op
<1>1. Handles(kind) /\ o \in DOMAIN ops
    BY HandlesWhatItNames
<1>2. /\ OpsShape' /\ Len(ops)' = Len(ops) /\ ops'[o] = op
      /\ \A p \in DOMAIN ops \ {o} : ops'[p] = ops[p]
    BY <1>1, Changes DEF Typed
<1>3. DOMAIN ops' = DOMAIN ops
    BY <1>2, Shape DEF Typed
<1>4. /\ handler' \in HandlerSet /\ handler'.at = to /\ handler'.scope = handler.scope
      /\ handler'.op = o
    BY DEF Typed, CycleTypes, HandlerSet, ScriptAt, Places, NamesAt, TypesAt
<1>5. CycleTypes'
    BY <1>4 DEF Typed, CycleTypes
<1>6. \A p \in DOMAIN ops : ops'[p].kind = ops[p].kind /\ ops'[p].items = ops[p].items
    BY <1>2
<1>7. HandlerHere'
  <2>1. writer' = TRUE
      BY DEF ScriptAt, Core, HandlerHere, Typed, QueueTypes
  <2>2. Mine' = Mine
      BY <1>4 DEF Mine
  <2>3. /\ to \in NamesAt => Mine.phase = "names"
        /\ to \in TypesAt => Mine.phase = "types"
        /\ to \in NamesAt \cup TypesAt /\ to \notin RefreshAt \cup SelectAt
        /\ to # "assessing" /\ to # "idle"
    <3>1. CASE kind = "names"
        BY <1>1, <3>1 DEF ScriptAt, NamesAt, TypesAt, TriesAt, RefreshAt, SelectAt, Handles
    <3>2. CASE kind = "types"
        BY <1>1, <3>2 DEF ScriptAt, NamesAt, TypesAt, TriesAt, RefreshAt, SelectAt, Handles
    <3> QED BY <3>1, <3>2
  <2> QED BY <1>4, <2>1, <2>2, <2>3 DEF HandlerHere
<1>8. RowsCount'
    BY <1>4 DEF Core, RowsCount, At, ScriptAt
<1>9. RowsRefer'
    BY <1>2, <1>6, RowsReferAlike
<1>10. HandlerRefers'
  <2>1. Mine' = Mine /\ handler'.op <= Len(ops)'
      BY <1>2, <1>4 DEF Mine, Core, HandlerRefers
  <2>2. CASE kind = "names"
      BY <1>1, <1>4, <2>1, <2>2 DEF HandlerRefers, At, TriesAt, ScriptAt, Handles
  <2>3. CASE kind = "types"
      BY <1>1, <1>4, <2>1, <2>3 DEF HandlerRefers, At, TriesAt, ScriptAt, Handles
  <2> QED BY <2>2, <2>3
<1>11. OpsStand'
  <2>1. ASSUME NEW p \in DOMAIN ops
        PROVE  /\ ops'[p].status = "applying" => to \in SavesAt /\ p = o
               /\ ops'[p].status \in {"applying", "uncertain"} /\ ops'[p].kind = "names"
                     => ops'[p].items # {}
               /\ ops'[p].written # {} => ops'[p].saved
               /\ ops'[p].kind = "types" /\ ops'[p].status = "applied" => ops'[p].saved
    <3>1. CASE p = o
        BY <1>1, <1>2, <3>1 DEF Core, OpsStand, Handles
    <3>2. CASE p # o
        BY <1>2, <3>2 DEF Core, OpsStand
    <3> QED BY <3>1, <3>2
  <2>2. /\ to = "export types" => ops'[o].saved
        /\ to \in SavesAt => ops'[o].status = "applying"
        /\ to = "save names" => \A i \in ops'[o].items : revision'[i.result] = i.revision
      BY <1>2
  <2> QED BY <1>3, <1>4, <2>1, <2>2 DEF OpsStand, At
<1>12. Settles'
  <2>1. handler.scope \in Scopes
      BY DEF Typed, CycleTypes, HandlerSet
  <2>2. \A p \in Unresolved' : p = o \/ p \in Unresolved
      BY <1>2, <1>3 DEF Unresolved
  <2>3. \/ ops'[o].kind = "names" /\ cycle[handler.scope].names = o
            /\ cycle[handler.scope].phase \in {"names", "failed"}
        \/ ops'[o].kind = "types" /\ cycle[handler.scope].types = o
            /\ cycle[handler.scope].phase \in {"types", "failed"}
      BY <1>1, <1>2 DEF Handles, Mine
  <2>4. SUFFICES ASSUME NEW p \in Unresolved'
                 PROVE  \E s \in Scopes :
        \/ ops'[p].kind = "names" /\ cycle[s].names = p /\ cycle[s].phase \in {"names", "failed"}
        \/ ops'[p].kind = "types" /\ cycle[s].types = p /\ cycle[s].phase \in {"types", "failed"}
      BY DEF Settles
  <2>5. CASE p = o
      BY <2>1, <2>3, <2>5
  <2>6. CASE p # o
    <3>1. p \in Unresolved /\ ops'[p].kind = ops[p].kind
        BY <1>6, <2>2, <2>4, <2>6 DEF Unresolved
    <3>2. PICK s \in Scopes :
        \/ ops[p].kind = "names" /\ cycle[s].names = p /\ cycle[s].phase \in {"names", "failed"}
        \/ ops[p].kind = "types" /\ cycle[s].types = p /\ cycle[s].phase \in {"types", "failed"}
        BY <3>1 DEF Core, Settles
    <3> QED BY <3>1, <3>2
  <2> QED BY <2>5, <2>6
<1>13. Begun'
  <2>1. ASSUME NEW p \in DOMAIN ops, NEW s \in Scopes, NEW i \in Scopes, ops'[p].begun = <<s, i>>
        PROVE  BegunBy(p, s, i)'
    <3>1. CASE ops[p].begun = <<s, i>>
        BY <1>6, <3>1 DEF Core, Begun, BegunBy
    <3>2. CASE ops[p].begun # <<s, i>>
      <4>1. p = o /\ <<s, i>> = Pass
          BY <1>2, <2>1, <3>2
      <4>2. s = handler.scope /\ i = Mine.id
          BY <4>1 DEF Pass
      <4>3. Mine.id <= runs
          BY DEF Core, RowsCount, Mine, Typed, CycleTypes, HandlerSet
      <4> QED BY <1>1, <1>6, <4>1, <4>2, <4>3 DEF BegunBy, Handles, Mine
    <3> QED BY <3>1, <3>2
  <2> QED BY <1>3, <2>1 DEF Begun
<1>14. Once'
  <2>1. ASSUME NEW p \in DOMAIN ops \ {o}, ops'[p].begun = op.begun, op.begun # <<>>,
               ops'[p].kind = op.kind
        PROVE  FALSE
    <3>1. ops[p].begun = op.begun /\ ops[p].kind = ops[o].kind
        BY <1>2, <2>1
    <3>2. CASE op.begun = ops[o].begun
        BY <1>1, <2>1, <3>1, <3>2 DEF Core, Once
    <3>3. CASE op.begun = Pass
        BY <1>1, <2>1, <3>1, <3>3, BegunHere DEF Handles
    <3> QED BY <3>2, <3>3
  <2>2. SUFFICES ASSUME NEW p \in DOMAIN ops, NEW q \in DOMAIN ops, ops'[p].begun # <<>>,
                        ops'[p].begun = ops'[q].begun, ops'[p].kind = ops'[q].kind
                 PROVE  p = q
      BY <1>3 DEF Once
  <2>3. CASE p = o
      BY <1>2, <2>1, <2>2, <2>3
  <2>4. CASE q = o
      BY <1>2, <2>1, <2>2, <2>4
  <2>5. CASE p # o /\ q # o
      BY <1>2, <2>2, <2>5 DEF Core, Once
  <2> QED BY <2>3, <2>4, <2>5
<1> QED BY <1>2, <1>5, <1>7, <1>8, <1>9, <1>10, <1>11, <1>12, <1>13, <1>14 DEF Core

\* What a step of a script makes of the operation at hand.
LEMMA Rewritten ==
    ASSUME NEW op \in OpSet, NEW status \in {"applying", "applied", "conflict"}
    PROVE  /\ [op EXCEPT !.status = status] \in OpSet
           /\ \A w \in SUBSET Results :
                 [op EXCEPT !.saved = TRUE, !.written = w] \in OpSet
           /\ [op EXCEPT !.saved = TRUE] \in OpSet
           /\ \A b \in Scopes \X Scopes :
                 [op EXCEPT !.status = status, !.begun = b] \in OpSet
BY DEF OpSet

LEMMA PassIsPair ==
    ASSUME Typed, Core
    PROVE  Pass \in Scopes \X Scopes
<1>1. /\ handler.scope \in Scopes /\ Mine \in RowSet /\ Mine.id \in Nat
      /\ Mine.id <= runs /\ runs \in Scopes
    BY DEF Typed, CycleTypes, HandlerSet, Mine, RowSet, Core, RowsCount, QueueTypes
<1>2. Mine.id \in Scopes
    BY <1>1, RecoveryAssumption DEF Scopes
<1> QED BY <1>1, <1>2 DEF Pass

LEMMA Rewrite ==
    ASSUME OpsShape, NEW o \in DOMAIN ops
    PROVE  ops = [ops EXCEPT ![o] = ops[o]]
<1>1. \A q \in Seq(OpSet) : q \in [1 .. Len(q) -> OpSet]
    BY LenProperties
<1>2. ops \in [1 .. Len(ops) -> OpSet]
    BY <1>1 DEF OpsShape
<1> QED BY <1>2

LEMMA BeginsKeep ==
    ASSUME Typed, Core, NamesBegin \/ TypesBegin
    PROVE  CycleTypes' /\ OpsShape' /\ Core'
<1> DEFINE o == handler.op
           op == [ops[o] EXCEPT !.status = "applying", !.begun = Pass]
<1>1. UNCHANGED <<cycle, runs, writer, revision>> /\ Begin(o)
    BY DEF NamesBegin, TypesBegin, queue, results
<1>2. ASSUME NEW kind \in {"names", "types"}, handler.at \in ScriptAt(kind)
      PROVE  /\ ops[o] \in OpSet /\ op \in OpSet /\ ops' = [ops EXCEPT ![o] = op]
             /\ op.kind = ops[o].kind /\ op.items = ops[o].items /\ op.status = "applying"
             /\ op.begun = Pass /\ op.written = ops[o].written /\ op.saved = ops[o].saved
             /\ op.written # {} => op.saved
  <2>1. ops[o] \in OpSet /\ o \in DOMAIN ops
      BY <1>2, HandlesWhatItNames
  <2>2. op \in OpSet
      BY <2>1, PassIsPair, Rewritten
  <2>3. /\ op.kind = ops[o].kind /\ op.items = ops[o].items /\ op.status = "applying"
        /\ op.begun = Pass /\ op.written = ops[o].written /\ op.saved = ops[o].saved
      BY <2>1 DEF OpSet
  <2>4. ops' = [ops EXCEPT ![o] = op]
      BY <1>1, <2>1 DEF Begin
  <2>5. ops[o].written # {} => ops[o].saved
      BY <2>1 DEF Core, OpsStand
  <2> HIDE DEF op
  <2> QED BY <2>1, <2>2, <2>3, <2>4, <2>5
<1>3. CASE NamesBegin
  <2>1. /\ handler' = [handler EXCEPT !.at = "save names"] /\ ops[o].items # {}
        /\ \A i \in ops[o].items : revision[i.result] = i.revision
      BY <1>3 DEF NamesBegin, AsPreviewed
  <2>2. handler.at \in ScriptAt("names") /\ "save names" \in ScriptAt("names")
      BY <1>3 DEF NamesBegin, At, ScriptAt
  <2>3. /\ op \in OpSet /\ ops' = [ops EXCEPT ![o] = op]
        /\ op.kind = ops[o].kind /\ op.items = ops[o].items /\ op.status = "applying"
        /\ op.begun = Pass
      BY <1>2, <2>2
  <2>4. "save names" \in SavesAt
      BY DEF SavesAt
  <2>5. op.written # {} => op.saved
      BY <1>2, <2>2
  <2> HIDE DEF op
  <2> QED BY <1>1, <2>1, <2>2, <2>3, <2>4, <2>5, ScriptKeeps
<1>4. CASE TypesBegin
  <2>1. handler' = [handler EXCEPT !.at = "save types"]
      BY <1>4 DEF TypesBegin
  <2>2. handler.at \in ScriptAt("types") /\ "save types" \in ScriptAt("types")
      BY <1>4 DEF TypesBegin, At, ScriptAt
  <2>3. /\ op \in OpSet /\ ops' = [ops EXCEPT ![o] = op]
        /\ op.kind = ops[o].kind /\ op.items = ops[o].items /\ op.status = "applying"
        /\ op.begun = Pass
      BY <1>2, <2>2
  <2>4. "save types" \in SavesAt
      BY DEF SavesAt
  <2>5. op.written # {} => op.saved
      BY <1>2, <2>2
  <2> HIDE DEF op
  <2> QED BY <1>1, <2>1, <2>2, <2>3, <2>4, <2>5, ScriptKeeps
<1> QED BY <1>3, <1>4

LEMMA SavesKeep ==
    ASSUME Typed, Core, NamesSave \/ TypesSave
    PROVE  CycleTypes' /\ OpsShape' /\ Core'
<1> DEFINE o == handler.op
<1>1. UNCHANGED <<cycle, runs, writer, revision>> /\ handler.at \in SavesAt
    BY DEF NamesSave, TypesSave, queue, results, At, SavesAt
<1>2. ops[o].status = "applying"
    BY <1>1 DEF Core, OpsStand
<1>3. CASE NamesSave
  <2>1. handler' = [handler EXCEPT !.at = "record names"]
      BY <1>3 DEF NamesSave
  <2>2. handler.at \in ScriptAt("names") /\ "record names" \in ScriptAt("names")
      BY <1>3 DEF NamesSave, At, ScriptAt
  <2>3. ops[o] \in OpSet /\ o \in DOMAIN ops /\ Handles("names")
      BY <2>2, HandlesWhatItNames
  <2>4. PICK op \in OpSet : /\ ops' = [ops EXCEPT ![o] = op] /\ op.kind = ops[o].kind
                            /\ op.items = ops[o].items /\ op.status = ops[o].status
                            /\ op.begun = ops[o].begun
                            /\ op.written # {} => op.saved
    <3>1. CASE ops[o].saved
      <4>1. ops' = ops /\ ops = [ops EXCEPT ![o] = ops[o]]
          BY <1>3, <2>3, <3>1, Rewrite DEF NamesSave, Typed
      <4> QED BY <2>3, <3>1, <4>1
    <3>2. CASE ~ops[o].saved
      <4>1. PICK w \in SUBSET {i.result : i \in ops[o].items} :
                ops' = [ops EXCEPT ![o].saved = TRUE, ![o].written = w]
          BY <1>3, <3>2 DEF NamesSave, SavesNames
      <4> DEFINE op == [ops[o] EXCEPT !.saved = TRUE, !.written = w]
      <4>2. w \in SUBSET Results
          BY <2>3 DEF OpSet
      <4>3. op \in OpSet
          BY <2>3, <4>2, Rewritten
      <4>4. /\ op.kind = ops[o].kind /\ op.items = ops[o].items /\ op.status = ops[o].status
            /\ op.begun = ops[o].begun /\ op.saved
          BY <2>3 DEF OpSet
      <4>5. ops' = [ops EXCEPT ![o] = op]
          BY <2>3, <4>1, Shape DEF Typed, OpsShape
      <4> HIDE DEF op
      <4> QED BY <4>3, <4>4, <4>5
    <3> QED BY <3>1, <3>2
  <2>5. op.items # {} /\ op.status = "applying" /\ "record names" \in SavesAt
      BY <1>2, <2>3, <2>4 DEF Core, OpsStand, Handles, SavesAt
  <2> QED BY <1>1, <2>1, <2>2, <2>4, <2>5, ScriptKeeps
<1>4. CASE TypesSave
  <2>1. handler' = [handler EXCEPT !.at = "export types"]
      BY <1>4 DEF TypesSave
  <2>2. handler.at \in ScriptAt("types") /\ "export types" \in ScriptAt("types")
      BY <1>4 DEF TypesSave, At, ScriptAt
  <2>3. ops[o] \in OpSet /\ o \in DOMAIN ops
      BY <2>2, HandlesWhatItNames
  <2>4. PICK op \in OpSet : /\ ops' = [ops EXCEPT ![o] = op] /\ op.kind = ops[o].kind
                            /\ op.items = ops[o].items /\ op.status = ops[o].status
                            /\ op.begun = ops[o].begun /\ op.saved
    <3>1. CASE ops[o].saved
      <4>1. ops' = ops /\ ops = [ops EXCEPT ![o] = ops[o]]
          BY <1>4, <2>3, <3>1, Rewrite DEF TypesSave, Typed
      <4> QED BY <2>3, <3>1, <4>1
    <3>2. CASE ~ops[o].saved
      <4>1. ops' = [ops EXCEPT ![o].saved = TRUE]
          BY <1>4, <3>2 DEF TypesSave, SavesTypes
      <4> DEFINE op == [ops[o] EXCEPT !.saved = TRUE]
      <4>3. op \in OpSet
          BY <2>3, Rewritten
      <4>4. /\ op.kind = ops[o].kind /\ op.items = ops[o].items /\ op.status = ops[o].status
            /\ op.begun = ops[o].begun /\ op.saved
          BY <2>3 DEF OpSet
      <4>5. ops' = [ops EXCEPT ![o] = op]
          BY <2>3, <4>1, Shape DEF Typed, OpsShape
      <4> HIDE DEF op
      <4> QED BY <4>3, <4>4, <4>5
    <3> QED BY <3>1, <3>2
  <2>5. op.status = "applying" /\ "export types" \in SavesAt
      BY <1>2, <2>4 DEF SavesAt
  <2> QED BY <1>1, <2>1, <2>2, <2>4, <2>5, ScriptKeeps
<1> QED BY <1>3, <1>4

\* What Ghidra saves late is what the script of the operation would have saved.
LEMMA LateSaveIs ==
    ASSUME Typed, NEW o \in DOMAIN ops, LateSave(o)
    PROVE  /\ UNCHANGED <<cycle, runs, writer, handler, results, audit, queue, counts, text, news>>
           /\ ops[o].status \in {"applying", "uncertain"} /\ ~ops[o].saved
           /\ ops[o].kind \in {"names", "types"}
           /\ \E op \in OpSet :
                 /\ ops' = [ops EXCEPT ![o] = op]
                 /\ op.kind = ops[o].kind /\ op.items = ops[o].items
                 /\ op.status = ops[o].status /\ op.begun = ops[o].begun /\ op.saved
                 /\ ops[o].kind = "names" =>
                       /\ op.written \subseteq ItemsOf(o)
                       /\ unexported' = unexported \cup FunctionsOf(op.written)
                 /\ ops[o].kind = "types" =>
                       /\ op.written = ops[o].written
                       /\ unexported' = unexported \cup FunctionsOf(ItemsOf(o))
<1>1. /\ UNCHANGED <<cycle, runs, writer, handler, results, audit, queue, counts, text, news>>
      /\ ops[o].status \in {"applying", "uncertain"} /\ ~ops[o].saved
      /\ ops[o].kind \in {"names", "types"}
    BY DEF LateSave, Unresolved, queue
<1>2. ops[o] \in OpSet
    BY Shape DEF Typed
<1>3. CASE ops[o].kind = "names"
  <2>1. PICK w \in SUBSET {i.result : i \in ops[o].items} :
            /\ ops' = [ops EXCEPT ![o].saved = TRUE, ![o].written = w]
            /\ unexported' = unexported \cup FunctionsOf(w)
      BY <1>3 DEF LateSave, SavesNames
  <2> DEFINE op == [ops[o] EXCEPT !.saved = TRUE, !.written = w]
  <2>2. w \in SUBSET Results
      BY <1>2 DEF OpSet
  <2>3. op \in OpSet
      BY <1>2, <2>2, Rewritten
  <2>4. /\ op.kind = ops[o].kind /\ op.items = ops[o].items /\ op.status = ops[o].status
        /\ op.begun = ops[o].begun /\ op.saved /\ op.written = w
      BY <1>2 DEF OpSet
  <2>5. ops' = [ops EXCEPT ![o] = op]
      BY <1>2, <2>1, Shape DEF Typed, OpsShape
  <2> HIDE DEF op
  <2> QED BY <1>1, <1>3, <2>1, <2>3, <2>4, <2>5 DEF ItemsOf
<1>4. CASE ops[o].kind = "types"
  <2>1. /\ ops' = [ops EXCEPT ![o].saved = TRUE]
        /\ unexported' = unexported \cup FunctionsOf({i.result : i \in ops[o].items})
      BY <1>4 DEF LateSave, SavesTypes
  <2> DEFINE op == [ops[o] EXCEPT !.saved = TRUE]
  <2>3. op \in OpSet
      BY <1>2, Rewritten
  <2>4. /\ op.kind = ops[o].kind /\ op.items = ops[o].items /\ op.status = ops[o].status
        /\ op.begun = ops[o].begun /\ op.saved /\ op.written = ops[o].written
      BY <1>2 DEF OpSet
  <2>5. ops' = [ops EXCEPT ![o] = op]
      BY <1>2, <2>1, Shape DEF Typed, OpsShape
  <2> HIDE DEF op
  <2> QED BY <1>1, <1>4, <2>1, <2>3, <2>4, <2>5 DEF ItemsOf
<1> QED BY <1>1, <1>3, <1>4

\* All but what is saved stays as it is.
LEMMA LateSaveLeaves ==
    ASSUME Typed, NEW o \in DOMAIN ops, LateSave(o)
    PROVE  /\ OpsShape' /\ Len(ops)' = Len(ops) /\ DOMAIN ops' = DOMAIN ops /\ ops'[o].saved
           /\ \A p \in DOMAIN ops \ {o} : ops'[p] = ops[p]
           /\ \A p \in DOMAIN ops :
                 /\ ops'[p].kind = ops[p].kind /\ ops'[p].items = ops[p].items
                 /\ ops'[p].status = ops[p].status /\ ops'[p].begun = ops[p].begun
                 /\ ops[p].saved => ops'[p].saved
<1>1. PICK op \in OpSet :
            /\ ops' = [ops EXCEPT ![o] = op]
            /\ op.kind = ops[o].kind /\ op.items = ops[o].items
            /\ op.status = ops[o].status /\ op.begun = ops[o].begun /\ op.saved
    BY LateSaveIs
<1>2. /\ OpsShape' /\ Len(ops)' = Len(ops) /\ ops'[o] = op
      /\ \A p \in DOMAIN ops \ {o} : ops'[p] = ops[p]
    BY <1>1, Changes DEF Typed
<1>3. DOMAIN ops' = DOMAIN ops
    BY <1>2, Shape DEF Typed
<1> QED BY <1>1, <1>2, <1>3

LEMMA LateSavesKeep ==
    ASSUME Typed, Core, Ghidra
    PROVE  CycleTypes' /\ OpsShape' /\ Core'
<1>1. PICK o \in DOMAIN ops : LateSave(o)
    BY DEF Ghidra
<1>2. UNCHANGED <<cycle, runs, writer, handler, revision>>
    BY <1>1, LateSaveIs DEF results
<1>3. /\ OpsShape' /\ Len(ops)' = Len(ops) /\ DOMAIN ops' = DOMAIN ops /\ ops'[o].saved
      /\ \A p \in DOMAIN ops \ {o} : ops'[p] = ops[p]
      /\ \A p \in DOMAIN ops :
            /\ ops'[p].kind = ops[p].kind /\ ops'[p].items = ops[p].items
            /\ ops'[p].status = ops[p].status /\ ops'[p].begun = ops[p].begun
            /\ ops[p].saved => ops'[p].saved
    BY <1>1, LateSaveLeaves
<1>4. CycleTypes' /\ Mine' = Mine
    BY <1>2 DEF Typed, CycleTypes, Mine
<1>5. HandlerHere' /\ RowsCount'
    BY <1>2, <1>4 DEF Core, HandlerHere, RowsCount, At
<1>6. RowsRefer'
    BY <1>2, <1>3, RowsReferAlike
<1>7. HandlerRefers'
  <2>1. handler.op \in Nat /\ Mine.types \in Nat /\ Mine.types <= Len(ops) /\ handler.op <= Len(ops)
      BY DEF Typed, CycleTypes, HandlerSet, Mine, RowSet, Core, RowsRefer, HandlerRefers
  <2>2. /\ handler.op # None => handler.op \in DOMAIN ops
        /\ Mine.types # None => Mine.types \in DOMAIN ops
      BY <2>1, Shape, IsNumbered DEF Typed, None
  <2>3. /\ handler.at \in {"keep names", "keep types"} =>
              /\ handler.op # None
              /\ ops'[handler.op].begun = ops[handler.op].begun
              /\ ops'[handler.op].status = ops[handler.op].status
              /\ ops'[handler.op].kind = ops[handler.op].kind
              /\ ItemsOf(handler.op)' = ItemsOf(handler.op)
        /\ Mine.types # None => ops'[Mine.types].status = ops[Mine.types].status
      BY <1>2, <1>3, <2>2 DEF Core, HandlerRefers, None, ItemsOf
  <2> QED BY <1>2, <1>3, <1>4, <2>3 DEF Core, HandlerRefers, At
<1>8. OpsStand'
  <2>1. handler.at \in SavesAt => handler.op \in DOMAIN ops
    <3>1. handler.at \in SavesAt =>
              handler.at \in ScriptAt("names") \/ handler.at \in ScriptAt("types")
        BY DEF SavesAt, ScriptAt
    <3> QED BY <3>1, HandlesWhatItNames
  <2>2. \A p \in DOMAIN ops :
            /\ ops[p].written # {} => ops[p].saved
            /\ p # o => ops'[p].written = ops[p].written
      BY <1>3 DEF Core, OpsStand
  <2>3. \A p \in DOMAIN ops : ops'[p].written # {} => ops'[p].saved
      BY <1>3, <2>2
  <2>4. \A p \in DOMAIN ops' :
            /\ ops'[p].status = "applying" => handler'.at \in SavesAt /\ p = handler'.op
            /\ ops'[p].status \in {"applying", "uncertain"} /\ ops'[p].kind = "names"
                 => ops'[p].items # {}
            /\ ops'[p].kind = "types" /\ ops'[p].status = "applied" => ops'[p].saved
      BY <1>2, <1>3 DEF Core, OpsStand
  <2>5. handler.at \in SavesAt => ops'[handler.op].status = "applying"
      BY <1>3, <2>1 DEF Core, OpsStand
  <2>6. /\ At("export types") => ops'[handler.op].saved
        /\ At("save names") => \A i \in ops'[handler.op].items : revision[i.result] = i.revision
    <3>1. "export types" \in SavesAt /\ "save names" \in SavesAt
        BY DEF SavesAt
    <3> QED BY <1>3, <2>1, <3>1 DEF Core, OpsStand, At
  <2> QED BY <1>2, <2>3, <2>4, <2>5, <2>6, <1>3 DEF OpsStand, At
<1>9. Settles'
    BY <1>2, <1>3 DEF Core, Settles, Unresolved
<1>10. Begun' /\ Once'
    BY <1>2, <1>3 DEF Core, Begun, BegunBy, Once
<1> QED BY <1>3, <1>4, <1>5, <1>6, <1>7, <1>8, <1>9, <1>10 DEF Core

LEMMA RecordsKeep ==
    ASSUME Typed, Core, NamesRecord \/ TypesExport
    PROVE  CycleTypes' /\ OpsShape' /\ Core'
<1> DEFINE o == handler.op
           Settled(status) == [ops[o] EXCEPT !.status = status]
<1>1. UNCHANGED <<cycle, runs, writer, revision>>
    BY DEF NamesRecord, TypesExport, queue, results
<1>2. ASSUME NEW kind \in {"names", "types"}, handler.at \in ScriptAt(kind),
             NEW status \in {"applied", "conflict"}, SetOp(o, status)
      PROVE  /\ Settled(status) \in OpSet /\ ops' = [ops EXCEPT ![o] = Settled(status)]
             /\ Settled(status).kind = ops[o].kind /\ Settled(status).items = ops[o].items
             /\ Settled(status).status = status /\ Settled(status).begun = ops[o].begun
             /\ Settled(status).saved = ops[o].saved
             /\ Settled(status).written # {} => Settled(status).saved
  <2>1. ops[o] \in OpSet /\ o \in DOMAIN ops
      BY <1>2, HandlesWhatItNames
  <2>2. Settled(status) \in OpSet
      BY <1>2, <2>1, Rewritten
  <2>3. /\ Settled(status).kind = ops[o].kind /\ Settled(status).items = ops[o].items
        /\ Settled(status).status = status /\ Settled(status).begun = ops[o].begun
        /\ Settled(status).saved = ops[o].saved /\ Settled(status).written = ops[o].written
      BY <2>1 DEF OpSet
  <2>4. ops' = [ops EXCEPT ![o] = Settled(status)]
      BY <1>2, <2>1 DEF SetOp
  <2>5. ops[o].written # {} => ops[o].saved
      BY <2>1 DEF Core, OpsStand
  <2> HIDE DEF Settled
  <2> QED BY <2>2, <2>3, <2>4, <2>5
<1>3. CASE NamesRecord
  <2>1. handler' = [handler EXCEPT !.at = "apply names"]
      BY <1>3 DEF NamesRecord
  <2>2. handler.at \in ScriptAt("names") /\ "apply names" \in ScriptAt("names")
      BY <1>3 DEF NamesRecord, At, ScriptAt
  <2>3. PICK status \in {"applied", "conflict"} : SetOp(o, status)
      BY <1>3 DEF NamesRecord
  <2>4. /\ Settled(status) \in OpSet /\ ops' = [ops EXCEPT ![o] = Settled(status)]
        /\ Settled(status).kind = ops[o].kind /\ Settled(status).items = ops[o].items
        /\ Settled(status).status = status /\ Settled(status).begun = ops[o].begun
        /\ Settled(status).written # {} => Settled(status).saved
      BY <1>2, <2>2, <2>3
  <2>5. "apply names" \notin SavesAt /\ status # "applying" /\ status # "uncertain"
      BY DEF SavesAt
  <2> HIDE DEF Settled
  <2> QED BY <1>1, <2>1, <2>2, <2>4, <2>5, ScriptKeeps
<1>4. CASE TypesExport
  <2>1. handler' = [handler EXCEPT !.at = "apply types"] /\ SetOp(o, "applied")
      BY <1>4 DEF TypesExport
  <2>2. handler.at \in ScriptAt("types") /\ "apply types" \in ScriptAt("types")
      BY <1>4 DEF TypesExport, At, ScriptAt
  <2>3. ops[o].saved
      BY <1>4 DEF TypesExport, Core, OpsStand
  <2>4. /\ Settled("applied") \in OpSet /\ ops' = [ops EXCEPT ![o] = Settled("applied")]
        /\ Settled("applied").kind = ops[o].kind /\ Settled("applied").items = ops[o].items
        /\ Settled("applied").status = "applied" /\ Settled("applied").begun = ops[o].begun
        /\ Settled("applied").saved
      BY <1>2, <2>1, <2>2, <2>3
  <2>5. "apply types" \notin SavesAt
      BY DEF SavesAt
  <2> HIDE DEF Settled
  <2> QED BY <1>1, <2>1, <2>2, <2>4, <2>5, ScriptKeeps
<1> QED BY <1>3, <1>4

-----------------------------------------------------------------------------
\* A preview makes an operation, which no cycle names yet.
LEMMA PreviewKeeps ==
    ASSUME Typed, Core, UNCHANGED <<runs, writer>>,
           handler.at \in {"names", "types", "types without locals", "isolate"},
           NEW kind \in {"names", "types"}, NEW op \in OpSet, Previewed(op),
           op.kind = kind, op.begun = <<>>, op.status \in {"preview", "unchanged"},
           op.written = {}, kind = "types" => op.status # "applied",
           NEW to, to = IF kind = "names" THEN "keep names" ELSE "keep types",
           handler' = [handler EXCEPT !.at = to, !.op = Len(ops) + 1],
           Mine.types = None, NEW proposals \in SUBSET Results,
           cycle' = [cycle EXCEPT ![handler.scope] = [Mine EXCEPT !.proposals = proposals]],
           kind = "names" => Mine.names = None /\ Mine.phase = "names",
           kind = "types" => /\ Mine.phase = "types" /\ proposals # {}
                             /\ proposals \subseteq {i.result : i \in op.items}
    PROVE  CycleTypes' /\ OpsShape' /\ Core'
<1> DEFINE row == [Mine EXCEPT !.proposals = proposals]
           n == Len(ops) + 1
<1>1. /\ OpsShape' /\ Len(ops)' = n /\ ops'[n] = op
      /\ \A o \in 1 .. Len(ops) : ops'[o] = ops[o]
    BY Appended DEF Typed
<1>2. /\ DOMAIN ops' = DOMAIN ops \cup {n} /\ DOMAIN ops = 1 .. Len(ops) /\ n \notin DOMAIN ops
      /\ Len(ops) \in Nat /\ n \in Nat /\ n # None /\ Len(ops) <= n
  <2>1. Len(ops) \in Nat /\ DOMAIN ops = 1 .. Len(ops)
      BY Shape DEF Typed
  <2>2. \A q \in Seq(OpSet) : DOMAIN q = 1 .. Len(q)
      BY LenProperties
  <2>3. DOMAIN ops' = 1 .. n
      BY <1>1, <2>2 DEF OpsShape
  <2>4. 1 .. n = (1 .. Len(ops)) \cup {n} /\ n \notin 1 .. Len(ops) /\ n \in Nat /\ n # 0
        /\ Len(ops) <= n
      BY <2>1, NextNumber
  <2> QED BY <2>1, <2>3, <2>4 DEF None
<1>3. /\ handler \in HandlerSet /\ handler.scope \in Scopes /\ Mine = cycle[handler.scope]
      /\ Mine \in RowSet /\ writer = TRUE /\ Mine.phase \in Live
    BY MineNow DEF Places, NamesAt, TypesAt, TriesAt
<1>4. /\ row \in RowSet /\ row.id = Mine.id /\ row.pass = Mine.pass /\ row.phase = Mine.phase
      /\ row.names = Mine.names /\ row.types = None /\ row.attempts = Mine.attempts
      /\ row.proposals = proposals
    BY <1>3 DEF RowSet
<1>5. /\ cycle'[handler.scope] = row /\ cycle' \in [Scopes -> RowSet]
      /\ \A s \in Scopes \ {handler.scope} : cycle'[s] = cycle[s]
    BY <1>3, <1>4 DEF Typed, CycleTypes
<1>6. /\ handler' \in HandlerSet /\ handler'.at = to /\ handler'.scope = handler.scope
      /\ handler'.op = n /\ to \in {"keep names", "keep types"}
    BY <1>2, <1>3 DEF HandlerSet, Places, NamesAt, TypesAt
<1> HIDE DEF row, n
<1>7. CycleTypes'
    BY <1>5, <1>6 DEF CycleTypes
<1>8. Mine' = row
    BY <1>5, <1>6 DEF Mine
<1>9. HandlerHere'
    BY <1>3, <1>4, <1>6, <1>8
       DEF HandlerHere, NamesAt, TypesAt, TriesAt, RefreshAt, SelectAt
<1>10. RowsCount'
  <2>1. \A s \in Scopes : /\ cycle'[s].phase = cycle[s].phase /\ cycle'[s].id = cycle[s].id
                          /\ cycle'[s].pass = cycle[s].pass /\ cycle'[s].attempts = cycle[s].attempts
      BY <1>3, <1>4, <1>5
  <2>2. ~At("selected")'
      BY <1>6 DEF At
  <2>3. runs' = runs
      OBVIOUS
  <2> QED BY <2>1, <2>2, <2>3 DEF Core, RowsCount
<1>11. \A s \in Scopes : /\ cycle'[s].names = cycle[s].names /\ cycle'[s].types = cycle[s].types
                         /\ cycle'[s].phase = cycle[s].phase /\ cycle'[s].id = cycle[s].id
                         /\ cycle[s].names \in Nat /\ cycle[s].names <= Len(ops)
                         /\ cycle[s].types \in Nat /\ cycle[s].types <= Len(ops)
  <2>1. \A s \in Scopes : /\ cycle[s].names \in Nat /\ cycle[s].types \in Nat
                          /\ cycle[s].names <= Len(ops) /\ cycle[s].types <= Len(ops)
      BY DEF Typed, CycleTypes, RowSet, Core, RowsRefer
  <2> QED BY <1>3, <1>4, <1>5, <2>1
<1>12. \A s \in Scopes : /\ cycle[s].names # n /\ cycle[s].types # n
                         /\ cycle[s].names <= n /\ cycle[s].types <= n
                         /\ (cycle[s].names # None => cycle[s].names \in DOMAIN ops)
                         /\ (cycle[s].types # None => cycle[s].types \in DOMAIN ops)
  <2>1. \A m \in Nat : m <= Len(ops) => m # n /\ m <= n
      BY <1>2, NextNumber DEF n
  <2>2. \A m \in Nat : m # None /\ m <= Len(ops) => m \in DOMAIN ops
      BY <1>2, IsNumbered DEF None
  <2> QED BY <1>11, <2>1, <2>2
<1>13. \A o \in DOMAIN ops : ops'[o] = ops[o] /\ o # n
    BY <1>1, <1>2
<1>14. HandlerRefers'
  <2>1. n <= Len(ops)' /\ n = Len(ops)' /\ n # 0
    <3>1. n <= n
        BY <1>2, NextNumber DEF n
    <3> QED BY <1>1, <1>2, <3>1 DEF None
  <2>2. \A s \in Scopes : cycle'[s].names # n /\ cycle'[s].types # n
      BY <1>11, <1>12
  <2>3. {i.result : i \in ops'[handler'.op].items} = {i.result : i \in op.items}
      BY <1>1, <1>6
  <2>4. to \notin TriesAt /\ to # "types decided"
      BY <1>6 DEF TriesAt
  <2> QED BY <1>1, <1>4, <1>6, <1>8, <2>1, <2>2, <2>3, <2>4 DEF HandlerRefers, At, ItemsOf
<1>15. RowsRefer'
  <2>1. \A s \in Scopes : /\ cycle'[s].names <= Len(ops)' /\ cycle'[s].types <= Len(ops)'
                          /\ cycle'[s].phase = "assessing" => cycle'[s].names = None
                          /\ cycle'[s].phase \in {"assessing", "names"} => cycle'[s].types = None
    <3>1. \A s \in Scopes : cycle'[s].names <= Len(ops)' /\ cycle'[s].types <= Len(ops)'
        BY <1>1, <1>11, <1>12
    <3>2. \A s \in Scopes : /\ cycle[s].phase = "assessing" => cycle[s].names = None
                            /\ cycle[s].phase \in {"assessing", "names"} => cycle[s].types = None
        BY DEF Core, RowsRefer
    <3> QED BY <1>11, <3>1, <3>2
  <2>2. \A s \in Scopes : cycle'[s].phase \in Live /\ cycle'[s].names # None =>
            ops'[cycle'[s].names].kind = "names"
    <3>1. \A s \in Scopes : cycle[s].phase \in Live /\ cycle[s].names # None =>
            ops[cycle[s].names].kind = "names"
        BY DEF Core, RowsRefer
    <3>2. \A s \in Scopes : cycle[s].names # None => ops'[cycle[s].names] = ops[cycle[s].names]
        BY <1>12, <1>13
    <3>3. \A s \in Scopes : cycle'[s].names = cycle[s].names /\ cycle'[s].phase = cycle[s].phase
        BY <1>11
    <3> QED BY <3>1, <3>2, <3>3
  <2>3. ASSUME NEW s \in Scopes, cycle'[s].phase \in Live, cycle'[s].types # None
        PROVE  /\ ops'[cycle'[s].types].kind = "types"
               /\ cycle'[s].proposals # {}
               /\ cycle'[s].phase = "types" =>
                     cycle'[s].proposals \subseteq {i.result : i \in ops'[cycle'[s].types].items}
    <3>1. s # handler.scope /\ cycle'[s] = cycle[s]
        BY <1>4, <1>5, <2>3
    <3>2. cycle'[s].types = cycle[s].types /\ ops'[cycle[s].types] = ops[cycle[s].types]
        BY <1>11, <1>12, <1>13, <2>3
    <3>3. /\ ops[cycle[s].types].kind = "types"
          /\ cycle[s].proposals # {}
          /\ cycle[s].phase = "types" =>
                     cycle[s].proposals \subseteq {i.result : i \in ops[cycle[s].types].items}
        BY <2>3, <3>1 DEF Core, RowsRefer, ItemsOf
    <3> QED BY <3>1, <3>2, <3>3
  <2>4. \A s, t \in Scopes : cycle'[s].phase \in Live /\ cycle'[t].phase \in Live /\ s # t =>
            /\ cycle'[s].names = cycle'[t].names => cycle'[s].names = None
            /\ cycle'[s].types = cycle'[t].types => cycle'[s].types = None
    <3>1. \A s, t \in Scopes : cycle[s].phase \in Live /\ cycle[t].phase \in Live /\ s # t =>
            /\ cycle[s].names = cycle[t].names => cycle[s].names = None
            /\ cycle[s].types = cycle[t].types => cycle[s].types = None
        BY DEF Core, RowsRefer
    <3>2. \A s \in Scopes : /\ cycle'[s].names = cycle[s].names /\ cycle'[s].types = cycle[s].types
                            /\ cycle'[s].phase = cycle[s].phase
        BY <1>11
    <3> QED BY <3>1, <3>2
  <2> QED BY <2>1, <2>2, <2>3, <2>4 DEF RowsRefer, ItemsOf
<1>16. OpsStand'
  <2>1. to \notin SavesAt /\ to # "export types" /\ to # "save names" /\ handler.at \notin SavesAt
      BY <1>6 DEF SavesAt
  <2>2. \A o \in DOMAIN ops : ops'[o].status # "applying"
      BY <1>13, <2>1 DEF Core, OpsStand
  <2>3. \A o \in DOMAIN ops :
            /\ ops'[o].status \in {"applying", "uncertain"} /\ ops'[o].kind = "names"
                   => ops'[o].items # {}
            /\ ops'[o].written # {} => ops'[o].saved
            /\ ops'[o].kind = "types" /\ ops'[o].status = "applied" => ops'[o].saved
      BY <1>13 DEF Core, OpsStand
  <2> QED BY <1>1, <1>2, <1>6, <2>1, <2>2, <2>3 DEF OpsStand, At
<1>17. Settles'
  <2>1. \A o \in Unresolved' : o \in Unresolved /\ ops'[o] = ops[o]
      BY <1>1, <1>2, <1>13 DEF Unresolved
  <2>2. SUFFICES ASSUME NEW o \in Unresolved'
                 PROVE  \E s \in Scopes :
        \/ ops'[o].kind = "names" /\ cycle'[s].names = o /\ cycle'[s].phase \in {"names", "failed"}
        \/ ops'[o].kind = "types" /\ cycle'[s].types = o /\ cycle'[s].phase \in {"types", "failed"}
      BY DEF Settles
  <2>3. PICK s \in Scopes :
        \/ ops[o].kind = "names" /\ cycle[s].names = o /\ cycle[s].phase \in {"names", "failed"}
        \/ ops[o].kind = "types" /\ cycle[s].types = o /\ cycle[s].phase \in {"types", "failed"}
      BY <2>1 DEF Core, Settles
  <2> QED BY <1>11, <2>1, <2>3
<1>18. Begun'
  <2>1. SUFFICES ASSUME NEW o \in DOMAIN ops', NEW s \in Scopes, NEW i \in Scopes,
                        ops'[o].begun = <<s, i>>
                 PROVE  BegunBy(o, s, i)'
      BY DEF Begun
  <2>2. o \in DOMAIN ops /\ ops'[o] = ops[o]
    <3>1. <<s, i>> # <<>>
        OBVIOUS
    <3>2. o # n
        BY <1>1, <2>1, <3>1
    <3> QED BY <1>2, <1>13, <3>2
  <2>3. BegunBy(o, s, i) /\ runs' = runs
      BY <2>1, <2>2 DEF Core, Begun
  <2>4. /\ cycle'[s].names = cycle[s].names /\ cycle'[s].types = cycle[s].types
        /\ cycle'[s].phase = cycle[s].phase /\ cycle'[s].id = cycle[s].id
      BY <1>11
  <2> QED BY <2>2, <2>3, <2>4 DEF BegunBy
<1>19. Once'
    BY <1>1, <1>2, <1>13 DEF Core, Once
<1> QED BY <1>1, <1>7, <1>9, <1>10, <1>14, <1>15, <1>16, <1>17, <1>18, <1>19 DEF Core

LEMMA OperationTypes ==
    ASSUME ResultTypes, NEW rs \in SUBSET Results, NEW kind \in {"names", "types"},
           NEW status \in {"preview", "unchanged"}
    PROVE  /\ Operation(kind, status, rs) \in OpSet
           /\ Operation(kind, status, rs).kind = kind /\ Operation(kind, status, rs).begun = <<>>
           /\ Operation(kind, status, rs).status = status
           /\ Operation(kind, status, rs).written = {}
           /\ rs \subseteq {i.result : i \in Operation(kind, status, rs).items}
<1>1. \A r \in rs : Item(r) \in [result : Results, revision : {0, 1}] /\ Item(r).result = r
    BY DEF ResultTypes, Item
<1> QED BY <1>1 DEF Operation, OpSet

LEMMA PreviewsKeep ==
    ASSUME Typed, Core, NamesPreview \/ TypesPreview \/ IsolateAccept
    PROVE  CycleTypes' /\ OpsShape' /\ Core'
<1>1. UNCHANGED <<runs, writer>>
    BY DEF NamesPreview, TypesPreview, IsolateAccept, queue
<1>2. ASSUME handler.at \in {"names", "types", "types without locals", "isolate"}
      PROVE  /\ handler \in HandlerSet /\ handler.scope \in Scopes /\ Mine \in RowSet
             /\ Mine = cycle[handler.scope] /\ Mine.proposals \in SUBSET Results
             /\ Mine = [Mine EXCEPT !.proposals = Mine.proposals]
             /\ cycle = [cycle EXCEPT ![handler.scope] = Mine]
  <2>1. /\ handler \in HandlerSet /\ handler.scope \in Scopes /\ Mine \in RowSet
        /\ Mine = cycle[handler.scope]
      BY <1>2, MineNow DEF Places, NamesAt, TypesAt, TriesAt
  <2>2. cycle = [cycle EXCEPT ![handler.scope] = Mine]
      BY <2>1 DEF Typed, CycleTypes
  <2>3. Mine.proposals \in SUBSET Results /\ Mine = [Mine EXCEPT !.proposals = Mine.proposals]
      BY <2>1 DEF RowSet
  <2> QED BY <2>1, <2>2, <2>3
<1>3. CASE NamesPreview
  <2> DEFINE rs == {Cur(f) : f \in {g \in accepted : Cur(g) \notin stale /\ text[g] # current[g]}}
             op == Operation("names", "preview", rs)
  <2>1. /\ handler.at = "names" /\ Mine.names = None /\ Previewed(op) /\ cycle' = cycle
        /\ handler' = [handler EXCEPT !.at = "keep names", !.op = Len(ops) + 1]
      BY <1>3 DEF NamesPreview, At
  <2>2. Mine.phase = "names" /\ Mine.types = None
      BY <2>1, MineNow DEF Core, HandlerHere, NamesAt, Places
  <2>3. rs \in SUBSET Results
      BY CurIsResult DEF Typed, ResultTypes
  <2>4. op \in OpSet /\ op.kind = "names" /\ op.begun = <<>> /\ op.status = "preview" /\ op.written = {}
      BY <2>3, OperationTypes DEF Typed
  <2>5. cycle' = [cycle EXCEPT ![handler.scope] = [Mine EXCEPT !.proposals = Mine.proposals]]
        /\ Mine.proposals \in SUBSET Results
      BY <1>2, <2>1
  <2> HIDE DEF op
  <2> QED BY <1>1, <2>1, <2>2, <2>4, <2>5, PreviewKeeps
<1>4. CASE TypesPreview
  <2>1. /\ handler.at \in {"types", "types without locals"} /\ Mine.types = None /\ cycle' = cycle
        /\ handler.proposals # {}
        /\ handler' = [handler EXCEPT !.at = "keep types", !.op = Len(ops) + 1]
      BY <1>4 DEF TypesPreview, Previewing, At
  <2>2. Mine.phase = "types" /\ handler.proposals = Mine.proposals
      BY <2>1 DEF Core, HandlerHere, HandlerRefers, TypesAt, TriesAt, Places
  <2>3. PICK status \in {"preview", "unchanged"} :
            Previewed(Operation("types", status, Mine.proposals))
      BY <1>4, <2>2 DEF TypesPreview
  <2> DEFINE op == Operation("types", status, Mine.proposals)
  <2>4. op \in OpSet /\ op.kind = "types" /\ op.begun = <<>> /\ op.status = status /\ op.written = {}
        /\ Mine.proposals \subseteq {i.result : i \in op.items}
      BY <1>2, <2>1, OperationTypes DEF Typed
  <2>5. cycle' = [cycle EXCEPT ![handler.scope] = [Mine EXCEPT !.proposals = Mine.proposals]]
        /\ Mine.proposals \in SUBSET Results
      BY <1>2, <2>1
  <2>6. Previewed(op) /\ op.status # "applied"
      BY <2>3, <2>4
  <2> HIDE DEF op
  <2> QED BY <1>1, <2>1, <2>2, <2>4, <2>5, <2>6, PreviewKeeps
<1>5. CASE IsolateAccept
  <2>1. /\ handler.at = "isolate"
        /\ cycle' = [cycle EXCEPT ![handler.scope] = [Mine EXCEPT !.proposals = handler.proposals]]
      BY <1>5 DEF IsolateAccept, At, SetMine
  <2>2. /\ Mine.phase = "types" /\ Mine.types = None /\ handler.proposals \subseteq Mine.proposals
        /\ handler.proposals \in SUBSET Results
      BY <1>2, <2>1 DEF Core, HandlerHere, HandlerRefers, TypesAt, TriesAt, HandlerSet
  <2>3. CASE handler.proposals # {}
    <3> DEFINE op == Operation("types", "preview", handler.proposals)
    <3>1. /\ Previewed(op)
          /\ handler' = [handler EXCEPT !.at = "keep types", !.op = Len(ops) + 1]
        BY <1>5, <2>3 DEF IsolateAccept
    <3>2. op \in OpSet /\ op.kind = "types" /\ op.begun = <<>> /\ op.status = "preview" /\ op.written = {}
          /\ handler.proposals \subseteq {i.result : i \in op.items}
        BY <2>2, OperationTypes DEF Typed
    <3> HIDE DEF op
    <3> QED BY <1>1, <2>1, <2>2, <2>3, <3>1, <3>2, PreviewKeeps
  <2>4. CASE handler.proposals = {}
    <3> DEFINE row == [Mine EXCEPT !.proposals = handler.proposals]
    <3>1. /\ UNCHANGED ops /\ handler' = [handler EXCEPT !.at = "types decided", !.op = handler.op]
        BY <1>5, <2>4 DEF IsolateAccept
    <3>2. /\ handler \in HandlerSet /\ handler.scope \in Scopes /\ Mine = cycle[handler.scope]
          /\ Mine \in RowSet /\ Mine.attempts < MaxAttempts /\ Mine.attempts < MaxAttempts + 1
          /\ writer = TRUE
        BY <2>1, MineNow DEF Places, TypesAt, TriesAt
    <3>3. /\ row \in RowSet /\ row.id = Mine.id /\ row.pass = Mine.pass /\ row.phase = "types"
          /\ row.names = Mine.names /\ row.types = None /\ row.attempts = Mine.attempts
        BY <2>2, <3>2 DEF RowSet
    <3>4. cycle'[handler.scope] = row
        BY <2>1, <3>2 DEF Typed, CycleTypes
    <3>5. handler' \in HandlerSet /\ handler'.at = "types decided" /\ handler'.scope = handler.scope
          /\ handler'.op = handler.op
        BY <3>1, <3>2 DEF HandlerSet, Places, TypesAt
    <3>6. cycle' = [cycle EXCEPT ![handler.scope] = row]
        BY <2>1
    <3> HIDE DEF row
    <3>7. HandlerHere'
        BY <1>1, <3>2, <3>3, <3>4, <3>5
           DEF HandlerHere, Mine, NamesAt, TypesAt, TriesAt, RefreshAt, SelectAt
    <3>8. HandlerRefers'
      <4>1. handler'.op <= Len(ops)'
          BY <3>1, <3>5 DEF Core, HandlerRefers
      <4> QED BY <4>1, <3>1, <3>3, <3>4, <3>5 DEF HandlerRefers, Mine, TriesAt, At
    <3>9. handler.at \notin SavesAt /\ handler'.at \notin SavesAt /\ ~At("selected")'
        BY <2>1, <3>5 DEF SavesAt, At
    <3>10. row.phase # "absent" /\ row.phase # "assessing" /\ row.phase # "names" /\ Mine.phase \in Live
        BY <2>2, <3>3 DEF Live
    <3> QED BY <1>1, <2>1, <2>2, <3>1, <3>2, <3>3, <3>5, <3>6, <3>7, <3>8, <3>9, <3>10, RowKeeps
  <2> QED BY <2>3, <2>4
<1> QED BY <1>3, <1>4, <1>5

-----------------------------------------------------------------------------
LEMMA RowsFit ==
    ASSUME NEW id \in Nat, NEW pass \in Nat, NEW phase \in {"assessing", "absent"}
    PROVE  /\ Row(id, phase, pass) \in RowSet /\ Row(id, phase, pass).phase = phase
           /\ Row(id, phase, pass).id = id /\ Row(id, phase, pass).pass = pass
           /\ Row(id, phase, pass).names = None /\ Row(id, phase, pass).types = None
           /\ Row(id, phase, pass).attempts = 0 /\ Row(id, phase, pass).proposals = {}
BY DEF Row, RowSet, Live, None, TrialStates

LEMMA LimitsAllow ==
    /\ 0 \in Nat /\ 0 \in Scopes /\ 0 < MaxAttempts /\ 0 < MaxAttempts + 1 /\ 0 < MaxPasses
    /\ \A n : n = 0 => n < MaxAttempts /\ n < MaxAttempts + 1 /\ n < MaxPasses
BY RecoveryAssumption DEF Scopes

\* The phase that a handler starts is the one of the cycle it found.
LEMMA EntersFit ==
    ASSUME Typed, Core, OpsShape', writer' = TRUE, NEW row \in RowSet, cycle'[active] = row,
           row.phase # "absent",
           handler' = [Idle EXCEPT !.at = IF row.phase \in Ended THEN "done" ELSE row.phase,
                                   !.scope = active,
                                   !.proposals = row.proposals,
                                   !.todo = IF row.phase \in {"refreshing", "reanalysis"}
                                                THEN Open ELSE {}]
    PROVE  /\ handler' \in HandlerSet /\ HandlerHere' /\ HandlerRefers'
           /\ handler'.at \notin SavesAt /\ ~At("selected")'
<1>1. active \in Scopes /\ None \in Nat
    BY RecoveryAssumption DEF Typed, QueueTypes, Scopes, None
<1>2. Idle \in HandlerSet /\ Idle.op = None /\ Idle.changed = FALSE
    BY LimitsAllow DEF Idle, HandlerSet, Places, None, All
<1>3. row.phase \in (Live \cup Ended) /\ row.proposals \in SUBSET Results
    BY DEF RowSet
<1>4. Open \subseteq Functions
    BY DEF Open, Answered
<1> DEFINE at == IF row.phase \in Ended THEN "done" ELSE row.phase
           todo == IF row.phase \in {"refreshing", "reanalysis"} THEN Open ELSE {}
<1>5. at \in Live \cup {"done"} /\ at \in Places /\ at \notin SavesAt /\ at # "selected"
      /\ at # "idle" /\ (at \in Live => at = row.phase)
    BY <1>3 DEF Live, Ended, Places, SavesAt, NamesAt, TypesAt, TriesAt, RefreshAt, SelectAt
<1>6. todo \subseteq Functions
    BY <1>4
<1>7. handler' = [Idle EXCEPT !.at = at, !.scope = active, !.proposals = row.proposals, !.todo = todo]
    OBVIOUS
<1> HIDE DEF at, todo
<1>8. /\ handler' \in HandlerSet /\ handler'.at = at /\ handler'.scope = active
      /\ handler'.op = None /\ handler'.proposals = row.proposals
    BY <1>1, <1>2, <1>3, <1>5, <1>6, <1>7 DEF HandlerSet
<1>9. Mine' = row
    BY <1>8 DEF Mine
<1>10. HandlerHere'
    BY <1>5, <1>8, <1>9 DEF HandlerHere, Live, NamesAt, TypesAt, TriesAt, RefreshAt, SelectAt
<1>11. handler'.op <= Len(ops)'
  <2>1. \A q \in Seq(OpSet) : None <= Len(q)
      BY LenProperties DEF None
  <2> QED BY <1>8, <2>1 DEF OpsShape
<1>12. HandlerRefers'
    BY <1>5, <1>8, <1>9, <1>11 DEF HandlerRefers, Live, TriesAt, At
<1> QED BY <1>5, <1>8, <1>10, <1>12 DEF At

LEMMA EnterKeeps ==
    ASSUME Typed, Core, Enter
    PROVE  CycleTypes' /\ OpsShape' /\ Core'
<1> DEFINE row == IF cycle[active].phase # "absent" THEN cycle[active] ELSE Row(runs, "assessing", 0)
<1>1. /\ UNCHANGED <<ops, runs, writer>> /\ handler.at = "claimed"
      /\ cycle' = [cycle EXCEPT ![active] = row]
      /\ handler' = [Idle EXCEPT !.at = IF row.phase \in Ended THEN "done" ELSE row.phase,
                                   !.scope = active,
                                   !.proposals = row.proposals,
                                   !.todo = IF row.phase \in {"refreshing", "reanalysis"}
                                                THEN Open ELSE {}]
    BY DEF Enter, queue
<1>2. /\ active \in Scopes /\ active \in Nat /\ runs \in Nat /\ runs \in Scopes /\ active <= runs
      /\ cycle \in [Scopes -> RowSet]
    BY ScopesAreNat, RecoveryAssumption DEF Typed, QueueTypes, CycleTypes, Scopes
<1>3. cycle[active].phase = "absent" =>
        /\ row \in RowSet /\ row.phase = "assessing" /\ row.id = runs /\ row.pass = 0
        /\ row.names = None /\ row.types = None /\ row.attempts = 0
    BY <1>2, LimitsAllow, RowsFit
<1>4. row \in RowSet /\ row.phase # "absent"
    BY <1>2, <1>3
<1>5. cycle' \in [Scopes -> RowSet] /\ cycle'[active] = row
      /\ \A s \in Scopes \ {active} : cycle'[s] = cycle[s]
    BY <1>1, <1>2, <1>4
<1>6. writer' = TRUE /\ OpsShape' /\ handler.at \notin SavesAt
    BY <1>1 DEF Core, HandlerHere, Typed, QueueTypes, OpsShape, SavesAt
<1> HIDE DEF row
<1>8. /\ handler' \in HandlerSet /\ HandlerHere' /\ HandlerRefers'
      /\ handler'.at \notin SavesAt /\ ~At("selected")'
    BY <1>1, <1>4, <1>5, <1>6, EntersFit
<1>9. CASE cycle[active].phase # "absent"
  <2>1. cycle' = cycle
      BY <1>1, <1>2, <1>9 DEF row
  <2> QED BY <1>1, <1>6, <1>8, <2>1, MoveKeeps
<1>10. CASE cycle[active].phase = "absent"
  <2>1. row.attempts < MaxAttempts /\ row.attempts < MaxAttempts + 1 /\ row.pass < MaxPasses
      BY <1>3, <1>10, LimitsAllow
  <2>2. RowsCount'
    <3>1. row.id <= runs
        BY <1>2, <1>3, <1>10, LessOrSame
    <3>2. ~(active > runs)
        BY <1>2
    <3> QED BY <1>1, <1>5, <1>8, <2>1, <3>1, <3>2 DEF Core, RowsCount
  <2>3. RowsRefer'
    <3>1. None <= Len(ops)
        BY LenIsCounted DEF Typed
    <3>2. /\ row.names = None /\ row.types = None
        BY <1>3, <1>10
    <3> QED BY <1>1, <1>5, <3>1, <3>2 DEF Core, RowsRefer, ItemsOf
  <2>4. OpsStand'
      BY <1>1, <1>6, <1>8 DEF Core, OpsStand, At, SavesAt
  <2>5. Settles'
    <3>1. \A s \in Scopes : cycle[s].phase \in {"names", "types", "failed"} => s # active
        BY <1>10
    <3>2. Unresolved' = Unresolved
        BY <1>1 DEF Unresolved
    <3> QED BY <1>1, <1>5, <3>1, <3>2 DEF Core, Settles
  <2>6. Begun'
    <3>1. SUFFICES ASSUME NEW o \in DOMAIN ops, NEW s \in Scopes, NEW i \in Scopes,
                          ops[o].begun = <<s, i>>
                   PROVE  BegunBy(o, s, i)'
        BY <1>1 DEF Begun
    <3>2. BegunBy(o, s, i)
        BY <3>1 DEF Core, Begun
    <3>3. CASE s # active
        BY <1>1, <1>5, <3>2, <3>3 DEF BegunBy
    <3>4. CASE s = active
      <4>1. i <= runs /\ i < runs
          BY <1>10, <3>2, <3>4 DEF BegunBy
      <4>2. i # runs
          BY <1>2, <4>1
      <4> QED BY <1>1, <1>3, <1>5, <1>10, <3>4, <4>1, <4>2 DEF BegunBy
    <3> QED BY <3>3, <3>4
  <2>7. Once'
      BY <1>1 DEF Core, Once
  <2>8. CycleTypes'
      BY <1>5, <1>8 DEF CycleTypes
  <2> QED BY <1>6, <1>8, <2>2, <2>3, <2>4, <2>5, <2>6, <2>7, <2>8 DEF Core
<1> QED BY <1>9, <1>10

-----------------------------------------------------------------------------
\* What is left of the operations when a phase is broken off: all that was begun, with its
\* outcome unknown.
LEMMA BrokenOps ==
    ASSUME Typed, Core, ops' = BrokenOff
    PROVE  /\ OpsShape' /\ DOMAIN ops' \subseteq DOMAIN ops
           /\ \A o \in DOMAIN ops' :
                 /\ ops'[o].kind = ops[o].kind /\ ops'[o].items = ops[o].items
                 /\ ops'[o].saved = ops[o].saved /\ ops'[o].written = ops[o].written
                 /\ ops'[o].begun = ops[o].begun /\ ops'[o].status # "applying"
                 /\ \/ ops'[o].status = ops[o].status
                    \/ ops'[o].status = "uncertain" /\ ops[o].status = "applying"
           /\ \A s \in Scopes : /\ cycle[s].names <= Len(ops)' /\ cycle[s].types <= Len(ops)'
                                /\ cycle[s].names # None => cycle[s].names \in DOMAIN ops'
                                /\ cycle[s].types # None => cycle[s].types \in DOMAIN ops'
<1>1. \A s \in Scopes : /\ cycle[s].names \in Nat /\ cycle[s].types \in Nat
                        /\ cycle[s].names <= Len(ops) /\ cycle[s].types <= Len(ops)
    BY DEF Core, RowsRefer, Typed, CycleTypes, RowSet
<1>2. Len(ops) \in Nat /\ DOMAIN ops = 1 .. Len(ops) /\ \A o \in DOMAIN ops : ops[o] \in OpSet
    BY Shape DEF Typed
<1>3. CASE handler.at \in {"keep names", "keep types"}
  <2>1. ops' = Front(ops) /\ Len(ops) # 0
      BY <1>3 DEF BrokenOff, At, Core, HandlerRefers
  <2>2. OpsShape' /\ Len(ops)' = Len(ops) - 1 /\ \A o \in 1 .. Len(ops) - 1 : ops'[o] = ops[o]
      BY <2>1, Fronted DEF Typed
  <2>3. \A q \in Seq(OpSet) : DOMAIN q = 1 .. Len(q)
      BY LenProperties
  <2>4. DOMAIN ops' = 1 .. Len(ops) - 1
      BY <2>2, <2>3 DEF OpsShape
  <2>5. DOMAIN ops' \subseteq DOMAIN ops
      BY <1>2, <2>4, FewerNumbers
  <2>6. \A o \in DOMAIN ops : ops[o].status # "applying"
      BY <1>3 DEF Core, OpsStand, SavesAt
  <2>7. \A s \in Scopes : cycle[s].names # Len(ops) /\ cycle[s].types # Len(ops)
      BY <1>3 DEF Core, HandlerRefers
  <2>8. \A n \in Nat : n <= Len(ops) /\ n # Len(ops) =>
            n <= Len(ops)' /\ (n # None => n \in DOMAIN ops')
    <3>1. \A n \in Nat : n <= Len(ops) /\ n # Len(ops) =>
            n <= Len(ops) - 1 /\ (n # 0 => n \in 1 .. Len(ops) - 1)
        BY <1>2, FewerNumbers
    <3> QED BY <2>2, <2>4, <3>1 DEF None
  <2>9. \A o \in DOMAIN ops' : ops'[o] = ops[o] /\ ops[o].status # "applying"
      BY <2>2, <2>4, <2>5, <2>6
  <2>10. \A s \in Scopes : /\ cycle[s].names <= Len(ops)' /\ cycle[s].types <= Len(ops)'
                           /\ cycle[s].names # None => cycle[s].names \in DOMAIN ops'
                           /\ cycle[s].types # None => cycle[s].types \in DOMAIN ops'
      BY <1>1, <2>7, <2>8
  <2> QED BY <2>2, <2>5, <2>9, <2>10
<1>4. CASE handler.at \notin {"keep names", "keep types"}
  <2> DEFINE T == [o \in DOMAIN ops |-> IF ops[o].status = "applying"
                        THEN [ops[o] EXCEPT !.status = "uncertain"] ELSE ops[o]]
  <2>1. ops' = T
      BY <1>4 DEF BrokenOff, At
  <2>2. \A o \in DOMAIN ops :
            /\ T[o] \in OpSet /\ T[o].kind = ops[o].kind /\ T[o].items = ops[o].items
            /\ T[o].saved = ops[o].saved /\ T[o].written = ops[o].written
            /\ T[o].begun = ops[o].begun /\ T[o].status # "applying"
            /\ \/ T[o].status = ops[o].status
               \/ T[o].status = "uncertain" /\ ops[o].status = "applying"
    <3>1. \A op \in OpSet :
            LET u == [op EXCEPT !.status = "uncertain"]
            IN  /\ u \in OpSet /\ u.kind = op.kind /\ u.items = op.items /\ u.saved = op.saved
                /\ u.written = op.written /\ u.begun = op.begun /\ u.status = "uncertain"
        BY DEF OpSet
    <3>2. SUFFICES ASSUME NEW o \in DOMAIN ops
                   PROVE  /\ T[o] \in OpSet /\ T[o].kind = ops[o].kind /\ T[o].items = ops[o].items
                          /\ T[o].saved = ops[o].saved /\ T[o].written = ops[o].written
                          /\ T[o].begun = ops[o].begun /\ T[o].status # "applying"
                          /\ \/ T[o].status = ops[o].status
                             \/ T[o].status = "uncertain" /\ ops[o].status = "applying"
        OBVIOUS
    <3>3. ops[o] \in OpSet
        BY <1>2
    <3>4. CASE ops[o].status = "applying"
      <4>1. T[o] = [ops[o] EXCEPT !.status = "uncertain"]
          BY <3>4
      <4> HIDE DEF T
      <4> QED BY <3>1, <3>3, <3>4, <4>1
    <3>5. CASE ops[o].status # "applying"
      <4>1. T[o] = ops[o]
          BY <3>5
      <4> HIDE DEF T
      <4> QED BY <3>3, <3>5, <4>1
    <3> QED BY <3>4, <3>5
  <2>3. T \in [DOMAIN ops -> OpSet] /\ DOMAIN T = DOMAIN ops
      BY <2>2
  <2> HIDE DEF T
  <2>4. OpsShape' /\ Len(ops)' = Len(ops)
      BY <2>1, <2>3, Mapped DEF Typed
  <2>5. \A n \in Nat : n <= Len(ops) => n <= Len(ops)' /\ (n # None => n \in DOMAIN ops)
      BY <1>2, <2>4, IsNumbered DEF None
  <2>6. \A s \in Scopes : /\ cycle[s].names <= Len(ops)' /\ cycle[s].types <= Len(ops)'
                          /\ cycle[s].names # None => cycle[s].names \in DOMAIN ops'
                          /\ cycle[s].types # None => cycle[s].types \in DOMAIN ops'
      BY <1>1, <2>1, <2>3, <2>5
  <2> QED BY <2>1, <2>2, <2>3, <2>4, <2>6
<1> QED BY <1>3, <1>4

LEMMA BrokenKeeps ==
    ASSUME Typed, Core, ops' = BrokenOff, runs' = runs,
           handler' \in {Over, Idle}, writer' <=> handler' # Idle,
           NEW row \in RowSet, cycle' = [cycle EXCEPT ![handler.scope] = row],
           row.id = Mine.id, row.pass = Mine.pass, row.names = Mine.names, row.types = Mine.types,
           row.proposals = Mine.proposals,
           row.phase = Mine.phase \/ (row.phase = "failed" /\ Mine.phase \in Live),
           row.attempts < MaxAttempts + 1, row.phase \in Live => row.attempts < MaxAttempts
    PROVE  CycleTypes' /\ OpsShape' /\ Core'
<1>1. /\ OpsShape' /\ DOMAIN ops' \subseteq DOMAIN ops
      /\ \A o \in DOMAIN ops' :
            /\ ops'[o].kind = ops[o].kind /\ ops'[o].items = ops[o].items
            /\ ops'[o].saved = ops[o].saved /\ ops'[o].written = ops[o].written
            /\ ops'[o].begun = ops[o].begun /\ ops'[o].status # "applying"
            /\ \/ ops'[o].status = ops[o].status
               \/ ops'[o].status = "uncertain" /\ ops[o].status = "applying"
      /\ \A s \in Scopes : /\ cycle[s].names <= Len(ops)' /\ cycle[s].types <= Len(ops)'
                           /\ cycle[s].names # None => cycle[s].names \in DOMAIN ops'
                           /\ cycle[s].types # None => cycle[s].types \in DOMAIN ops'
    BY BrokenOps
<1>2. /\ handler' \in HandlerSet /\ handler'.at \in {"idle", "done"}
      /\ HandlerHere' /\ HandlerRefers'
    BY <1>1, RestFits
<1>3. handler.scope \in Scopes /\ Mine = cycle[handler.scope] /\ cycle \in [Scopes -> RowSet]
    BY DEF Typed, CycleTypes, HandlerSet, Mine
<1>4. /\ cycle' \in [Scopes -> RowSet] /\ cycle'[handler.scope] = row
      /\ \A s \in Scopes \ {handler.scope} : cycle'[s] = cycle[s]
    BY <1>3
<1>5. \A s \in Scopes :
        /\ cycle'[s].id = cycle[s].id /\ cycle'[s].pass = cycle[s].pass
        /\ cycle'[s].names = cycle[s].names /\ cycle'[s].types = cycle[s].types
        /\ cycle'[s].proposals = cycle[s].proposals
        /\ \/ cycle'[s].phase = cycle[s].phase
           \/ cycle'[s].phase = "failed" /\ cycle[s].phase \in Live
    BY <1>3, <1>4
<1>6. CycleTypes'
    BY <1>2, <1>4 DEF CycleTypes
<1>7. RowsCount'
  <2>1. \A s \in Scopes : /\ cycle'[s].attempts < MaxAttempts + 1
                          /\ cycle'[s].phase \in Live => cycle'[s].attempts < MaxAttempts
      BY <1>4 DEF Core, RowsCount
  <2>2. \A s \in Scopes : /\ cycle'[s].pass < MaxPasses /\ cycle'[s].id <= runs
                          /\ s > runs => cycle'[s].phase = "absent"
    <3>1. \A s \in Scopes : /\ cycle[s].pass < MaxPasses /\ cycle[s].id <= runs
                            /\ s > runs => cycle[s].phase = "absent"
        BY DEF Core, RowsCount
    <3>2. "absent" \notin Live
        BY DEF Live
    <3> QED BY <1>5, <3>1, <3>2
  <2>3. ~At("selected")'
      BY <1>2 DEF At
  <2> QED BY <2>1, <2>2, <2>3 DEF RowsCount
<1>8. RowsRefer'
  <2>1. \A s \in Scopes : /\ cycle'[s].phase \in Live => cycle'[s].phase = cycle[s].phase
                          /\ cycle'[s].phase = "assessing" => cycle[s].phase = "assessing"
                          /\ cycle'[s].phase \in {"assessing", "names"} =>
                                cycle[s].phase \in {"assessing", "names"}
      BY <1>5 DEF Live
  <2>2. \A s \in Scopes : /\ cycle[s].names # None => ops'[cycle[s].names].kind = ops[cycle[s].names].kind
                          /\ cycle[s].types # None =>
                                /\ ops'[cycle[s].types].kind = ops[cycle[s].types].kind
                                /\ ops'[cycle[s].types].items = ops[cycle[s].types].items
      BY <1>1
  <2>3. ASSUME NEW s \in Scopes
        PROVE  /\ cycle'[s].names <= Len(ops)' /\ cycle'[s].types <= Len(ops)'
               /\ cycle'[s].phase = "assessing" => cycle'[s].names = None
               /\ cycle'[s].phase \in {"assessing", "names"} => cycle'[s].types = None
               /\ cycle'[s].phase \in Live /\ cycle'[s].names # None =>
                     ops'[cycle'[s].names].kind = "names"
    <3>1. cycle'[s].names <= Len(ops)' /\ cycle'[s].types <= Len(ops)'
        BY <1>1, <1>5
    <3>2. /\ cycle[s].phase = "assessing" => cycle[s].names = None
          /\ cycle[s].phase \in {"assessing", "names"} => cycle[s].types = None
          /\ cycle[s].phase \in Live /\ cycle[s].names # None => ops[cycle[s].names].kind = "names"
        BY DEF Core, RowsRefer
    <3>3. cycle'[s].names = cycle[s].names /\ cycle'[s].types = cycle[s].types
        BY <1>5
    <3> QED BY <2>1, <2>2, <3>1, <3>2, <3>3
  <2>4. ASSUME NEW s \in Scopes, cycle'[s].phase \in Live, cycle'[s].types # None
        PROVE  /\ ops'[cycle'[s].types].kind = "types"
               /\ cycle'[s].proposals # {}
               /\ cycle'[s].phase = "types" =>
                     cycle'[s].proposals \subseteq {i.result : i \in ops'[cycle'[s].types].items}
    <3>1. /\ ops[cycle[s].types].kind = "types"
          /\ cycle[s].proposals # {}
          /\ cycle[s].phase = "types" =>
                     cycle[s].proposals \subseteq {i.result : i \in ops[cycle[s].types].items}
        BY <1>5, <2>1, <2>4 DEF Core, RowsRefer, ItemsOf
    <3>2. /\ ops'[cycle'[s].types].kind = ops[cycle[s].types].kind
          /\ ops'[cycle'[s].types].items = ops[cycle[s].types].items
        BY <1>5, <2>2, <2>4
    <3> QED BY <1>5, <2>1, <2>4, <3>1, <3>2
  <2>5. \A s, t \in Scopes : cycle'[s].phase \in Live /\ cycle'[t].phase \in Live /\ s # t =>
            /\ cycle'[s].names = cycle'[t].names => cycle'[s].names = None
            /\ cycle'[s].types = cycle'[t].types => cycle'[s].types = None
    <3>1. \A s, t \in Scopes : cycle[s].phase \in Live /\ cycle[t].phase \in Live /\ s # t =>
            /\ cycle[s].names = cycle[t].names => cycle[s].names = None
            /\ cycle[s].types = cycle[t].types => cycle[s].types = None
        BY DEF Core, RowsRefer
    <3>2. \A s \in Scopes : /\ cycle'[s].names = cycle[s].names /\ cycle'[s].types = cycle[s].types
                            /\ cycle'[s].phase \in Live => cycle[s].phase \in Live
        BY <1>5, <2>1
    <3> QED BY <3>1, <3>2
  <2> QED BY <2>3, <2>4, <2>5 DEF RowsRefer, ItemsOf
<1>9. OpsStand'
  <2>1. handler'.at \notin SavesAt /\ handler'.at # "export types" /\ handler'.at # "save names"
      BY <1>2 DEF SavesAt
  <2>2. \A o \in DOMAIN ops' :
            /\ ops'[o].status # "applying"
            /\ ops'[o].status \in {"applying", "uncertain"} /\ ops'[o].kind = "names"
                   => ops'[o].items # {}
            /\ ops'[o].written # {} => ops'[o].saved
            /\ ops'[o].kind = "types" /\ ops'[o].status = "applied" => ops'[o].saved
    <3>1. SUFFICES ASSUME NEW o \in DOMAIN ops'
                   PROVE  /\ ops'[o].status # "applying"
                          /\ ops'[o].status \in {"applying", "uncertain"} /\ ops'[o].kind = "names"
                                => ops'[o].items # {}
                          /\ ops'[o].written # {} => ops'[o].saved
                          /\ ops'[o].kind = "types" /\ ops'[o].status = "applied" => ops'[o].saved
        OBVIOUS
    <3>2. /\ ops[o].status \in {"applying", "uncertain"} /\ ops[o].kind = "names"
                => ops[o].items # {}
          /\ ops[o].written # {} => ops[o].saved
          /\ ops[o].kind = "types" /\ ops[o].status = "applied" => ops[o].saved
        BY <1>1, <3>1 DEF Core, OpsStand
    <3> QED BY <1>1, <3>1, <3>2
  <2> QED BY <2>1, <2>2 DEF OpsStand, At
<1>10. Settles'
  <2>1. SUFFICES ASSUME NEW o \in Unresolved'
                 PROVE  \E s \in Scopes :
        \/ ops'[o].kind = "names" /\ cycle'[s].names = o /\ cycle'[s].phase \in {"names", "failed"}
        \/ ops'[o].kind = "types" /\ cycle'[s].types = o /\ cycle'[s].phase \in {"types", "failed"}
      BY DEF Settles
  <2>2. o \in Unresolved /\ ops'[o].kind = ops[o].kind
      BY <1>1, <2>1 DEF Unresolved
  <2>3. PICK s \in Scopes :
        \/ ops[o].kind = "names" /\ cycle[s].names = o /\ cycle[s].phase \in {"names", "failed"}
        \/ ops[o].kind = "types" /\ cycle[s].types = o /\ cycle[s].phase \in {"types", "failed"}
      BY <2>2 DEF Core, Settles
  <2> QED BY <1>5, <2>2, <2>3
<1>11. Begun'
  <2>1. SUFFICES ASSUME NEW o \in DOMAIN ops', NEW s \in Scopes, NEW i \in Scopes,
                        ops'[o].begun = <<s, i>>
                 PROVE  BegunBy(o, s, i)'
      BY DEF Begun
  <2>2. o \in DOMAIN ops /\ ops[o].begun = <<s, i>> /\ ops'[o].kind = ops[o].kind
      BY <1>1, <2>1
  <2>3. BegunBy(o, s, i)
      BY <2>2 DEF Core, Begun
  <2>4. /\ cycle'[s].names = cycle[s].names /\ cycle'[s].types = cycle[s].types
        /\ cycle'[s].id = cycle[s].id
        /\ cycle'[s].phase = "absent" <=> cycle[s].phase = "absent"
      BY <1>5 DEF Live
  <2> QED BY <2>2, <2>3, <2>4 DEF BegunBy
<1>12. Once'
    BY <1>1 DEF Core, Once
<1> QED BY <1>1, <1>2, <1>6, <1>7, <1>8, <1>9, <1>10, <1>11, <1>12 DEF Core

LEMMA BreaksKeep ==
    ASSUME Typed, Core, PhaseFails \/ Restart
    PROVE  CycleTypes' /\ OpsShape' /\ Core'
<1>1. CASE PhaseFails
  <2>1. /\ handler.at \in Places \ {"idle", "claimed", "done"} /\ ops' = BrokenOff /\ handler' = Over
        /\ cycle' = [cycle EXCEPT ![handler.scope] = CountedFailure] /\ UNCHANGED <<runs, writer>>
      BY <1>1 DEF PhaseFails, SetMine, queue, Typed, CycleTypes, HandlerSet
  <2>2. /\ Mine \in RowSet /\ Mine.phase \in Live /\ writer = TRUE /\ Mine.attempts < MaxAttempts
        /\ Mine.attempts \in Nat
      BY <2>1, MineNow DEF RowSet
  <2>3. /\ CountedFailure \in RowSet /\ CountedFailure.id = Mine.id
        /\ CountedFailure.pass = Mine.pass /\ CountedFailure.names = Mine.names
        /\ CountedFailure.types = Mine.types /\ CountedFailure.proposals = Mine.proposals
        /\ CountedFailure.attempts = Mine.attempts + 1
        /\ CountedFailure.phase = IF Mine.attempts + 1 >= MaxAttempts THEN "failed" ELSE Mine.phase
    <3> DEFINE phase == IF Mine.attempts + 1 >= MaxAttempts THEN "failed" ELSE Mine.phase
               n == Mine.attempts + 1
    <3>1. n \in Nat /\ phase \in Live \cup Ended
        BY <2>2 DEF Ended
    <3>2. CountedFailure = [Mine EXCEPT !.attempts = n, !.phase = phase]
        BY DEF CountedFailure
    <3> HIDE DEF n, phase
    <3>3. /\ CountedFailure \in RowSet /\ CountedFailure.id = Mine.id
          /\ CountedFailure.pass = Mine.pass /\ CountedFailure.names = Mine.names
          /\ CountedFailure.types = Mine.types /\ CountedFailure.proposals = Mine.proposals
          /\ CountedFailure.attempts = n /\ CountedFailure.phase = phase
        BY <2>2, <3>1, <3>2 DEF RowSet
    <3> QED BY <3>3 DEF n, phase
  <2>4. CountedFailure.attempts < MaxAttempts + 1
        /\ (CountedFailure.phase \in Live => CountedFailure.attempts < MaxAttempts)
    <3>1. "failed" \notin Live
        BY DEF Live
    <3>2. ~(Mine.attempts + 1 >= MaxAttempts) \/ CountedFailure.phase \notin Live
        BY <2>3, <3>1
    <3>3. /\ Mine.attempts + 1 < MaxAttempts + 1
          /\ ~(Mine.attempts + 1 >= MaxAttempts) => Mine.attempts + 1 < MaxAttempts
        BY <2>2, CountsOn
    <3> QED BY <2>3, <3>2, <3>3
  <2>5. handler' # Idle
      BY <2>1 DEF Over, Idle
  <2> HIDE DEF CountedFailure
  <2> QED BY <2>1, <2>2, <2>3, <2>4, <2>5, BrokenKeeps
<1>2. CASE Restart
  <2>1. ops' = BrokenOff /\ runs' = runs /\ handler' = Idle /\ writer' = FALSE /\ cycle' = cycle
      BY <1>2 DEF Restart, WriterFreed
  <2>2. /\ Mine \in RowSet /\ cycle = [cycle EXCEPT ![handler.scope] = Mine]
        /\ Mine.attempts < MaxAttempts + 1 /\ (Mine.phase \in Live => Mine.attempts < MaxAttempts)
      BY DEF Mine, Typed, CycleTypes, HandlerSet, Core, RowsCount
  <2> QED BY <2>1, <2>2, BrokenKeeps
<1> QED BY <1>1, <1>2

-----------------------------------------------------------------------------
\* What is left of the operations when a pass is over.
LEMMA ForgottenOps ==
    ASSUME Typed, Core, Forget, Mine.phase \in Live
    PROVE  /\ OpsShape' /\ Len(ops)' = Len(ops) /\ DOMAIN ops' = DOMAIN ops
           /\ \A o \in DOMAIN ops : IF o \in {Mine.names, Mine.types} THEN ops'[o] = Forgotten
                                    ELSE ops'[o] = ops[o]
           /\ Forgotten.begun = <<>> /\ Forgotten.status = "applied" /\ Forgotten.written = {}
           /\ Forgotten.kind = "none"
           /\ \A s \in Scopes \ {handler.scope} : cycle[s].phase \in Live =>
                 /\ cycle[s].names # None => ops'[cycle[s].names] = ops[cycle[s].names]
                 /\ cycle[s].types # None => ops'[cycle[s].types] = ops[cycle[s].types]
<1> DEFINE T == [o \in DOMAIN ops |-> IF o \in {Mine.names, Mine.types} THEN Forgotten ELSE ops[o]]
<1>1. ops' = T
    BY DEF Forget
<1>2. /\ Forgotten \in OpSet /\ Forgotten.begun = <<>> /\ Forgotten.status = "applied"
      /\ Forgotten.written = {} /\ Forgotten.kind = "none"
    BY DEF Forgotten, OpSet
<1>3. /\ \A o \in DOMAIN ops : IF o \in {Mine.names, Mine.types} THEN T[o] = Forgotten
                               ELSE T[o] = ops[o]
      /\ DOMAIN T = DOMAIN ops
    OBVIOUS
<1>4. T \in [DOMAIN ops -> OpSet]
    BY <1>2, Shape DEF Typed
<1> HIDE DEF T
<1>5. OpsShape' /\ Len(ops)' = Len(ops)
    BY <1>1, <1>4, Mapped DEF Typed
<1>6. ASSUME NEW s \in Scopes \ {handler.scope}, cycle[s].phase \in Live
      PROVE  /\ cycle[s].names # None => ops'[cycle[s].names] = ops[cycle[s].names]
             /\ cycle[s].types # None => ops'[cycle[s].types] = ops[cycle[s].types]
  <2>1. handler.scope \in Scopes
      BY DEF Typed, CycleTypes, HandlerSet
  <2>2. /\ cycle[s].names \in Nat /\ cycle[s].types \in Nat
        /\ cycle[s].names <= Len(ops) /\ cycle[s].types <= Len(ops)
      BY DEF Core, RowsRefer, Typed, CycleTypes, RowSet
  <2>3. /\ cycle[s].names # None => cycle[s].names \in DOMAIN ops
        /\ cycle[s].types # None => cycle[s].types \in DOMAIN ops
      BY <2>2, Shape, IsNumbered DEF Typed, None
  <2>4. /\ cycle[s].names = Mine.names => cycle[s].names = None
        /\ cycle[s].types = Mine.types => cycle[s].types = None
      BY <1>6, <2>1 DEF Core, RowsRefer, Mine
  <2>5. /\ cycle[s].names # None => ops[cycle[s].names].kind = "names"
        /\ cycle[s].types # None => ops[cycle[s].types].kind = "types"
        /\ Mine.names # None => ops[Mine.names].kind = "names"
        /\ Mine.types # None => ops[Mine.types].kind = "types"
      BY <1>6, <2>1 DEF Core, RowsRefer, Mine
  <2>6. /\ cycle[s].names # None => cycle[s].names \notin {Mine.names, Mine.types}
        /\ cycle[s].types # None => cycle[s].types \notin {Mine.names, Mine.types}
      BY <2>4, <2>5
  <2> QED BY <1>1, <1>3, <2>3, <2>6
<1> QED BY <1>1, <1>2, <1>3, <1>5, <1>6

\* The row of the run that a pass is followed by.
Fresh(s) ==
    /\ cycle[s].phase = "absent" /\ s = runs' /\ runs' = runs + 1
    /\ cycle'[s].phase = "assessing" /\ cycle'[s].id = runs'
    /\ cycle'[s].names = None /\ cycle'[s].types = None /\ cycle'[s].attempts = 0
    /\ cycle'[s].pass < MaxPasses

\* The row of a pass that is over.
Gone ==
    \/ runs' = runs + 1 /\ cycle'[handler.scope] = Absent
    \/ /\ runs' = runs /\ cycle'[handler.scope].phase = "ended"
       /\ cycle'[handler.scope].attempts = 0 /\ cycle'[handler.scope].id = Mine.id
       /\ cycle'[handler.scope].pass = Mine.pass /\ cycle'[handler.scope].names = Mine.names
       /\ cycle'[handler.scope].types = Mine.types

LEMMA PassOverKeeps ==
    ASSUME Typed, Core, Forget, handler.at = "selected", handler' = Over, writer' = writer,
           cycle' \in [Scopes -> RowSet], Gone,
           \A s \in Scopes \ {handler.scope} : cycle'[s] = cycle[s] \/ Fresh(s)
    PROVE  CycleTypes' /\ OpsShape' /\ Core'
<1> DEFINE h == handler.scope
<1>1. /\ h \in Scopes /\ Mine = cycle[h] /\ Mine.phase = "reanalysis" /\ Mine.phase \in Live
      /\ writer = TRUE
    BY DEF Typed, CycleTypes, HandlerSet, Mine, Core, HandlerHere, SelectAt, Live, QueueTypes
<1>2. /\ OpsShape' /\ Len(ops)' = Len(ops) /\ DOMAIN ops' = DOMAIN ops
      /\ \A o \in DOMAIN ops : IF o \in {Mine.names, Mine.types} THEN ops'[o] = Forgotten
                               ELSE ops'[o] = ops[o]
      /\ Forgotten.begun = <<>> /\ Forgotten.status = "applied" /\ Forgotten.written = {}
      /\ Forgotten.kind = "none"
    BY <1>1, ForgottenOps
<1>3. \A s \in Scopes \ {h} : cycle[s].phase \in Live =>
                 /\ cycle[s].names # None => ops'[cycle[s].names] = ops[cycle[s].names]
                 /\ cycle[s].types # None => ops'[cycle[s].types] = ops[cycle[s].types]
    BY <1>1, ForgottenOps
<1>4. /\ handler' \in HandlerSet /\ handler'.at \in {"idle", "done"}
      /\ HandlerHere' /\ HandlerRefers'
    BY <1>1, <1>2, RestFits DEF Over, Idle
<1>5. CycleTypes'
    BY <1>4 DEF CycleTypes
<1>6. /\ Absent.phase = "absent" /\ Absent.id = 0 /\ Absent.pass = 0 /\ Absent.names = None
      /\ Absent.types = None /\ Absent.attempts = 0
    BY RowsFit DEF Absent
<1>7. /\ cycle'[h].phase \in {"absent", "ended"} /\ cycle'[h].attempts = 0
      /\ cycle'[h].names \in {None, Mine.names} /\ cycle'[h].types \in {None, Mine.types}
      /\ cycle'[h].id \in {0, Mine.id} /\ cycle'[h].pass \in {0, Mine.pass}
    BY <1>6 DEF Gone
<1>8. /\ runs \in Nat /\ runs' \in Nat /\ runs' \in {runs, runs + 1}
      /\ \A s \in Scopes : s \in Nat /\ cycle[s].id \in Nat
      /\ \A s \in Scopes : cycle[s].id <= runs /\ cycle[s].pass < MaxPasses
    BY ScopesAreNat DEF Gone, Typed, QueueTypes, CycleTypes, RowSet, Core, RowsCount
<1>9. \A i \in Nat : /\ i <= runs => i <= runs'
                     /\ i < runs => i < runs' /\ i <= runs' /\ i # runs'
                     /\ i > runs' => i > runs
                     /\ i <= runs /\ runs' = runs + 1 => i < runs'
                     /\ i = 0 \/ i = runs' => i <= runs'
    BY <1>8, OneMore
<1>10. RowsCount'
  <2>1. ASSUME NEW s \in Scopes
        PROVE  /\ cycle'[s].phase \in Live => cycle'[s].attempts < MaxAttempts
               /\ cycle'[s].pass < MaxPasses /\ cycle'[s].attempts < MaxAttempts + 1
               /\ cycle'[s].id <= runs'
               /\ s > runs' => cycle'[s].phase = "absent"
    <3>1. CASE s = h
      <4>1. cycle'[s].pass < MaxPasses /\ cycle'[s].attempts < MaxAttempts + 1
          BY <1>1, <1>7, <1>8, <3>1, LimitsAllow
      <4>2. cycle'[s].phase \notin Live
          BY <1>7, <3>1 DEF Live
      <4>3. cycle'[s].id <= runs'
          BY <1>1, <1>7, <1>8, <1>9, <3>1, LimitsAllow
      <4>4. ~(s > runs')
          BY <1>1, <1>8, <1>9, <3>1 DEF Core, RowsCount
      <4> QED BY <4>1, <4>2, <4>3, <4>4
    <3>2. CASE s # h /\ cycle'[s] = cycle[s]
        BY <1>8, <1>9, <3>2 DEF Core, RowsCount
    <3>3. CASE s # h /\ Fresh(s)
      <4>1. /\ cycle'[s].pass < MaxPasses /\ cycle'[s].attempts = 0 /\ cycle'[s].id = runs'
            /\ s = runs'
          BY <3>3 DEF Fresh
      <4>2. ~(s > runs')
          BY <1>8, <4>1
      <4> QED BY <1>8, <1>9, <4>1, <4>2, LimitsAllow
    <3> QED BY <3>1, <3>2, <3>3
  <2>2. ~At("selected")'
      BY <1>4 DEF At
  <2> QED BY <2>1, <2>2 DEF RowsCount
<1>11. RowsRefer'
  <2>1. ASSUME NEW s \in Scopes
        PROVE  /\ cycle'[s].names <= Len(ops)' /\ cycle'[s].types <= Len(ops)'
               /\ cycle'[s].phase = "assessing" => cycle'[s].names = None
               /\ cycle'[s].phase \in {"assessing", "names"} => cycle'[s].types = None
               /\ cycle'[s].phase \in Live /\ cycle'[s].names # None =>
                     ops'[cycle'[s].names].kind = "names"
               /\ cycle'[s].phase \in Live /\ cycle'[s].types # None =>
                     /\ ops'[cycle'[s].types].kind = "types"
                     /\ cycle'[s].proposals # {}
                     /\ cycle'[s].phase = "types" =>
                           cycle'[s].proposals \subseteq {i.result : i \in ops'[cycle'[s].types].items}
    <3>1. None <= Len(ops)
        BY LenIsCounted DEF Typed
    <3>2. CASE s = h
      <4>1. Mine.names <= Len(ops) /\ Mine.types <= Len(ops)
          BY <1>1 DEF Core, RowsRefer
      <4> QED BY <1>2, <1>7, <3>1, <3>2, <4>1 DEF Live
    <3>3. CASE s # h /\ cycle'[s] = cycle[s]
      <4>1. /\ cycle[s].names <= Len(ops) /\ cycle[s].types <= Len(ops)
            /\ cycle[s].phase = "assessing" => cycle[s].names = None
            /\ cycle[s].phase \in {"assessing", "names"} => cycle[s].types = None
            /\ cycle[s].phase \in Live /\ cycle[s].names # None => ops[cycle[s].names].kind = "names"
            /\ cycle[s].phase \in Live /\ cycle[s].types # None =>
                /\ ops[cycle[s].types].kind = "types"
                /\ cycle[s].proposals # {}
                /\ cycle[s].phase = "types" =>
                      cycle[s].proposals \subseteq {i.result : i \in ops[cycle[s].types].items}
          BY DEF Core, RowsRefer, ItemsOf
      <4> QED BY <1>2, <1>3, <3>3, <4>1
    <3>4. CASE s # h /\ Fresh(s)
        BY <1>2, <3>1, <3>4 DEF Fresh
    <3> QED BY <3>2, <3>3, <3>4
  <2>2. \A s \in Scopes : cycle'[s].phase \in Live =>
            /\ s # h
            /\ \/ cycle'[s] = cycle[s]
               \/ cycle'[s].names = None /\ cycle'[s].types = None
    <3>1. "ended" \notin Live /\ "absent" \notin Live
        BY DEF Live
    <3> QED BY <1>7, <3>1 DEF Fresh
  <2>3. ASSUME NEW s \in Scopes, NEW t \in Scopes, cycle'[s].phase \in Live, cycle'[t].phase \in Live,
               s # t
        PROVE  /\ cycle'[s].names = cycle'[t].names => cycle'[s].names = None
               /\ cycle'[s].types = cycle'[t].types => cycle'[s].types = None
    <3>1. CASE cycle'[s] = cycle[s] /\ cycle'[t] = cycle[t]
        BY <2>3, <3>1 DEF Core, RowsRefer
    <3>2. CASE cycle'[s] # cycle[s] \/ cycle'[t] # cycle[t]
        BY <2>2, <2>3, <3>2
    <3> QED BY <3>1, <3>2
  <2> QED BY <2>1, <2>3 DEF RowsRefer, ItemsOf
<1>12. OpsStand'
  <2>1. \A o \in DOMAIN ops : ops[o].status # "applying"
      BY DEF Core, OpsStand, SavesAt
  <2>2. ASSUME NEW o \in DOMAIN ops
        PROVE  /\ ops'[o].status # "applying"
               /\ ops'[o].status \in {"applying", "uncertain"} /\ ops'[o].kind = "names"
                     => ops'[o].items # {}
               /\ ops'[o].written # {} => ops'[o].saved
               /\ ops'[o].kind = "types" /\ ops'[o].status = "applied" => ops'[o].saved
    <3>1. CASE ops'[o] = Forgotten
        BY <1>2, <3>1
    <3>2. CASE ops'[o] = ops[o]
        BY <2>1, <3>2 DEF Core, OpsStand
    <3> QED BY <1>2, <3>1, <3>2
  <2>3. handler'.at \notin SavesAt /\ handler'.at # "export types" /\ handler'.at # "save names"
      BY <1>4 DEF SavesAt
  <2> QED BY <1>2, <2>2, <2>3 DEF OpsStand, At
<1>13. Settles'
  <2>1. SUFFICES ASSUME NEW o \in Unresolved'
                 PROVE  \E s \in Scopes :
        \/ ops'[o].kind = "names" /\ cycle'[s].names = o /\ cycle'[s].phase \in {"names", "failed"}
        \/ ops'[o].kind = "types" /\ cycle'[s].types = o /\ cycle'[s].phase \in {"types", "failed"}
      BY DEF Settles
  <2>2. o \in Unresolved /\ ops'[o] = ops[o]
      BY <1>2, <2>1 DEF Unresolved
  <2>3. PICK s \in Scopes :
        \/ ops[o].kind = "names" /\ cycle[s].names = o /\ cycle[s].phase \in {"names", "failed"}
        \/ ops[o].kind = "types" /\ cycle[s].types = o /\ cycle[s].phase \in {"types", "failed"}
      BY <2>2 DEF Core, Settles
  <2>4. cycle'[s] = cycle[s]
      BY <1>1, <2>3 DEF Fresh
  <2> QED BY <2>2, <2>3, <2>4
<1>14. Begun'
  <2>1. SUFFICES ASSUME NEW o \in DOMAIN ops, NEW s \in Scopes, NEW i \in Scopes,
                        ops'[o].begun = <<s, i>>
                 PROVE  BegunBy(o, s, i)'
      BY <1>2 DEF Begun
  <2>2. <<s, i>> # <<>>
      OBVIOUS
  <2>3. ops'[o] = ops[o]
      BY <1>2, <2>1, <2>2
  <2>4. BegunBy(o, s, i) /\ i \in Nat
      BY <1>8, <2>1, <2>3 DEF Core, Begun
  <2>5. CASE s = h
    <3>1. i <= runs /\ i <= runs' /\ cycle[s].phase # "absent"
        BY <1>1, <1>9, <2>4, <2>5 DEF BegunBy, Live
    <3>2. CASE runs' = runs + 1 /\ cycle'[h] = Absent
        BY <1>6, <1>9, <2>4, <2>5, <3>1, <3>2 DEF BegunBy
    <3>3. CASE ~(runs' = runs + 1 /\ cycle'[h] = Absent)
      <4>1. /\ cycle'[s].phase # "absent" /\ cycle'[s].id = cycle[s].id
            /\ cycle'[s].names = cycle[s].names /\ cycle'[s].types = cycle[s].types
          BY <1>1, <2>5, <3>3 DEF Gone
      <4> QED BY <2>3, <2>4, <3>1, <4>1 DEF BegunBy
    <3> QED BY <3>2, <3>3
  <2>6. CASE s # h /\ cycle'[s] = cycle[s]
      BY <1>9, <2>3, <2>4, <2>6 DEF BegunBy
  <2>7. CASE s # h /\ Fresh(s)
    <3>1. i < runs
        BY <2>4, <2>7 DEF BegunBy, Fresh
    <3>2. i <= runs' /\ i # runs' /\ cycle'[s].id = runs' /\ cycle'[s].phase = "assessing"
        BY <1>9, <2>4, <2>7, <3>1 DEF Fresh
    <3> QED BY <3>2 DEF BegunBy
  <2> QED BY <2>5, <2>6, <2>7
<1>15. Once'
    BY <1>2 DEF Core, Once
<1> QED BY <1>2, <1>4, <1>5, <1>10, <1>11, <1>12, <1>13, <1>14, <1>15 DEF Core

LEMMA PassesOverKeep ==
    ASSUME Typed, Core, FollowUp \/ Finish
    PROVE  CycleTypes' /\ OpsShape' /\ Core'
<1>1. /\ handler.at = "selected" /\ Forget /\ handler' = Over /\ writer' = writer
    BY DEF FollowUp, Finish, Proceed, At
<1>2. /\ handler.scope \in Scopes /\ Mine = cycle[handler.scope] /\ Mine \in RowSet
      /\ Mine.phase = "reanalysis" /\ cycle \in [Scopes -> RowSet] /\ Mine.pass \in Nat
    BY <1>1 DEF Typed, CycleTypes, HandlerSet, Mine, RowSet, Core, HandlerHere, SelectAt
<1>3. CASE FollowUp
  <2>1. /\ runs' = runs + 1 /\ Mine.pass + 1 < MaxPasses /\ runs <= MaxRuns
        /\ cycle' = [cycle EXCEPT ![runs'] = Row(runs', "assessing", Mine.pass + 1),
                                  ![handler.scope] = Absent]
      BY <1>3 DEF FollowUp, Core, RowsCount, At
  <2>2. runs' \in Scopes /\ runs' \in Nat /\ ~(runs' <= runs) /\ runs' > runs
    <3>1. runs \in Nat /\ MaxRuns \in Nat
        BY ScopesAreNat, RecoveryAssumption DEF Typed, QueueTypes
    <3> QED BY <2>1, <3>1 DEF Scopes
  <2>3. cycle[runs'].phase = "absent" /\ runs' # handler.scope
      BY <1>2, <2>2 DEF Core, RowsCount
  <2> DEFINE row == Row(runs', "assessing", Mine.pass + 1)
             id == runs'
  <2>4. /\ row \in RowSet /\ row.phase = "assessing" /\ row.id = runs' /\ row.pass = Mine.pass + 1
        /\ row.names = None /\ row.types = None /\ row.attempts = 0
      BY <1>2, <2>2, RowsFit
  <2>5. Absent \in RowSet
      BY RowsFit DEF Absent
  <2> HIDE DEF row
  <2>6. cycle' = [cycle EXCEPT ![runs'] = row, ![handler.scope] = Absent]
      BY <2>1 DEF row
  <2>7. /\ cycle' \in [Scopes -> RowSet] /\ cycle'[handler.scope] = Absent
        /\ cycle'[runs'] = row
        /\ \A s \in Scopes \ {handler.scope, runs'} : cycle'[s] = cycle[s]
      BY <1>2, <2>2, <2>3, <2>4, <2>5, <2>6
  <2>8. Fresh(runs')
      BY <2>1, <2>3, <2>4, <2>7 DEF Fresh
  <2>9. Gone
      BY <2>1, <2>7 DEF Gone
  <2> QED BY <1>1, <2>7, <2>8, <2>9, PassOverKeeps
<1>4. CASE Finish
  <2> DEFINE row == [Mine EXCEPT !.phase = "ended", !.attempts = 0,
                                 !.trials = [f \in Functions |-> "none"]]
  <2>1. cycle' = [cycle EXCEPT ![handler.scope] = row] /\ runs' = runs
      BY <1>4 DEF Finish, Proceed, SetMine, queue
  <2>2. /\ row \in RowSet /\ row.phase = "ended" /\ row.attempts = 0 /\ row.id = Mine.id
        /\ row.pass = Mine.pass /\ row.names = Mine.names /\ row.types = Mine.types
      BY <1>2 DEF RowSet, Ended, TrialStates
  <2> HIDE DEF row
  <2>3. /\ cycle' \in [Scopes -> RowSet] /\ cycle'[handler.scope] = row
        /\ \A s \in Scopes \ {handler.scope} : cycle'[s] = cycle[s]
      BY <1>2, <2>1, <2>2
  <2>4. Gone
      BY <2>1, <2>2, <2>3 DEF Gone
  <2> QED BY <1>1, <2>3, <2>4, PassOverKeeps
<1> QED BY <1>3, <1>4

-----------------------------------------------------------------------------
LEMMA QueueTypesStep ==
    ASSUME Typed, Core, [Next]_vars
    PROVE  QueueTypes'
<1>1. CASE UNCHANGED queue /\ UNCHANGED <<unexported, news>> /\ writer' \in BOOLEAN
    BY <1>1 DEF Typed, QueueTypes, queue
<1>2. ASSUME NEW s \in Scopes, NEW f \in Functions, Ask(s, f) \/ Answer(s, f) \/ JobFails(s, f)
      PROVE  QueueTypes'
  <2>1. UNCHANGED <<paused, active, runs, writer, unexported>> /\ news' \subseteq news
      BY <1>2 DEF Ask, Answer, JobFails, native
  <2>2. job' \in [Scopes \X Functions -> {"none", "queued", "open", "done", "failed", "uncertain"}]
      BY <1>2 DEF Ask, Answer, JobFails, Typed, QueueTypes
  <2> QED BY <2>1, <2>2 DEF Typed, QueueTypes
<1>3. CASE FollowUp
  <2>1. /\ runs' = runs + 1 /\ runs <= MaxRuns /\ active' = runs'
        /\ UNCHANGED <<paused, writer, native>>
      BY <1>3 DEF FollowUp, Core, RowsCount, At
  <2>2. runs' \in Scopes /\ active' \in 0 .. runs'
    <3>1. runs \in Nat /\ MaxRuns \in Nat
        BY ScopesAreNat, RecoveryAssumption DEF Typed, QueueTypes
    <3> QED BY <2>1, <3>1 DEF Scopes
  <2>3. job' \in [Scopes \X Functions -> {"none", "queued", "open", "done", "failed", "uncertain"}]
      BY <1>3 DEF FollowUp, Typed, QueueTypes
  <2> QED BY <2>1, <2>2, <2>3 DEF Typed, QueueTypes, native
<1>4. CASE ChooseScope
  <2>1. /\ runs' = runs + 1 /\ runs < MaxRuns /\ active' = runs' /\ paused' = TRUE
        /\ UNCHANGED <<writer, native>>
      BY <1>4 DEF ChooseScope
  <2>2. runs' \in Scopes /\ active' \in 0 .. runs'
    <3>1. runs \in Nat /\ MaxRuns \in Nat
        BY ScopesAreNat, RecoveryAssumption DEF Typed, QueueTypes
    <3> QED BY <2>1, <3>1 DEF Scopes
  <2>3. job' \in [Scopes \X Functions -> {"none", "queued", "open", "done", "failed", "uncertain"}]
      BY <1>4 DEF ChooseScope, Typed, QueueTypes
  <2> QED BY <2>1, <2>2, <2>3 DEF Typed, QueueTypes, native
<1>5. CASE Control \/ Restart
  <2>1. active' \in {active, All} /\ UNCHANGED <<runs, native>> /\ writer' \in BOOLEAN
      BY <1>5 DEF Control, Restart, WriterFreed, Typed, QueueTypes
  <2>4. active' \in 0 .. runs
    <3>1. runs \in Nat
        BY ScopesAreNat DEF Typed, QueueTypes
    <3> QED BY <2>1, <3>1 DEF Typed, QueueTypes, All
  <2>2. job' \in [Scopes \X Functions -> {"none", "queued", "open", "done", "failed", "uncertain"}]
      BY <1>5 DEF Control, Restart, Typed, QueueTypes
  <2>3. paused' \in BOOLEAN
      BY <1>5 DEF Control, Restart, Typed, QueueTypes
  <2> QED BY <2>1, <2>2, <2>3, <2>4 DEF Typed, QueueTypes, native
<1>6. CASE NamesSave \/ TypesSave
  <2>1. UNCHANGED <<queue, writer, news>>
      BY <1>6 DEF NamesSave, TypesSave
  <2>2. unexported' \subseteq Functions
    <3>1. handler.op \in DOMAIN ops /\ ops[handler.op] \in OpSet
      <4>1. CASE NamesSave
          BY <4>1, HandlesWhatItNames DEF NamesSave, At, ScriptAt
      <4>2. CASE TypesSave
          BY <4>2, HandlesWhatItNames DEF TypesSave, At, ScriptAt
      <4> QED BY <1>6, <4>1, <4>2
    <3>2. \A rs : rs \subseteq Results => FunctionsOf(rs) \subseteq Functions
        BY DEF FunctionsOf, Results
    <3>3. {i.result : i \in ops[handler.op].items} \subseteq Results
        BY <3>1 DEF OpSet
    <3>4. unexported \subseteq Functions
        BY DEF Typed, QueueTypes
    <3>5. \E rs \in SUBSET Results : unexported' \subseteq unexported \cup FunctionsOf(rs)
        BY <1>6, <3>3 DEF NamesSave, TypesSave, SavesNames, SavesTypes
    <3> QED BY <3>2, <3>4, <3>5
  <2> QED BY <2>1, <2>2 DEF Typed, QueueTypes, queue
<1>7. CASE TypesExport \/ RefreshExport
    BY <1>7 DEF TypesExport, RefreshExport, Export, Typed, QueueTypes, queue
<1>8. ASSUME NEW f \in Functions, TrialSave(f) PROVE QueueTypes'
    BY <1>8 DEF TrialSave, Typed, QueueTypes, queue
<1>9. CASE Ghidra
  <2>1. PICK o \in DOMAIN ops : LateSave(o)
      BY <1>9 DEF Ghidra
  <2>2. UNCHANGED <<queue, writer, news>>
      BY <2>1, LateSaveIs
  <2>3. \A rs : rs \subseteq Results => FunctionsOf(rs) \subseteq Functions
      BY DEF FunctionsOf, Results
  <2>4. ops[o] \in OpSet
      BY Shape DEF Typed
  <2>5. ItemsOf(o) \subseteq Results
      BY <2>4 DEF OpSet, ItemsOf
  <2>6. \E rs \in SUBSET ItemsOf(o) : unexported' = unexported \cup FunctionsOf(rs)
      BY <2>1, LateSaveIs
  <2>7. unexported' \subseteq Functions
      BY <2>3, <2>5, <2>6 DEF Typed, QueueTypes
  <2> QED BY <2>2, <2>7 DEF Typed, QueueTypes, queue
<1> QED BY <1>1, <1>2, <1>3, <1>4, <1>5, <1>6, <1>7, <1>8, <1>9
        DEF Next, Requests, Ends, PhaseStep, Names, TypePlans, Refreshing, People, vars, native, Typed,
            QueueTypes,
            Claim, Enter, Release, NamesPreview, NamesKeep, NamesAgain, NamesBegin, AssessRow, AssessDone,
            NamesRecord, NamesDone, TypesNothing, TypesAgain, TypesPreview, LocalsKeep,
            TypesRefused, LocalsDropped, IsolateReject, TypesOutcome,
            IsolateAccept, TypesKeep, TypesBegin, TypesDone, TrialRecord, Mark,
            RefreshNothing, Select, Finish, PhaseFails, Review, Correct

LEMMA CoreStep ==
    ASSUME Typed, Core, [Next]_vars
    PROVE  CycleTypes' /\ OpsShape' /\ Core'
<1>1. CASE UNCHANGED vars
  <2>1. UNCHANGED <<cycle, ops, handler, writer, runs, revision>>
      BY <1>1 DEF vars, queue, results
  <2>2. /\ runs \in Scopes /\ runs \in Nat
        /\ At("selected") /\ handler.todo # {} => runs <= MaxRuns
      BY ScopesAreNat DEF Typed, QueueTypes, Core, RowsCount
  <2>3. runs <= runs
      BY <2>2, LessOrSame
  <2> QED BY <2>1, <2>2, <2>3, AsideKeeps
<1>2. CASE Next
    BY <1>2, OthersKeep, MovesKeep, AssessDoneKeeps, NamesKeepKeeps, LocalsKeepKeeps, TypesKeepKeeps,
       TrialsKeep, ProceedsKeep, BeginsKeep, SavesKeep, RecordsKeep, PreviewsKeep, EnterKeeps,
       BreaksKeep, PassesOverKeep, LateSavesKeep
       DEF Next, PhaseStep, Names, TypePlans, Refreshing
<1> QED BY <1>1, <1>2

LEMMA CoreInit ==
    ASSUME Init
    PROVE  Typed /\ Core
<1>0. cycle = [s \in Scopes |-> Absent] /\ ops = <<>> /\ handler = Idle /\ runs = 0 /\ active = All
    BY DEF Init
<1>1. \A s \in Scopes : cycle[s] = Absent
    BY <1>0
<1>2. /\ Absent \in RowSet /\ Absent.phase = "absent" /\ Absent.id = 0 /\ Absent.pass = 0
      /\ Absent.names = None /\ Absent.types = None /\ Absent.attempts = 0
    BY RowsFit DEF Absent
<1>3. handler = Idle /\ Idle \in HandlerSet /\ Idle.at = "idle" /\ Idle.op = None /\ Idle.scope = All
    BY <1>0, LimitsAllow DEF Idle, HandlerSet, Places, None, All
<1>4. ops = <<>> /\ Len(ops) = 0 /\ DOMAIN ops = {}
    BY <1>0
<1>5. OpsShape
    BY <1>4, EmptySeq DEF OpsShape
<1>6. CycleTypes
    BY <1>0, <1>2, <1>3 DEF CycleTypes
<1>7. runs = 0 /\ runs \in Scopes /\ active \in 0 .. runs
    BY <1>0, LimitsAllow DEF All
<1>8. job \in [Scopes \X Functions -> {"none", "queued", "open", "done", "failed", "uncertain"}]
    BY DEF Init
<1>9. QueueTypes
    BY <1>7, <1>8 DEF Init, QueueTypes
<1>10. ResultTypes
  <2>1. current = [f \in Functions |-> 0] /\ made = [f \in Functions |-> 0]
      BY DEF Init
  <2>2. 0 <= 0 /\ 0 <= MaxResults /\ 0 \in Nat
      BY RecoveryAssumption
  <2>3. \A f \in Functions : current[f] = 0 /\ made[f] = 0
      BY <2>1
  <2>4. /\ taken = {} /\ stale = {} /\ accepted = {} /\ marked = {}
        /\ revision \in [Results -> {0, 1}]
        /\ types \in [Functions -> {"", "validated", "deferred", "applied", "unchanged"}]
      BY DEF Init
  <2> QED BY <2>1, <2>2, <2>3, <2>4 DEF ResultTypes
<1>11. HandlerHere
    BY <1>3 DEF Init, HandlerHere, NamesAt, TypesAt, TriesAt, RefreshAt, SelectAt
<1>12. RowsCount
  <2>1. 0 <= runs
      BY <1>7
  <2> QED BY <1>1, <1>2, <1>3, <2>1, LimitsAllow DEF RowsCount, At, Live
<1>13. RowsRefer
    BY <1>1, <1>2, <1>5, LenIsCounted DEF RowsRefer, Live
<1>14. HandlerRefers
  <2>1. handler.op <= Len(ops)
      BY <1>3, <1>5, LenIsCounted
  <2> QED BY <1>3, <2>1 DEF HandlerRefers, At, TriesAt
<1>15. OpsStand /\ Settles /\ Begun /\ Once
    BY <1>3, <1>4 DEF OpsStand, Settles, Unresolved, Begun, Once, At, SavesAt
<1> QED BY <1>5, <1>6, <1>9, <1>10, <1>11, <1>12, <1>13, <1>14, <1>15 DEF Typed, Core

LEMMA CoreHolds == Spec => [](Typed /\ Core)
<1>1. Init => Typed /\ Core
    BY CoreInit
<1>2. Typed /\ Core /\ [Next]_vars => (Typed /\ Core)'
    BY ResultTypesStep, QueueTypesStep, CoreStep DEF Typed
<1> QED BY <1>1, <1>2, PTL DEF Spec

\* Every variable has its type: a cycle refers to operations there are, and keeps within its
\* passes and attempts, and the writer flag is taken for as long as a handler runs.
THEOREM RecoveryTypes == Spec => []RecoveryTypeOK
<1>1. Typed /\ Core => RecoveryTypeOK
  <2> SUFFICES ASSUME Typed, Core PROVE RecoveryTypeOK
      OBVIOUS
  <2>1. \A f \in Functions : current[f] \in 0 .. made[f] /\ made[f] \in 0 .. MaxResults
    <3>1. \A f \in Functions : /\ current[f] \in Nat /\ made[f] \in Nat
                               /\ current[f] <= made[f] /\ made[f] <= MaxResults
        BY DEF Typed, ResultTypes
    <3>2. MaxResults \in Nat /\ \A m, n \in Nat : m <= n => m \in 0 .. n
        BY RecoveryAssumption
    <3> QED BY <3>1, <3>2
  <2>2. \A s \in Scopes : /\ cycle[s].phase \in Live \cup Ended \cup {"absent"}
                          /\ cycle[s].proposals \subseteq Results
                          /\ cycle[s].names \in Nat /\ cycle[s].types \in Nat
      BY DEF Typed, CycleTypes, RowSet
  <2>3. \A s \in Scopes : cycle[s].pass < MaxPasses /\ cycle[s].attempts < MaxAttempts + 1
      BY DEF Core, RowsCount
  <2>4. \A n \in Nat : n <= Len(ops) => n \in 0 .. Len(ops)
      BY Shape DEF Typed
  <2>5. \A s \in Scopes : {cycle[s].names, cycle[s].types} \subseteq 0 .. Len(ops)
      BY <2>2, <2>4 DEF Core, RowsRefer
  <2>6. handler.op \in 0 .. Len(ops)
      BY <2>4 DEF Typed, CycleTypes, HandlerSet, Core, HandlerRefers
  <2> QED BY <2>1, <2>2, <2>3, <2>5, <2>6
          DEF RecoveryTypeOK, Typed, ResultTypes, QueueTypes, Core, HandlerHere
<1> QED BY <1>1, CoreHolds, PTL

\* An operation with an open outcome is the one that its cycle takes up again, and a pass
\* begins one operation for its names and one for its types: nothing is written twice when a
\* phase fails, or the process stops, between the script and its record.
THEOREM OneWriteback == Spec => []OneWritebackPerPass
<1>1. Core => OneWritebackPerPass
    BY DEF Core, Settles, Once, OneWritebackPerPass
<1> QED BY <1>1, CoreHolds, PTL

-----------------------------------------------------------------------------
\* Only unresolved change sets are saved.
LEMMA SavedByScripts ==
    ASSUME Typed, Core, [Next]_vars, NEW o \in DOMAIN ops \cap DOMAIN ops',
           ops[o].kind = "names", ops'[o].saved, ~ops[o].saved
    PROVE  o \in Unresolved
<1> SUFFICES ASSUME o \notin Unresolved PROVE FALSE
    OBVIOUS
<1>1. CASE ops' = ops
    BY <1>1
<1>2. CASE NamesPreview \/ TypesPreview \/ IsolateAccept
  <2>1. ops' = ops \/ \E op : ops' = Append(ops, op)
      BY <1>2 DEF NamesPreview, TypesPreview, IsolateAccept, Previewed
  <2>2. \A op : Append(ops, op)[o] = ops[o]
    <3>1. ASSUME NEW op PROVE Append(ops, op)[o] = ops[o]
      <4>1. ops \in Seq(OpSet) /\ Len(ops) \in Nat /\ o \in 1 .. Len(ops)
          BY Shape DEF Typed, OpsShape
      <4> QED BY <4>1, AppendedEntry
    <3> QED BY <3>1
  <2> QED BY <2>1, <2>2
<1>3. CASE NamesBegin \/ TypesBegin
  <2>1. ops' = [ops EXCEPT ![handler.op].status = "applying", ![handler.op].begun = Pass]
      BY <1>3 DEF NamesBegin, TypesBegin, Begin
  <2> QED BY <2>1, Shape DEF Typed, OpSet
<1>4. CASE NamesRecord \/ TypesExport
  <2>1. \E status : ops' = [ops EXCEPT ![handler.op].status = status]
      BY <1>4 DEF NamesRecord, TypesExport, SetOp
  <2> QED BY <2>1, Shape DEF Typed, OpSet
<1>5. CASE NamesSave
  <2>1. handler.at \in SavesAt
      BY <1>5 DEF NamesSave, At, SavesAt
  <2>2. o # handler.op
      BY <2>1 DEF Core, OpsStand, Unresolved
  <2>3. ops' = ops \/ \E w : ops' = [ops EXCEPT ![handler.op].saved = TRUE, ![handler.op].written = w]
      BY <1>5 DEF NamesSave, SavesNames
  <2> QED BY <2>2, <2>3
<1>6. CASE TypesSave
  <2>1. ops[handler.op].kind = "types"
      BY <1>6, HandlesWhatItNames DEF TypesSave, At, ScriptAt, Handles
  <2>2. ops' = ops \/ ops' = [ops EXCEPT ![handler.op].saved = TRUE]
      BY <1>6 DEF TypesSave, SavesTypes
  <2> QED BY <2>1, <2>2
<1>9. CASE Ghidra
  <2>1. PICK p \in DOMAIN ops : LateSave(p)
      BY <1>9 DEF Ghidra
  <2>2. o # p
      BY <2>1, LateSaveIs DEF Unresolved
  <2> QED BY <2>1, <2>2, LateSaveLeaves
<1>7. CASE PhaseFails \/ Restart
    BY <1>7, BrokenOps DEF PhaseFails, Restart
<1>8. CASE FollowUp \/ Finish
  <2>1. Forget
      BY <1>8 DEF FollowUp, Finish
  <2>2. ops'[o] = ops[o] \/ ops'[o] = Forgotten
      BY <2>1 DEF Forget
  <2>3. ~Forgotten.saved
      BY DEF Forgotten
  <2> QED BY <2>2, <2>3
<1> QED BY <1>1, <1>2, <1>3, <1>4, <1>5, <1>6, <1>7, <1>8, <1>9
        DEF Next, Requests, Ends, PhaseStep, Names, TypePlans, Refreshing, People, vars,
            Ask, Answer, JobFails, Claim, Enter, Release, NamesKeep, NamesAgain, AssessRow, AssessDone,
            NamesDone, TypesNothing, TypesAgain, LocalsKeep, TypesRefused, LocalsDropped,
            IsolateReject, TypesOutcome, TypesKeep, TypesDone, TrialSave, TrialRecord, RefreshExport,
            RefreshNothing, Mark, Select, Control, ChooseScope, Review, Correct

\* A change set is unresolved because it was, or because it is begun.
LEMMA UnresolvedNames ==
    ASSUME Typed, Core, [Next]_vars, NEW o \in Unresolved', ops'[o].kind = "names"
    PROVE  /\ o \in DOMAIN ops /\ ops'[o].items = ops[o].items /\ ops[o].kind = "names"
           /\ o \in Unresolved \/ (NamesBegin /\ o = handler.op)
<1>0. /\ o \in DOMAIN ops' /\ ops'[o].status \in {"applying", "uncertain"}
      /\ ops \in Seq(OpSet) /\ DOMAIN ops = 1 .. Len(ops) /\ Len(ops) \in Nat
      /\ \A p \in DOMAIN ops : ops[p] \in OpSet
    BY Shape DEF Unresolved, Typed, OpsShape
<1>1. CASE ops' = ops
    BY <1>0, <1>1 DEF Unresolved
<1>2. CASE NamesPreview \/ TypesPreview \/ IsolateAccept
  <2>1. ops' = ops \/ \E op : ops' = Append(ops, op) /\ op.status \in {"preview", "unchanged"}
      BY <1>2 DEF NamesPreview, TypesPreview, IsolateAccept, Previewed, Operation
  <2>2. ASSUME NEW op, ops' = Append(ops, op), op.status \in {"preview", "unchanged"}
        PROVE  o \in DOMAIN ops /\ ops'[o] = ops[o]
    <3>1. ops \in Seq(OpSet \cup {op}) /\ op \in OpSet \cup {op}
        BY <1>0, SeqMonotonic
    <3>2. ops'[Len(ops) + 1] = op /\ ops' \in Seq(OpSet \cup {op}) /\ Len(ops') = Len(ops) + 1
        BY <2>2, <3>1, AppendProperties
    <3>3. o \in 1 .. Len(ops) + 1 /\ o # Len(ops) + 1
        BY <1>0, <2>2, <3>2, LenProperties
    <3>4. o \in DOMAIN ops
        BY <1>0, <3>3
    <3> QED BY <1>0, <2>2, <3>4, AppendedEntry
  <2>3. CASE ops' = ops
      BY <1>1, <2>3
  <2>4. CASE o \in DOMAIN ops /\ ops'[o] = ops[o]
      BY <1>0, <2>4 DEF Unresolved
  <2> QED BY <2>1, <2>2, <2>3, <2>4
<1>3. CASE NamesBegin \/ TypesBegin
  <2>1. ops' = [ops EXCEPT ![handler.op].status = "applying", ![handler.op].begun = Pass]
      BY <1>3 DEF NamesBegin, TypesBegin, Begin
  <2>2. /\ o \in DOMAIN ops /\ ops'[o].items = ops[o].items /\ ops'[o].kind = ops[o].kind
        /\ o # handler.op => ops'[o] = ops[o]
      BY <1>0, <2>1 DEF OpSet
  <2>3. TypesBegin => ops[handler.op].kind = "types"
      BY HandlesWhatItNames DEF TypesBegin, At, ScriptAt, Handles
  <2> QED BY <1>0, <1>3, <2>2, <2>3 DEF Unresolved
<1>4. CASE NamesRecord \/ TypesExport
  <2>1. \E status \in {"applied", "conflict"} : ops' = [ops EXCEPT ![handler.op].status = status]
      BY <1>4 DEF NamesRecord, TypesExport, SetOp
  <2>2. o \in DOMAIN ops /\ ops'[o] = ops[o]
      BY <1>0, <2>1 DEF OpSet
  <2> QED BY <1>0, <2>2 DEF Unresolved
<1>5. CASE NamesSave \/ TypesSave
  <2>1. handler.op \in DOMAIN ops
      BY <1>5, HandlesWhatItNames DEF NamesSave, TypesSave, At, ScriptAt
  <2>2. \/ ops' = ops
        \/ ops' = [ops EXCEPT ![handler.op].saved = TRUE]
        \/ \E w : ops' = [ops EXCEPT ![handler.op].saved = TRUE, ![handler.op].written = w]
      BY <1>5 DEF NamesSave, TypesSave, SavesNames, SavesTypes
  <2>3. /\ o \in DOMAIN ops /\ ops'[o].items = ops[o].items /\ ops'[o].kind = ops[o].kind
        /\ ops'[o].status = ops[o].status
    <3>1. CASE ops' = ops
        BY <1>0, <3>1
    <3>2. CASE ops' = [ops EXCEPT ![handler.op].saved = TRUE]
        BY <1>0, <2>1, <3>2 DEF OpSet
    <3>3. ASSUME NEW w, ops' = [ops EXCEPT ![handler.op].saved = TRUE, ![handler.op].written = w]
          PROVE  /\ o \in DOMAIN ops /\ ops'[o].items = ops[o].items /\ ops'[o].kind = ops[o].kind
                 /\ ops'[o].status = ops[o].status
      <4>1. o \in DOMAIN ops
          BY <1>0, <3>3
      <4>2. CASE o = handler.op
          BY <1>0, <4>1, <4>2, <3>3 DEF OpSet
      <4>3. CASE o # handler.op
          BY <4>1, <4>3, <3>3
      <4> QED BY <4>1, <4>2, <4>3
    <3> QED BY <2>2, <3>1, <3>2, <3>3
  <2> QED BY <1>0, <2>3 DEF Unresolved
<1>6. CASE PhaseFails \/ Restart
  <2>1. ops' = BrokenOff
      BY <1>6 DEF PhaseFails, Restart
  <2>2. /\ o \in DOMAIN ops /\ ops'[o].items = ops[o].items /\ ops'[o].kind = ops[o].kind
        /\ ops'[o].status = ops[o].status \/ ops[o].status = "applying"
      BY <1>0, <2>1, BrokenOps
  <2> QED BY <1>0, <2>2 DEF Unresolved
<1>7. CASE FollowUp \/ Finish
  <2>1. \A p \in DOMAIN ops : ops'[p] = ops[p] \/ ops'[p] = Forgotten
      BY <1>7 DEF FollowUp, Finish, Forget
  <2>2. DOMAIN ops' = DOMAIN ops /\ Forgotten.status = "applied"
      BY <1>7 DEF FollowUp, Finish, Forget, Forgotten
  <2>3. o \in DOMAIN ops /\ ops'[o] = ops[o]
      BY <1>0, <2>1, <2>2
  <2> QED BY <1>0, <2>3 DEF Unresolved
<1>8. CASE Ghidra
  <2>1. PICK p \in DOMAIN ops : LateSave(p)
      BY <1>8 DEF Ghidra
  <2>2. /\ o \in DOMAIN ops /\ ops'[o].items = ops[o].items /\ ops'[o].kind = ops[o].kind
        /\ ops'[o].status = ops[o].status
      BY <1>0, <2>1, LateSaveLeaves
  <2> QED BY <1>0, <2>2 DEF Unresolved
<1> QED BY <1>1, <1>2, <1>3, <1>4, <1>5, <1>6, <1>7, <1>8
        DEF Next, Requests, Ends, PhaseStep, Names, TypePlans, Refreshing, People, vars,
            Ask, Answer, JobFails, Claim, Enter, Release, NamesKeep, NamesAgain, AssessRow, AssessDone,
            NamesDone, TypesNothing, TypesAgain, LocalsKeep, TypesRefused, LocalsDropped,
            IsolateReject, TypesOutcome, TypesKeep, TypesDone, TrialSave, TrialRecord, RefreshExport,
            RefreshNothing, Mark, Select, Control, ChooseScope, Review, Correct

\* Nobody revises a result that an unresolved change set may still write.
HeldRevisions ==
    \A o \in Unresolved : ops[o].kind = "names" =>
        \A i \in ops[o].items : revision[i.result] = i.revision

LEMMA RevisionsAreHeld ==
    ASSUME Typed, [Next]_vars, NEW r \in Results, Held(r)
    PROVE  revision'[r] = revision[r]
<1>1. ASSUME NEW q, Revise(q) PROVE revision'[r] = revision[r]
  <2>1. q # r /\ revision' = [revision EXCEPT ![q] = 1] /\ revision \in [Results -> {0, 1}]
      BY <1>1 DEF Revise, Typed, ResultTypes
  <2> QED BY <2>1
<1>2. CASE \E f \in Functions : Review(f) \/ Correct(f)
    BY <1>1, <1>2 DEF Review, Correct
<1> QED BY <1>2
        DEF Next, Requests, Ends, PhaseStep, Names, TypePlans, Refreshing, People, Ghidra, LateSave,
            vars, results, Ask, Answer, JobFails, Claim, Enter, Release, AssessRow, AssessDone, NamesPreview,
            NamesKeep, NamesAgain, NamesBegin, NamesSave, NamesRecord, NamesDone, TypesNothing, TypesAgain,
            TypesPreview, TypesRefused, LocalsDropped, LocalsKeep, IsolateReject, IsolateAccept, TypesKeep,
            TypesBegin, TypesSave, TypesExport, TypesOutcome, TypesDone, TrialSave, TrialRecord,
            RefreshExport, RefreshNothing, Mark, Select, FollowUp, Finish, PhaseFails, Control,
            ChooseScope, Restart

LEMMA HeldStep ==
    ASSUME Typed, Core, HeldRevisions, [Next]_vars
    PROVE  HeldRevisions'
<1>1. SUFFICES ASSUME NEW o \in Unresolved', ops'[o].kind = "names", NEW i \in ops'[o].items
               PROVE  revision'[i.result] = i.revision
    BY DEF HeldRevisions
<1>2. /\ o \in DOMAIN ops /\ i \in ops[o].items /\ ops[o].kind = "names"
      /\ o \in Unresolved \/ (NamesBegin /\ o = handler.op)
    BY <1>1, UnresolvedNames
<1>3. CASE o \in Unresolved
  <2>1. Held(i.result) /\ revision[i.result] = i.revision
      BY <1>2, <1>3 DEF Held, HeldRevisions
  <2>2. i.result \in Results
      BY <1>2, Shape DEF Typed, OpSet
  <2> QED BY <2>1, <2>2, RevisionsAreHeld
<1>4. CASE NamesBegin /\ o = handler.op
  <2>1. AsPreviewed(o) /\ revision' = revision
      BY <1>4 DEF NamesBegin, results
  <2> QED BY <1>2, <2>1 DEF AsPreviewed
<1> QED BY <1>2, <1>3, <1>4

\* What a person decides before a name is saved is honoured, however the steps of the reviewer,
\* of the cycle, and of a Ghidra that goes on after its phase was broken off, interleave.
THEOREM DecisionsPrevent == Spec => DecisionsPreventWrites
<1>1. Init => HeldRevisions
  <2> SUFFICES ASSUME Init PROVE Unresolved = {}
      BY DEF HeldRevisions
  <2>1. ops = <<>>
      BY DEF Init
  <2>2. DOMAIN ops = {}
      BY <2>1
  <2> QED BY <2>2 DEF Unresolved
<1>2. Typed /\ Core /\ HeldRevisions /\ [Next]_vars => HeldRevisions'
    BY HeldStep
<1>3. Typed /\ Core /\ HeldRevisions /\ [Next]_vars =>
        \A o \in DOMAIN ops \cap DOMAIN ops' :
            ops[o].kind = "names" /\ ops'[o].saved /\ ~ops[o].saved =>
                \A i \in ops[o].items : revision[i.result] = i.revision
    BY SavedByScripts DEF HeldRevisions
<1> QED BY <1>1, <1>2, <1>3, CoreHolds, PTL DEF Spec, DecisionsPreventWrites

\* An audit says "applied" only of what some operation saved.
THEOREM AuditTrue == Spec => AuditIsTrue
<1>1. ASSUME Typed, Core, [Next]_vars, NEW f \in Functions
      PROVE  /\ f \in marked' \ marked =>
                   \E o \in DOMAIN ops : ops[o].saved /\ Cur(f) \in ops[o].written
             /\ types'[f] = "applied" /\ types[f] # "applied" =>
                   \E o \in DOMAIN ops : /\ ops[o].kind = "types" /\ ops[o].saved
                                         /\ \E i \in ops[o].items : i.result = Cur(f)
  <2>1. CASE UNCHANGED audit
      BY <2>1 DEF audit
  <2>2. CASE Mark
    <3>1. SUFFICES ASSUME f \in marked' \ marked
                   PROVE  \E o \in DOMAIN ops : ops[o].saved /\ Cur(f) \in ops[o].written
        BY <2>2 DEF Mark
    <3>2. Mine.names # None /\ Cur(f) \in ops[Mine.names].written
        BY <2>2, <3>1 DEF Mark, WrittenNames
    <3>3. Mine.names \in DOMAIN ops
      <4>1. Mine.names \in Nat /\ Mine.names <= Len(ops)
          BY <1>1 DEF Mine, Typed, CycleTypes, HandlerSet, RowSet, Core, RowsRefer
      <4> QED BY <1>1, <3>2, <4>1, Shape, IsNumbered DEF Typed, None
    <3> QED BY <1>1, <3>2, <3>3 DEF Core, OpsStand
  <2>3. CASE TypesOutcome
    <3>1. Handles("types") /\ handler.op \in DOMAIN ops
        BY <1>1, <2>3, HandlesWhatItNames DEF TypesOutcome, At, ScriptAt
    <3>2. ASSUME types'[f] = "applied", types[f] # "applied"
          PROVE  ops[handler.op].status = "applied" /\ Cur(f) \in Mine.proposals
        BY <2>3, <3>2 DEF TypesOutcome, Outcome
    <3>3. Mine.proposals \subseteq ItemsOf(handler.op)
        BY <1>1, <3>1 DEF Handles, Core, RowsRefer, Mine, Typed, CycleTypes, HandlerSet, Live
    <3>4. marked' = marked
        BY <2>3 DEF TypesOutcome
    <3>5. ops[handler.op].status = "applied" => ops[handler.op].saved
        BY <1>1, <3>1 DEF Handles, Core, OpsStand
    <3> QED BY <3>1, <3>2, <3>3, <3>4, <3>5 DEF ItemsOf, Handles
  <2>4. CASE AssessRow \/ AssessDone \/ TypesRefused \/ LocalsDropped \/ IsolateReject
    <3>1. marked' = marked
        BY <2>4 DEF AssessRow, AssessDone, TypesRefused, LocalsDropped, IsolateReject
    <3>2. types'[f] # "applied" \/ types'[f] = types[f]
      <4>1. CASE AssessRow
          BY <1>1, <4>1 DEF AssessRow, Typed, ResultTypes
      <4>2. CASE ~AssessRow
          BY <2>4, <4>2 DEF AssessDone, TypesRefused, LocalsDropped, IsolateReject, Deferring, Outcome
      <4> QED BY <4>1, <4>2
    <3> QED BY <3>1, <3>2
  <2>5. ASSUME NEW g \in Functions, Replace(g)
        PROVE  marked' \subseteq marked /\ (types'[f] # "applied" \/ types'[f] = types[f])
      BY <1>1, <2>5 DEF Replace, Typed, ResultTypes
  <2>6. ASSUME NEW s \in Scopes, NEW g \in Functions, Answer(s, g)
        PROVE  UNCHANGED audit \/ Replace(g)
      BY <2>6 DEF Answer
  <2>7. ASSUME NEW g \in Functions, Correct(g)
        PROVE  Replace(g)
      BY <2>7 DEF Correct
  <2> QED BY <1>1, <2>1, <2>2, <2>3, <2>4, <2>5, <2>6, <2>7
        DEF Next, Requests, Ends, PhaseStep, Names, TypePlans, Refreshing, People, Ghidra, LateSave, vars,
            Ask, JobFails, Claim, Enter, Release, NamesPreview, NamesKeep, NamesAgain, NamesBegin,
            NamesSave, NamesRecord, NamesDone, TypesNothing, TypesAgain, TypesPreview, LocalsKeep,
            IsolateAccept, TypesKeep, TypesBegin, TypesSave, TypesExport, TypesDone, TrialSave, TrialRecord,
            RefreshExport, RefreshNothing, Select, FollowUp, Finish, PhaseFails, Control, ChooseScope,
            Review, Restart
<1>2. Typed /\ Core /\ [Next]_vars =>
        \A f \in Functions :
            /\ f \in marked' \ marked =>
                \E o \in DOMAIN ops : ops[o].saved /\ Cur(f) \in ops[o].written
            /\ types'[f] = "applied" /\ types[f] # "applied" =>
                \E o \in DOMAIN ops : /\ ops[o].kind = "types" /\ ops[o].saved
                                      /\ \E i \in ops[o].items : i.result = Cur(f)
    BY <1>1
<1> QED BY <1>2, CoreHolds, PTL DEF Spec, AuditIsTrue

-----------------------------------------------------------------------------
Concluding == {"refreshing", "reanalysis", "ended"}

Outcomes == {"deferred", "applied", "unchanged"}

\* A result there is, and one whose plan, if it still is the current one, has its outcome.
Known(r) == r[2] <= made[r[1]]

Concluded(r) == r = Cur(r[1]) => types[r[1]] \in Outcomes

DecidingAt == {"types decided", "keep without locals", "isolate"}

\* How the outcome of the plans is reached: those that the handler has dropped have theirs.
RowsDecided ==
    \A s \in Scopes : \A r \in cycle[s].proposals :
        Known(r) /\ (cycle[s].phase \in Concluding => Concluded(r))

HandlerDecides ==
    /\ At("types decided") => \A r \in Mine.proposals : Concluded(r)
    /\ handler.at \in {"keep without locals", "isolate"} =>
            \A r \in Mine.proposals \ handler.proposals : Concluded(r)

Deciding == RowsDecided /\ HandlerDecides

LEMMA ResultOf ==
    ASSUME ResultTypes, NEW r \in Results
    PROVE  /\ r[1] \in Functions /\ r = <<r[1], r[2]>> /\ r[2] \in Nat
           /\ r = Cur(r[1]) => r[1] \in Answered
<1>1. r[1] \in Functions /\ r = <<r[1], r[2]>> /\ r[2] \in 1 .. MaxResults
    BY DEF Results
<1>2. \A n \in 1 .. MaxResults : n \in Nat /\ n # 0
    BY RecoveryAssumption
<1> QED BY <1>1, <1>2 DEF Cur, Answered

\* A new result comes after all that are known.
LEMMA ReplaceKeeps ==
    ASSUME ResultTypes, NEW f \in Functions, Replace(f), NEW r \in Results, Known(r), Concluded(r)
    PROVE  Known(r)' /\ Concluded(r)'
<1>1. /\ made' = [made EXCEPT ![f] = @ + 1] /\ current' = [current EXCEPT ![f] = made[f] + 1]
      /\ made \in [Functions -> Nat] /\ current \in [Functions -> Nat]
    BY DEF Replace, ResultTypes
<1>2. types' = [types EXCEPT ![f] = ""] /\ types \in [Functions -> {"", "validated", "deferred", "applied", "unchanged"}]
    BY DEF Replace, ResultTypes
<1>3. r[1] \in Functions /\ r = <<r[1], r[2]>> /\ r[2] \in Nat /\ r[2] <= made[r[1]]
    BY ResultOf DEF Known
<1>4. CASE r[1] # f
  <2>1. made'[r[1]] = made[r[1]] /\ current'[r[1]] = current[r[1]]
      BY <1>1, <1>3, <1>4
  <2>2. types'[r[1]] = types[r[1]]
      BY <1>2, <1>3, <1>4
  <2> QED BY <1>3, <2>1, <2>2 DEF Known, Concluded, Cur
<1>5. CASE r[1] = f
  <2>1. made'[f] = made[f] + 1 /\ current'[f] = made[f] + 1
      BY <1>1
  <2>2. r[2] <= made[f] + 1 /\ r[2] # made[f] + 1
    <3>1. made[f] \in Nat /\ r[2] \in Nat /\ r[2] <= made[f]
        BY <1>1, <1>3, <1>5
    <3> QED BY <3>1, NextNumber
  <2> QED BY <1>3, <1>5, <2>1, <2>2 DEF Known, Concluded, Cur
<1> QED BY <1>4, <1>5

LEMMA ConcludedKeeps ==
    ASSUME Typed, [Next]_vars, NEW r \in Results, Known(r)
    PROVE  Known(r)' /\ (Concluded(r) => Concluded(r)')
<1>0. ResultTypes /\ r[1] \in Functions
    BY ResultOf DEF Typed
<1>1. CASE UNCHANGED <<current, made, types>>
    BY <1>1 DEF Known, Concluded, Cur
<1>2. ASSUME NEW f \in Functions, Replace(f) PROVE Known(r)' /\ (Concluded(r) => Concluded(r)')
  <2>1. Known(r)'
    <3>1. made'[r[1]] \in {made[r[1]], made[r[1]] + 1} /\ made[r[1]] \in Nat /\ r[2] \in Nat
        BY <1>0, <1>2, ResultOf DEF Replace, ResultTypes
    <3>2. \A n \in Nat : n <= made[r[1]] => n <= made[r[1]] + 1
        BY <3>1, NextNumber
    <3> QED BY <3>1, <3>2 DEF Known
  <2> QED BY <1>0, <1>2, <2>1, ReplaceKeeps
<1>3. ASSUME NEW s \in Scopes, NEW f \in Functions, Answer(s, f)
      PROVE  UNCHANGED <<current, made, types>> \/ Replace(f)
    BY <1>3 DEF Answer, audit
<1>4. ASSUME NEW f \in Functions, Correct(f) PROVE Replace(f)
    BY <1>4 DEF Correct
<1>5. CASE AssessRow
  <2>1. UNCHANGED <<current, made>>
      BY <1>5 DEF AssessRow
  <2>2. types'[r[1]] = types[r[1]] \/ types[r[1]] = ""
      BY <1>0, <1>5 DEF AssessRow, Unassessed, ResultTypes
  <2> QED BY <2>1, <2>2 DEF Known, Concluded, Cur, Outcomes
<1>6. CASE AssessDone \/ TypesRefused \/ LocalsDropped \/ IsolateReject \/ TypesOutcome
  <2>1. UNCHANGED <<current, made>>
      BY <1>6 DEF AssessDone, TypesRefused, LocalsDropped, IsolateReject, TypesOutcome, results
  <2>2. types'[r[1]] = types[r[1]] \/ types'[r[1]] \in Outcomes
      BY <1>0, <1>6 DEF AssessDone, TypesRefused, LocalsDropped, IsolateReject, TypesOutcome, Deferring,
         Outcome, Outcomes
  <2> QED BY <2>1, <2>2 DEF Known, Concluded, Cur
<1> QED BY <1>1, <1>2, <1>3, <1>4, <1>5, <1>6
        DEF Next, Requests, Ends, PhaseStep, Names, TypePlans, Refreshing, People, Ghidra, LateSave, vars, results, audit,
            Ask, JobFails, Claim, Enter, Release, NamesPreview, NamesKeep, NamesAgain, NamesBegin,
            NamesSave, NamesRecord, NamesDone, TypesNothing, TypesAgain, TypesPreview, LocalsKeep,
            IsolateAccept, TypesKeep, TypesBegin, TypesSave, TypesExport, TypesDone, TrialSave, TrialRecord,
            RefreshExport, RefreshNothing, Mark, Select, FollowUp, Finish, PhaseFails, Control, ChooseScope,
            Review, Restart

\* A step whose cycles have no new plans, and do not conclude.
LEMMA RowsStay ==
    ASSUME Typed, CycleTypes', RowsDecided, [Next]_vars,
           \A s \in Scopes :
                \/ cycle'[s].proposals = {}
                \/ /\ cycle'[s].proposals \subseteq cycle[s].proposals
                   /\ cycle'[s].phase \in Concluding => cycle[s].phase \in Concluding
    PROVE  RowsDecided'
<1>1. ASSUME NEW s \in Scopes, NEW r \in cycle'[s].proposals
      PROVE  Known(r)' /\ (cycle'[s].phase \in Concluding => Concluded(r)')
  <2>1. /\ r \in cycle[s].proposals
        /\ cycle'[s].phase \in Concluding => cycle[s].phase \in Concluding
      BY <1>1
  <2>2. r \in Results
      BY <1>1 DEF CycleTypes, RowSet
  <2>3. Known(r) /\ (cycle[s].phase \in Concluding => Concluded(r))
      BY <2>1 DEF RowsDecided
  <2> QED BY <2>1, <2>2, <2>3, ConcludedKeeps
<1> QED BY <1>1 DEF RowsDecided

LEMMA HandlerElsewhere ==
    ASSUME handler'.at \notin DecidingAt
    PROVE  HandlerDecides'
BY DEF HandlerDecides, DecidingAt, At

\* A step beside the cycles and the handler.
LEMMA DecidingBeside ==
    ASSUME Typed, Core, Deciding, [Next]_vars, UNCHANGED <<cycle, handler>>
    PROVE  Deciding'
<1>1. CycleTypes'
    BY DEF Typed, CycleTypes
<1>2. RowsDecided'
    BY <1>1, RowsStay DEF Deciding
<1>3. ASSUME NEW r \in Mine.proposals, handler.at \in DecidingAt PROVE Concluded(r) => Concluded(r)'
  <2>1. r \in Results /\ Known(r)
    <3>1. handler.scope \in Scopes /\ cycle[handler.scope] \in RowSet
        BY DEF Typed, CycleTypes, HandlerSet
    <3> QED BY <1>3, <3>1 DEF Mine, RowSet, Deciding, RowsDecided
  <2> QED BY <2>1, ConcludedKeeps
<1>4. HandlerDecides'
    BY <1>3 DEF Deciding, HandlerDecides, DecidingAt, At, Mine
<1> QED BY <1>2, <1>4 DEF Deciding

\* A step of the cycles that decides no plan.
LEMMA DecidingStays ==
    ASSUME Typed, CycleTypes', Deciding, [Next]_vars, handler'.at \notin DecidingAt,
           \A s \in Scopes :
                \/ cycle'[s].proposals = {}
                \/ /\ cycle'[s].proposals \subseteq cycle[s].proposals
                   /\ cycle'[s].phase \in Concluding => cycle[s].phase \in Concluding
    PROVE  Deciding'
BY RowsStay, HandlerElsewhere DEF Deciding

\* The cycle of the handler alone changes.
LEMMA OwnRow ==
    ASSUME Typed, NEW row, SetMine(row),
           \/ row.proposals = {}
           \/ /\ row.proposals \subseteq Mine.proposals
              /\ row.phase \in Concluding => Mine.phase \in Concluding
    PROVE  \A s \in Scopes :
                \/ cycle'[s].proposals = {}
                \/ /\ cycle'[s].proposals \subseteq cycle[s].proposals
                   /\ cycle'[s].phase \in Concluding => cycle[s].phase \in Concluding
BY DEF Typed, CycleTypes, SetMine, Mine

LEMMA PassesOnStay ==
    ASSUME Typed, Core, CycleTypes', Deciding, [Next]_vars,
           \/ Claim \/ Release \/ NamesPreview \/ NamesAgain \/ NamesBegin \/ NamesSave
           \/ NamesRecord \/ TypesAgain \/ TypesPreview \/ TypesBegin \/ TypesSave \/ TypesExport
           \/ RefreshExport \/ RefreshNothing \/ Select \/ Restart
    PROVE  Deciding'
<1>0. handler \in HandlerSet
    BY DEF Typed, CycleTypes
<1>1. UNCHANGED cycle
    BY DEF Claim, Release, NamesPreview, NamesAgain, NamesBegin, NamesSave, NamesRecord, TypesAgain,
       TypesPreview, TypesBegin, TypesSave, TypesExport, RefreshExport, RefreshNothing, Select, Restart
<1>2. handler'.at \notin DecidingAt
  <2>1. CASE Claim \/ Release \/ Restart
    <3>1. handler' = Idle \/ handler' = [Idle EXCEPT !.at = "claimed"]
        BY <2>1 DEF Claim, Release, Restart
    <3>2. handler'.at \in {"idle", "claimed"}
        BY <3>1 DEF Idle
    <3> QED BY <3>2 DEF DecidingAt
  <2>2. CASE Select
      BY <1>0, <2>2 DEF Select, HandlerSet, DecidingAt
  <2>3. CASE NamesPreview \/ NamesAgain \/ TypesAgain \/ TypesPreview
      BY <1>0, <2>3 DEF NamesPreview, NamesAgain, TypesAgain, TypesPreview, HandlerSet, DecidingAt
  <2>4. CASE NamesBegin \/ NamesSave \/ NamesRecord \/ TypesBegin \/ TypesSave \/ TypesExport
      BY <1>0, <2>4 DEF NamesBegin, NamesSave, NamesRecord, TypesBegin, TypesSave, TypesExport, HandlerSet,
         DecidingAt
  <2>5. CASE RefreshExport \/ RefreshNothing
      BY <1>0, <2>5 DEF RefreshExport, RefreshNothing, HandlerSet, DecidingAt
  <2> QED BY <2>1, <2>2, <2>3, <2>4, <2>5
<1> QED BY <1>1, <1>2, DecidingStays

LEMMA RowsOnStay ==
    ASSUME Typed, Core, CycleTypes', Deciding, [Next]_vars,
           \/ NamesKeep \/ NamesDone \/ TypesNothing \/ TypesKeep \/ Mark \/ Finish \/ PhaseFails
           \/ \E f \in Functions : TrialSave(f) \/ TrialRecord(f)
    PROVE  Deciding'
<1>0. handler \in HandlerSet /\ Mine \in RowSet
    BY DEF Typed, CycleTypes, HandlerSet, Mine
<1>1. handler'.at \notin DecidingAt
    BY <1>0 DEF NamesKeep, NamesDone, TypesNothing, TypesKeep, Mark, Finish, PhaseFails, TrialSave,
       TrialRecord, Proceed, Over, Idle, HandlerSet, DecidingAt, At
<1>2. ASSUME NEW row, SetMine(row), row.proposals \subseteq Mine.proposals,
             row.phase \in Concluding => Mine.phase \in Concluding
      PROVE  Deciding'
    BY <1>1, <1>2, OwnRow, DecidingStays
<1>3. CASE NamesKeep
    BY <1>0, <1>2, <1>3 DEF NamesKeep, RowSet
<1>4. CASE TypesKeep
    BY <1>0, <1>2, <1>4 DEF TypesKeep, RowSet
<1>5. CASE NamesDone
    BY <1>0, <1>2, <1>5 DEF NamesDone, Proceed, RowSet, Concluding
<1>6. CASE TypesNothing
    BY <1>0, <1>1, <1>6, OwnRow, DecidingStays DEF TypesNothing, Proceed, RowSet
<1>7. CASE Mark
  <2>1. Mine.phase \in Concluding
      BY <1>7 DEF Mark, At, Core, HandlerHere, RefreshAt, Concluding
  <2> QED BY <1>0, <1>2, <1>7, <2>1 DEF Mark, Proceed, RowSet
<1>8. CASE Finish
  <2>1. Mine.phase \in Concluding
      BY <1>8 DEF Finish, At, Core, HandlerHere, SelectAt, Concluding
  <2> QED BY <1>0, <1>2, <1>8, <2>1 DEF Finish, Proceed, RowSet
<1>9. CASE PhaseFails
  <2>1. SetMine(CountedFailure)
      BY <1>9 DEF PhaseFails
  <2>2. /\ CountedFailure.proposals = Mine.proposals
        /\ CountedFailure.phase \in {Mine.phase, "failed"}
      BY <1>0 DEF CountedFailure, RowSet
  <2>3. CountedFailure.phase \in Concluding => Mine.phase \in Concluding
      BY <2>2 DEF Concluding
  <2> QED BY <1>2, <2>1, <2>2, <2>3
<1>10. ASSUME NEW f \in Functions, TrialSave(f) \/ TrialRecord(f) PROVE Deciding'
  <2>1. PICK outcome : SetMine([Mine EXCEPT !.trials[f] = outcome])
      BY <1>10 DEF TrialSave, TrialRecord
  <2> QED BY <1>0, <1>2, <2>1 DEF RowSet
<1> QED BY <1>3, <1>4, <1>5, <1>6, <1>7, <1>8, <1>9, <1>10

LEMMA EntersDecided ==
    ASSUME Typed, CycleTypes', Deciding, [Next]_vars, Enter \/ FollowUp
    PROVE  Deciding'
<1>1. CASE Enter
  <2>1. /\ handler'.at \notin DecidingAt
        /\ cycle' = cycle \/ cycle' = [cycle EXCEPT ![active] = Row(runs, "assessing", 0)]
    <3>1. cycle' = cycle \/ cycle' = [cycle EXCEPT ![active] = Row(runs, "assessing", 0)]
        BY <1>1 DEF Enter, Typed, CycleTypes
    <3>2. handler'.at \notin DecidingAt
      <4>1. active \in Scopes /\ cycle[active] \in RowSet
        <5>1. active \in Scopes
            BY ScopesAreNat, RecoveryAssumption DEF Typed, QueueTypes, Scopes
        <5> QED BY <5>1 DEF Typed, CycleTypes
      <4>2. handler'.at \in {"done", "assessing", cycle[active].phase}
          BY <1>1 DEF Enter, Idle, Row
      <4> QED BY <4>1, <4>2 DEF RowSet, Live, Ended, DecidingAt
    <3> QED BY <3>1, <3>2
  <2>2. Row(runs, "assessing", 0).proposals = {}
      BY DEF Row
  <2> QED BY <2>1, <2>2, DecidingStays DEF Typed, CycleTypes
<1>2. CASE FollowUp
  <2>1. handler'.at \notin DecidingAt
      BY <1>2 DEF FollowUp, Over, Idle, DecidingAt
  <2>2. \E row : /\ row.proposals = {}
                 /\ cycle' = [cycle EXCEPT ![runs'] = row, ![handler.scope] = Absent]
      BY <1>2 DEF FollowUp, Row
  <2>3. Absent.proposals = {}
      BY DEF Absent, Row
  <2> QED BY <2>1, <2>2, <2>3, DecidingStays DEF Typed, CycleTypes
<1> QED BY <1>1, <1>2

\* The type plans get their outcomes.
LEMMA OutcomeGiven ==
    ASSUME ResultTypes, NEW rs, NEW outcome \in Outcomes, Outcome(rs, outcome), UNCHANGED current
    PROVE  \A r \in Results : r \in rs => Concluded(r)'
<1>1. ASSUME NEW r \in Results, r \in rs, r = Cur(r[1])' PROVE types'[r[1]] \in Outcomes
  <2>1. r[1] \in Answered /\ r[1] \in Functions /\ Cur(r[1]) = r
      BY <1>1, ResultOf DEF Cur
  <2> QED BY <1>1, <2>1 DEF Outcome
<1> QED BY <1>1 DEF Concluded

LEMMA AssessesDecided ==
    ASSUME Typed, Core, CycleTypes', Deciding, [Next]_vars, AssessDone
    PROVE  Deciding'
<1>1. PICK kept \in SUBSET Validated : SetMine([Mine EXCEPT !.phase = "names", !.proposals = kept])
    BY DEF AssessDone
<1>2. handler'.at \notin DecidingAt /\ UNCHANGED made
    BY DEF AssessDone, Over, Idle, DecidingAt, results
<1>3. \A r \in Validated : Known(r)
  <2>1. ASSUME NEW g \in Answered PROVE Known(Cur(g))
      BY <2>1 DEF Cur, Known, Answered, Typed, ResultTypes
  <2> QED BY <2>1 DEF Validated
<1>4. \A r \in kept : Known(r)'
    BY <1>1, <1>2, <1>3 DEF Known
<1>5. handler.scope \in Scopes /\ Mine \in RowSet /\ cycle \in [Scopes -> RowSet]
    BY DEF Typed, CycleTypes, HandlerSet, Mine
<1>6. /\ \A s \in Scopes \ {handler.scope} : cycle'[s] = cycle[s]
      /\ cycle'[handler.scope].proposals = kept /\ cycle'[handler.scope].phase \notin Concluding
    BY <1>1, <1>5 DEF SetMine, RowSet, Concluding
<1>7. ASSUME NEW s \in Scopes \ {handler.scope}, NEW r \in cycle[s].proposals
      PROVE  Known(r)' /\ (cycle[s].phase \in Concluding => Concluded(r)')
  <2>1. r \in Results /\ Known(r) /\ (cycle[s].phase \in Concluding => Concluded(r))
      BY <1>5, <1>7 DEF Deciding, RowsDecided, RowSet
  <2> QED BY <2>1, ConcludedKeeps
<1>8. RowsDecided'
    BY <1>4, <1>6, <1>7 DEF RowsDecided
<1> QED BY <1>2, <1>8, HandlerElsewhere DEF Deciding

\* The handler defers plans, or all have the outcome of their operation.
LEMMA OutcomesDecided ==
    ASSUME Typed, Core, CycleTypes', Deciding, [Next]_vars,
           TypesRefused \/ LocalsDropped \/ IsolateReject \/ TypesOutcome
    PROVE  Deciding'
<1>1. UNCHANGED <<cycle, current>>
    BY DEF TypesRefused, LocalsDropped, IsolateReject, TypesOutcome, results
<1>2. RowsDecided'
    BY <1>1, RowsStay DEF Deciding
<1>3. /\ handler \in HandlerSet /\ handler.scope \in Scopes /\ Mine \in RowSet
      /\ \A r \in Mine.proposals : r \in Results /\ Known(r)
    BY DEF Typed, CycleTypes, HandlerSet, Mine, RowSet, Deciding, RowsDecided
<1>4. /\ handler.at \in {"types", "types without locals"} => handler.proposals = Mine.proposals
      /\ handler.at \in TriesAt => handler.proposals \subseteq Mine.proposals
    BY DEF Core, HandlerRefers
<1>5. handler'.scope = handler.scope /\ Mine' = Mine
  <2>1. handler'.scope = handler.scope
      BY <1>3 DEF TypesRefused, LocalsDropped, IsolateReject, TypesOutcome, HandlerSet
  <2> QED BY <1>1, <2>1 DEF Mine
\* What was concluded before, and what is deferred now, is concluded.
<1>6. ASSUME NEW rs, NEW outcome \in Outcomes, Outcome(rs, outcome),
             NEW r \in Mine.proposals, Concluded(r) \/ r \in rs
      PROVE  Concluded(r)'
    BY <1>1, <1>3, <1>6, OutcomeGiven, ConcludedKeeps DEF Typed
<1>7. CASE TypesOutcome
  <2>1. PICK outcome \in Outcomes : Outcome(Mine.proposals, outcome)
      BY <1>7 DEF TypesOutcome, Outcomes
  <2>2. handler'.at = "types decided"
      BY <1>3, <1>7 DEF TypesOutcome, HandlerSet
  <2> QED BY <1>2, <1>5, <1>6, <2>1, <2>2 DEF Deciding, HandlerDecides, At
<1>8. CASE TypesRefused
  <2>1. PICK rs : Outcome(rs, "deferred") /\ Mine.proposals \subseteq rs
      BY <1>4, <1>8 DEF TypesRefused, Deferring, Previewing, At
  <2>2. handler'.at = "types decided"
      BY <1>3, <1>8 DEF TypesRefused, HandlerSet
  <2>3. \A r \in Mine.proposals : Concluded(r)'
      BY <1>6, <2>1 DEF Outcomes
  <2> QED BY <1>2, <1>5, <2>2, <2>3 DEF Deciding, HandlerDecides, At
<1>9. CASE LocalsDropped \/ IsolateReject
  <2>1. PICK rs \in SUBSET handler.proposals :
            /\ Outcome(rs, "deferred")
            /\ handler'.at \in {"keep without locals", "isolate"}
            /\ handler'.proposals = handler.proposals \ rs
    <3>1. CASE LocalsDropped
        BY <1>3, <1>9, <3>1 DEF LocalsDropped, Deferring, HandlerSet
    <3>2. CASE IsolateReject
      <4>1. PICK x \in handler.proposals :
                /\ Deferring({x})
                /\ handler' = [handler EXCEPT !.at = "isolate", !.proposals = @ \ {x}]
          BY <3>2 DEF IsolateReject
      <4>2. {x} \in SUBSET handler.proposals
          BY <4>1
      <4> QED BY <1>3, <4>1, <4>2 DEF Deferring, HandlerSet
    <3> QED BY <1>9, <3>1, <3>2
  <2>2. \A r \in Mine.proposals \ handler.proposals : Concluded(r)
      BY <1>4, <1>9 DEF LocalsDropped, IsolateReject, Previewing, At, Deciding, HandlerDecides
  <2>3. \A r \in Mine.proposals \ handler'.proposals : Concluded(r)'
      BY <1>6, <2>1, <2>2 DEF Outcomes
  <2> QED BY <1>2, <1>5, <2>1, <2>3 DEF Deciding, HandlerDecides, At
<1> QED BY <1>7, <1>8, <1>9

\* The plans that are left are stored with the cycle, or none is left.
LEMMA KeepsDecided ==
    ASSUME Typed, Core, CycleTypes', Deciding, [Next]_vars, LocalsKeep \/ IsolateAccept
    PROVE  Deciding'
<1>1. handler \in HandlerSet /\ handler.scope \in Scopes /\ Mine \in RowSet
    BY DEF Typed, CycleTypes, HandlerSet, Mine
<1>2. /\ SetMine([Mine EXCEPT !.proposals = handler.proposals])
      /\ handler.proposals \subseteq Mine.proposals
    BY DEF LocalsKeep, IsolateAccept, Core, HandlerRefers, At, TriesAt
<1>3. RowsDecided'
  <2> DEFINE row == [Mine EXCEPT !.proposals = handler.proposals]
  <2>1. row.proposals \subseteq Mine.proposals /\ row.phase = Mine.phase /\ SetMine(row)
      BY <1>1, <1>2 DEF RowSet
  <2> HIDE DEF row
  <2> QED BY <2>1, OwnRow, RowsStay DEF Deciding
<1>4. handler'.scope = handler.scope
    BY <1>1 DEF LocalsKeep, IsolateAccept, HandlerSet
<1>5. \/ handler'.at \notin DecidingAt
      \/ handler'.at = "types decided" /\ handler.proposals = {}
  <2>1. CASE LocalsKeep
      BY <1>1, <2>1 DEF LocalsKeep, HandlerSet, DecidingAt
  <2>2. CASE IsolateAccept
      BY <1>1, <2>2 DEF IsolateAccept, HandlerSet, DecidingAt
  <2> QED BY <2>1, <2>2
<1>6. Mine'.proposals = handler.proposals
    BY <1>1, <1>2, <1>4 DEF SetMine, Mine, Typed, CycleTypes, RowSet
<1>7. HandlerDecides'
    BY <1>5, <1>6 DEF HandlerDecides, DecidingAt, At
<1> QED BY <1>3, <1>7 DEF Deciding

LEMMA DoneDecided ==
    ASSUME Typed, Core, CycleTypes', Deciding, [Next]_vars, TypesDone
    PROVE  Deciding'
<1>1. handler \in HandlerSet /\ handler.scope \in Scopes /\ Mine \in RowSet /\ cycle \in [Scopes -> RowSet]
    BY DEF Typed, CycleTypes, HandlerSet, Mine
<1>2. handler'.at \notin DecidingAt /\ \A r \in Mine.proposals : Concluded(r)
    BY DEF TypesDone, Proceed, Over, Idle, DecidingAt, At, Deciding, HandlerDecides
<1>3. /\ \A s \in Scopes \ {handler.scope} : cycle'[s] = cycle[s]
      /\ cycle'[handler.scope].proposals = Mine.proposals
    BY <1>1 DEF TypesDone, Proceed, SetMine, RowSet
<1>4. ASSUME NEW s \in Scopes, NEW r \in cycle'[s].proposals
      PROVE  Known(r)' /\ (cycle'[s].phase \in Concluding => Concluded(r)')
  <2>1. r \in cycle[s].proposals /\ r \in Results /\ Known(r)
      BY <1>1, <1>3, <1>4 DEF Mine, RowSet, Deciding, RowsDecided
  <2>2. cycle'[s].phase \in Concluding => Concluded(r)
      BY <1>2, <1>3, <1>4, <2>1 DEF Deciding, RowsDecided
  <2> QED BY <2>1, <2>2, ConcludedKeeps
<1>5. RowsDecided'
    BY <1>4 DEF RowsDecided
<1> QED BY <1>2, <1>5, HandlerElsewhere DEF Deciding

LEMMA DecidingStep ==
    ASSUME Typed, Core, CycleTypes', Deciding, [Next]_vars
    PROVE  Deciding'
<1>1. CASE UNCHANGED vars \/ Requests \/ People \/ AssessRow \/ Ghidra
  <2>1. UNCHANGED <<cycle, handler>>
      BY <1>1 DEF vars, Requests, Ask, Ends, Answer, JobFails, People, Control, ChooseScope, Review,
         Correct, AssessRow, Ghidra, LateSave
  <2> QED BY <2>1, DecidingBeside
<1> QED BY <1>1, PassesOnStay, RowsOnStay, EntersDecided, AssessesDecided, OutcomesDecided, KeepsDecided,
           DoneDecided
        DEF Next, PhaseStep, Names, TypePlans, Refreshing

\* Every type plan that a pass took up has its outcome when the pass goes on to the export.
THEOREM ProposalsDecided == Spec => []ProposalsAreDecided
<1>1. Init => Deciding
  <2> SUFFICES ASSUME Init PROVE Deciding
      OBVIOUS
  <2>1. /\ \A s \in Scopes : cycle[s] = Absent
        /\ handler.at = "idle"
      BY DEF Init, Idle
  <2> QED BY <2>1 DEF Deciding, RowsDecided, HandlerDecides, Absent, Row, At
<1>2. Typed /\ Core /\ (Typed /\ Core)' /\ Deciding /\ [Next]_vars => Deciding'
    BY DecidingStep DEF Typed
<1>3. Deciding => ProposalsAreDecided
    BY DEF Deciding, RowsDecided, Concluded, Concluding, Outcomes, ProposalsAreDecided
<1> QED BY <1>1, <1>2, <1>3, CoreHolds, PTL DEF Spec

-----------------------------------------------------------------------------
\* Who still has to export the change of a function: the cycle that wrote its name, saved its
\* types or tried its parameters, until it has exported them, or gave up.
OwesNames(s, f) ==
    /\ cycle[s].phase \in {"names", "types", "refreshing"} /\ cycle[s].names # None
    /\ f \in FunctionsOf(ops[cycle[s].names].written)
    /\ cycle[s].types = None \/ ops[cycle[s].types].status # "applied"

OwesTypes(s, f) ==
    /\ cycle[s].phase = "types" /\ cycle[s].types # None
    /\ ops[cycle[s].types].saved /\ ops[cycle[s].types].status # "applied"
    /\ f \in FunctionsOf(ItemsOf(cycle[s].types))

Tried == {"saved changed", "changed"}

OwesTrial(s, f) == cycle[s].phase = "refreshing" /\ cycle[s].trials[f] \in Tried

Owes(s, f) ==
    cycle[s].phase = "failed" \/ OwesNames(s, f) \/ OwesTypes(s, f) \/ OwesTrial(s, f)

TakenOver(f) == Cur(f) \in taken

ChangesOwed == \A f \in unexported : TakenOver(f) \/ \E s \in Scopes : Owes(s, f)

\* A cycle that is about to conclude owes nothing any more.
PaidAtMark ==
    At("mark") => \A f \in unexported :
        TakenOver(f) \/ \E s \in Scopes \ {handler.scope} : Owes(s, f)

\* What an earlier attempt has tried is tried again, or is a person's by now.
TrialsSeen ==
    /\ \A s \in Scopes, f \in Functions : cycle[s].trials[f] # "none" => f \in Answered
    /\ At("refreshing") =>
        /\ handler.todo \subseteq Answered
        /\ \A f \in Functions : Mine.trials[f] \in Tried =>
                f \in handler.todo \/ handler.changed \/ TakenOver(f)

UnchangedUnsaved == \A o \in DOMAIN ops : ops[o].status = "unchanged" => ~ops[o].saved

Debts == ChangesOwed /\ PaidAtMark /\ TrialsSeen /\ UnchangedUnsaved

\* What a person has taken over stays theirs, and an answered function stays answered.
LEMMA TakenStays ==
    ASSUME Typed, [Next]_vars, NEW f \in Functions
    PROVE  (TakenOver(f) => TakenOver(f)') /\ (f \in Answered => f \in Answered')
<1>0. ResultTypes
    BY DEF Typed
<1>1. CASE UNCHANGED <<current, taken>>
    BY <1>1 DEF TakenOver, Cur, Answered
<1>2. ASSUME NEW g \in Functions, Replace(g) PROVE f \in Answered => f \in Answered'
  <2>1. current' = [current EXCEPT ![g] = made[g] + 1] /\ made[g] \in Nat
      BY <1>0, <1>2 DEF Replace, ResultTypes
  <2>2. made[g] + 1 # 0
      BY <2>1
  <2> QED BY <1>0, <2>1, <2>2 DEF Answered, ResultTypes
<1>3. ASSUME NEW s \in Scopes, NEW g \in Functions, Answer(s, g)
      PROVE  UNCHANGED <<current, taken>> \/ (Replace(g) /\ UNCHANGED taken /\ Cur(g) \notin taken)
    BY <1>3 DEF Answer
<1>4. ASSUME NEW g \in Functions, Replace(g), UNCHANGED taken, Cur(g) \notin taken
      PROVE  TakenOver(f) => TakenOver(f)'
  <2>1. current' = [current EXCEPT ![g] = made[g] + 1]
      BY <1>4 DEF Replace
  <2> QED BY <1>0, <1>4, <2>1 DEF TakenOver, Cur, ResultTypes
<1>5. ASSUME NEW g \in Functions, Correct(g)
      PROVE  Replace(g) /\ (TakenOver(f) => TakenOver(f)')
  <2>1. /\ Replace(g) /\ current' = [current EXCEPT ![g] = made[g] + 1]
        /\ taken' = taken \cup {<<g, made[g] + 1>>}
      BY <1>5 DEF Correct, Replace
  <2> QED BY <1>0, <2>1 DEF TakenOver, Cur, ResultTypes
<1>6. ASSUME NEW g \in Functions, Review(g) PROVE UNCHANGED current /\ taken \subseteq taken'
    BY <1>6 DEF Review
<1>7. CASE \E g \in Functions : Review(g)
    BY <1>6, <1>7 DEF TakenOver, Cur, Answered
<1> QED BY <1>1, <1>2, <1>3, <1>4, <1>5, <1>7
        DEF Next, Requests, Ends, PhaseStep, Names, TypePlans, Refreshing, People, Ghidra, LateSave, vars, results,
            Ask, JobFails, Claim, Enter, Release, AssessRow, AssessDone, NamesPreview, NamesKeep, NamesAgain,
            NamesBegin, NamesSave, NamesRecord, NamesDone, TypesNothing, TypesAgain, TypesPreview,
            TypesRefused, LocalsDropped, LocalsKeep, IsolateReject, IsolateAccept, TypesKeep, TypesBegin,
            TypesSave, TypesExport, TypesOutcome, TypesDone, TrialSave, TrialRecord,
            RefreshExport, RefreshNothing, Mark, Select, FollowUp, Finish, PhaseFails, Control, ChooseScope,
            Restart

\* The operations that a cycle at work names keep what they are.
LEMMA NamedOps ==
    ASSUME Typed, Core, NEW s \in Scopes, cycle[s].phase \in Live
    PROVE  /\ cycle[s].names # None => /\ cycle[s].names \in DOMAIN ops
                                       /\ ops[cycle[s].names].kind = "names"
           /\ cycle[s].types # None => /\ cycle[s].types \in DOMAIN ops
                                       /\ ops[cycle[s].types].kind = "types"
<1>1. cycle[s].names \in Nat /\ cycle[s].types \in Nat /\ Len(ops) \in Nat /\ DOMAIN ops = 1 .. Len(ops)
    BY Shape DEF Typed, CycleTypes, RowSet
<1>2. /\ cycle[s].names <= Len(ops) /\ cycle[s].types <= Len(ops)
      /\ cycle[s].names # None => ops[cycle[s].names].kind = "names"
      /\ cycle[s].types # None => ops[cycle[s].types].kind = "types"
    BY DEF Core, RowsRefer
<1> QED BY <1>1, <1>2, IsNumbered DEF None

Keeps(o) ==
    /\ o \in DOMAIN ops' /\ ops[o].written \subseteq ops'[o].written
    /\ ops'[o].items = ops[o].items /\ (ops[o].saved => ops'[o].saved)

LEMMA AtHand ==
    ASSUME Typed, Core, handler.at \in SavesAt \cup {"apply names", "apply types"}
    PROVE  handler.op \in DOMAIN ops /\ ops[handler.op] \in OpSet
BY HandlesWhatItNames DEF SavesAt, ScriptAt

LEMMA OpsKeep ==
    ASSUME Typed, Core, [Next]_vars, ~TypesExport, NEW s \in Scopes, cycle[s].phase \in Live,
           ~((FollowUp \/ Finish) /\ s = handler.scope)
    PROVE  /\ cycle[s].names # None => Keeps(cycle[s].names)
           /\ cycle[s].types # None =>
                /\ Keeps(cycle[s].types)
                /\ ops[cycle[s].types].status # "applied" => ops'[cycle[s].types].status # "applied"
<1> DEFINE n == cycle[s].names
           t == cycle[s].types
<1>0. /\ n # None => n \in DOMAIN ops /\ ops[n] \in OpSet /\ ops[n].kind = "names"
      /\ t # None => t \in DOMAIN ops /\ ops[t] \in OpSet /\ ops[t].kind = "types"
      /\ ops \in Seq(OpSet) /\ DOMAIN ops = 1 .. Len(ops) /\ Len(ops) \in Nat
    BY NamedOps, Shape DEF Typed, OpsShape
<1> HIDE DEF n, t
<1> SUFFICES /\ n # None => Keeps(n)
             /\ t # None => Keeps(t) /\ (ops[t].status # "applied" => ops'[t].status # "applied")
    BY DEF n, t
<1> DEFINE Same(o) == /\ o \in DOMAIN ops' /\ ops'[o].written = ops[o].written
                      /\ ops'[o].items = ops[o].items /\ ops'[o].saved = ops[o].saved
                      /\ ops[o].status # "applied" => ops'[o].status # "applied"
<1>1. \A o : Same(o) => Keeps(o)
    BY DEF Keeps
<1>2. ASSUME (n # None => Same(n)) /\ (t # None => Same(t))
      PROVE  /\ n # None => Keeps(n)
             /\ t # None => Keeps(t) /\ (ops[t].status # "applied" => ops'[t].status # "applied")
    BY <1>1, <1>2
<1>3. CASE ops' = ops
    BY <1>0, <1>2, <1>3
<1>4. CASE NamesPreview \/ TypesPreview \/ IsolateAccept
  <2>1. ops' = ops \/ \E op : ops' = Append(ops, op)
      BY <1>4 DEF NamesPreview, TypesPreview, IsolateAccept, Previewed
  <2>2. ASSUME NEW op, NEW o \in DOMAIN ops, ops' = Append(ops, op) PROVE ops'[o] = ops[o] /\ o \in DOMAIN ops'
    <3>1. ops'[o] = ops[o]
        BY <1>0, <2>2, AppendedEntry
    <3>2. ops \in Seq(OpSet \cup {op}) /\ op \in OpSet \cup {op}
        BY <1>0, SeqMonotonic
    <3>3. ops' \in Seq(OpSet \cup {op}) /\ Len(ops') = Len(ops) + 1
        BY <2>2, <3>2, AppendProperties
    <3>4. DOMAIN ops' = 1 .. Len(ops) + 1
        BY <3>3, LenProperties
    <3> QED BY <1>0, <3>1, <3>4, NextNumber
  <2> QED BY <1>0, <1>2, <1>3, <2>1, <2>2
<1>5. CASE NamesBegin \/ TypesBegin
  <2>1. ops' = [ops EXCEPT ![handler.op].status = "applying", ![handler.op].begun = Pass]
      BY <1>5 DEF NamesBegin, TypesBegin, Begin
  <2>2. \A o \in DOMAIN ops : Same(o)
      BY <1>0, <2>1, Shape DEF Typed, OpSet
  <2> QED BY <1>0, <1>2, <2>2
<1>6. CASE NamesRecord
  <2>1. \E status : ops' = [ops EXCEPT ![handler.op].status = status]
      BY <1>6 DEF NamesRecord, SetOp
  <2>2. ops[handler.op].kind = "names"
      BY <1>6, HandlesWhatItNames DEF NamesRecord, At, ScriptAt, Handles
  <2>3. \A o \in DOMAIN ops : Keeps(o) /\ (o # handler.op => ops'[o] = ops[o])
      BY <1>0, <2>1, Shape DEF Typed, OpSet, Keeps
  <2> QED BY <1>0, <2>2, <2>3
<1>7. CASE NamesSave
  <2>1. ops' = ops \/ /\ ~ops[handler.op].saved
                      /\ \E w : ops' = [ops EXCEPT ![handler.op].saved = TRUE, ![handler.op].written = w]
      BY <1>7 DEF NamesSave, SavesNames
  <2>2. ops[handler.op].kind = "names" /\ handler.op \in DOMAIN ops /\ ops[handler.op] \in OpSet
      BY <1>7, HandlesWhatItNames DEF NamesSave, At, ScriptAt, Handles
  <2>3. ~ops[handler.op].saved => ops[handler.op].written = {}
      BY <2>2 DEF Core, OpsStand
  <2>4. \A o \in DOMAIN ops : Keeps(o) /\ (o # handler.op => ops'[o] = ops[o])
    <3>1. CASE ops' = ops
        BY <1>0, <3>1 DEF Keeps
    <3>2. ASSUME NEW w, ~ops[handler.op].saved,
                 ops' = [ops EXCEPT ![handler.op].saved = TRUE, ![handler.op].written = w]
          PROVE  \A o \in DOMAIN ops : Keeps(o) /\ (o # handler.op => ops'[o] = ops[o])
      <4>1. \A o \in DOMAIN ops \ {handler.op} : ops'[o] = ops[o] /\ o \in DOMAIN ops'
          BY <1>0, <3>2
      <4>2. /\ handler.op \in DOMAIN ops' /\ ops'[handler.op].items = ops[handler.op].items
            /\ ops[handler.op].written = {}
          BY <1>0, <2>2, <2>3, <3>2 DEF OpSet
      <4> QED BY <3>2, <4>1, <4>2 DEF Keeps
    <3> QED BY <2>1, <3>1, <3>2
  <2> QED BY <1>0, <2>2, <2>4
<1>8. CASE TypesSave
  <2>1. ops' = ops \/ ops' = [ops EXCEPT ![handler.op].saved = TRUE]
      BY <1>8 DEF TypesSave, SavesTypes
  <2>2. \A o \in DOMAIN ops : Keeps(o) /\ ops'[o].status = ops[o].status
      BY <1>0, <2>1, Shape DEF Typed, OpSet, Keeps
  <2> QED BY <1>0, <2>2
<1>9. CASE PhaseFails \/ Restart
  <2>1. ops' = BrokenOff
      BY <1>9 DEF PhaseFails, Restart
  <2>2. (n # None => n \in DOMAIN ops') /\ (t # None => t \in DOMAIN ops')
      BY <2>1, BrokenOps DEF n, t
  <2>3. \A o \in DOMAIN ops' : Same(o)
      BY <2>1, BrokenOps
  <2> QED BY <1>2, <2>2, <2>3
<1>10. CASE FollowUp \/ Finish
  <2>1. Forget /\ Mine.phase \in Live
      BY <1>10 DEF FollowUp, Finish, At, Core, HandlerHere, SelectAt, Live
  <2>2. s # handler.scope
      BY <1>10
  <2>3. (n # None => ops'[n] = ops[n]) /\ (t # None => ops'[t] = ops[t]) /\ DOMAIN ops' = DOMAIN ops
      BY <2>1, <2>2, ForgottenOps DEF n, t
  <2> QED BY <1>0, <1>2, <2>3
<1>11. CASE Ghidra
  <2>1. PICK o \in DOMAIN ops : LateSave(o)
      BY <1>11 DEF Ghidra
  <2>2. ops[o].written = {}
    <3>1. ~ops[o].saved
        BY <2>1, LateSaveIs
    <3> QED BY <3>1 DEF Core, OpsStand
  <2>3. \A p \in DOMAIN ops : Keeps(p) /\ ops'[p].status = ops[p].status
      BY <2>1, <2>2, LateSaveLeaves DEF Keeps
  <2> QED BY <1>0, <2>3
<1> HIDE DEF Same
<1> QED BY <1>3, <1>4, <1>5, <1>6, <1>7, <1>8, <1>9, <1>10, <1>11
        DEF Next, Requests, Ends, PhaseStep, Names, TypePlans, Refreshing, People, vars,
            Ask, Answer, JobFails, Claim, Enter, Release, NamesKeep, NamesAgain, AssessRow, AssessDone,
            NamesDone, TypesNothing, TypesAgain, LocalsKeep, TypesRefused, LocalsDropped,
            IsolateReject, TypesOutcome, TypesKeep, TypesDone, TrialSave, TrialRecord, RefreshExport,
            RefreshNothing, Mark, Select, Control, ChooseScope, Review, Correct

\* What a step makes of the row of a cycle.
LEMMA OwnSteps ==
    ASSUME Typed, Core, [Next]_vars, NEW s \in Scopes, cycle'[s] # cycle[s]
    PROVE  \/ Enter /\ s = active /\ cycle[s].phase = "absent"
           \/ FollowUp /\ s \in {runs', handler.scope}
           \/ /\ s = handler.scope
              /\ \/ AssessDone \/ NamesKeep \/ NamesDone \/ TypesNothing \/ LocalsKeep \/ IsolateAccept
                 \/ TypesKeep \/ TypesDone \/ Mark \/ Finish \/ PhaseFails
                 \/ \E f \in Functions : TrialSave(f) \/ TrialRecord(f)
<1>0. cycle \in [Scopes -> RowSet]
    BY DEF Typed, CycleTypes
<1>1. CASE Enter
    BY <1>0, <1>1 DEF Enter
<1>2. CASE FollowUp
    BY <1>0, <1>2 DEF FollowUp
<1>3. CASE \/ AssessDone \/ NamesKeep \/ NamesDone \/ TypesNothing \/ LocalsKeep \/ IsolateAccept
           \/ TypesKeep \/ TypesDone \/ Mark \/ Finish \/ PhaseFails
           \/ \E f \in Functions : TrialSave(f) \/ TrialRecord(f)
  <2>1. \E row : SetMine(row)
      BY <1>3 DEF AssessDone, NamesKeep, NamesDone, TypesNothing, LocalsKeep, IsolateAccept, TypesKeep,
         TypesDone, Mark, Finish, PhaseFails, TrialSave, TrialRecord, Proceed
  <2>2. s = handler.scope
      BY <1>0, <2>1 DEF SetMine
  <2> QED BY <1>3, <2>2
<1> QED BY <1>1, <1>2, <1>3
        DEF Next, Requests, Ends, PhaseStep, Names, TypePlans, Refreshing, People, Ghidra, LateSave, vars,
            Ask, Answer, JobFails, Claim, Release, NamesPreview, NamesAgain, NamesBegin, NamesSave,
            NamesRecord, AssessRow, TypesAgain, TypesPreview, TypesRefused, LocalsDropped, IsolateReject,
            TypesBegin, TypesSave, TypesExport, TypesOutcome, RefreshExport, RefreshNothing, Select,
            Control, ChooseScope, Review, Correct, Restart

\* A cycle whose row is left alone goes on owing what it owes.
LEMMA OwesAlike ==
    ASSUME Typed, Core, [Next]_vars, ~TypesExport, NEW s \in Scopes, NEW f \in Functions, Owes(s, f),
           cycle'[s] = cycle[s]
    PROVE  Owes(s, f)'
<1>1. CASE cycle[s].phase = "failed"
    BY <1>1 DEF Owes
<1>2. CASE cycle[s].phase \in {"names", "types", "refreshing"}
  <2>1. /\ cycle[s].names # None => Keeps(cycle[s].names)
        /\ cycle[s].types # None =>
            /\ Keeps(cycle[s].types)
            /\ ops[cycle[s].types].status # "applied" => ops'[cycle[s].types].status # "applied"
    <3>1. cycle[s].phase \in Live /\ ~((FollowUp \/ Finish) /\ s = handler.scope)
        BY <1>2 DEF Live, FollowUp, Finish, At, Core, HandlerHere, SelectAt, Mine
    <3> QED BY <3>1, OpsKeep
  <2>2. OwesNames(s, f) => OwesNames(s, f)'
      BY <2>1 DEF OwesNames, Keeps, FunctionsOf
  <2>3. OwesTypes(s, f) => OwesTypes(s, f)'
      BY <2>1 DEF OwesTypes, Keeps, FunctionsOf, ItemsOf
  <2>4. OwesTrial(s, f) => OwesTrial(s, f)'
      BY DEF OwesTrial
  <2> QED BY <2>2, <2>3, <2>4 DEF Owes
<1> QED BY <1>1, <1>2 DEF Owes, OwesNames, OwesTypes, OwesTrial

\* A cycle on its way from the names to the export still names what it wrote.
LEMMA OwesNamesOn ==
    ASSUME Typed, Core, [Next]_vars, ~TypesExport, NEW s \in Scopes, NEW f \in Functions,
           OwesNames(s, f), cycle'[s].phase \in {"names", "types", "refreshing"},
           cycle'[s].names = cycle[s].names,
           \/ cycle'[s].types = cycle[s].types
           \/ cycle'[s].types # None /\ ops'[cycle'[s].types].status # "applied"
    PROVE  OwesNames(s, f)'
<1>1. cycle[s].phase \in Live /\ ~((FollowUp \/ Finish) /\ s = handler.scope)
    BY DEF OwesNames, Live, FollowUp, Finish, At, Core, HandlerHere, SelectAt, Mine
<1>2. /\ Keeps(cycle[s].names)
      /\ cycle[s].types # None /\ ops[cycle[s].types].status # "applied"
            => ops'[cycle[s].types].status # "applied"
    BY <1>1, OpsKeep DEF OwesNames
<1> QED BY <1>2 DEF OwesNames, Keeps, FunctionsOf

\* No phase but the last forgets what its cycle owes.
LEMMA OwesOwn ==
    ASSUME Typed, Core, UnchangedUnsaved, [Next]_vars, NEW f \in Functions,
           NEW s \in Scopes, s = handler.scope, Owes(s, f),
           \/ NamesDone \/ TypesNothing \/ LocalsKeep \/ IsolateAccept \/ TypesKeep \/ TypesDone
           \/ PhaseFails \/ \E g \in Functions : TrialSave(g) \/ TrialRecord(g)
    PROVE  Owes(s, f)'
<1>0. /\ Mine = cycle[s] /\ Mine \in RowSet /\ cycle \in [Scopes -> RowSet]
      /\ handler \in HandlerSet
    BY DEF Typed, CycleTypes, HandlerSet, Mine
<1>1. ASSUME NEW row, SetMine(row) PROVE cycle'[s] = row
    BY <1>0, <1>1 DEF SetMine
<1>2. ~TypesExport
    BY <1>0 DEF NamesDone, TypesNothing, LocalsKeep, IsolateAccept, TypesKeep, TypesDone,
       PhaseFails, TrialSave, TrialRecord, TypesExport, At, Proceed, Over, Idle, HandlerSet
<1>3. CASE NamesDone
  <2>1. Mine.phase = "names"
      BY <1>3 DEF NamesDone, At, Core, HandlerHere, NamesAt
  <2>2. OwesNames(s, f)
      BY <1>0, <2>1 DEF Owes, OwesTypes, OwesTrial
  <2>3. /\ cycle'[s].phase = "types" /\ cycle'[s].names = Mine.names
        /\ cycle'[s].types = Mine.types
      BY <1>0, <1>1, <1>3 DEF NamesDone, Proceed, RowSet
  <2> QED BY <1>0, <1>2, <2>2, <2>3, OwesNamesOn DEF Owes
<1>4. CASE TypesNothing \/ TypesDone
  <2>1. Mine.phase = "types"
      BY <1>4 DEF TypesNothing, TypesDone, At, Core, HandlerHere, TypesAt, TriesAt
  <2>2. ~OwesTypes(s, f)
    <3>1. CASE TypesNothing
        BY <1>0, <2>1, <3>1 DEF TypesNothing, OwesTypes, Core, RowsRefer, Live
    <3>2. CASE TypesDone
      <4>1. Mine.types = None \/ ops[Mine.types].status \in {"applied", "unchanged"}
          BY <3>2 DEF TypesDone, At, Core, HandlerRefers
      <4>2. Mine.types # None => Mine.types \in DOMAIN ops
          BY <1>0, <2>1, NamedOps DEF Live
      <4> QED BY <1>0, <4>1, <4>2 DEF OwesTypes, UnchangedUnsaved
    <3> QED BY <1>4, <3>1, <3>2
  <2>3. OwesNames(s, f)
      BY <1>0, <2>1, <2>2 DEF Owes, OwesTrial
  <2>4. /\ cycle'[s].phase = "refreshing" /\ cycle'[s].names = Mine.names
        /\ cycle'[s].types = Mine.types
      BY <1>0, <1>1, <1>4 DEF TypesNothing, TypesDone, Proceed, RowSet
  <2> QED BY <1>0, <1>2, <2>3, <2>4, OwesNamesOn DEF Owes
<1>5. CASE LocalsKeep \/ IsolateAccept
  <2>1. Mine.phase = "types" /\ Mine.types = None
      BY <1>5 DEF LocalsKeep, IsolateAccept, At, Core, HandlerHere, HandlerRefers, TypesAt, TriesAt
  <2>2. OwesNames(s, f)
      BY <1>0, <2>1 DEF Owes, OwesTypes, OwesTrial
  <2>3. /\ cycle'[s].phase = "types" /\ cycle'[s].names = Mine.names
        /\ cycle'[s].types = Mine.types
      BY <1>0, <1>1, <1>5, <2>1 DEF LocalsKeep, IsolateAccept, RowSet
  <2> QED BY <1>0, <1>2, <2>2, <2>3, OwesNamesOn DEF Owes
<1>6. CASE TypesKeep
  <2>1. /\ Mine.phase = "types" /\ Mine.types = None
        /\ handler.op # None /\ ops[handler.op].status \in {"preview", "unchanged"}
      BY <1>6 DEF TypesKeep, At, Core, HandlerHere, HandlerRefers, TypesAt, TriesAt, None
  <2>2. OwesNames(s, f)
      BY <1>0, <2>1 DEF Owes, OwesTypes, OwesTrial
  <2>3. /\ cycle'[s].phase = "types" /\ cycle'[s].names = Mine.names
        /\ cycle'[s].types = handler.op /\ ops' = ops
      BY <1>0, <1>1, <1>6, <2>1 DEF TypesKeep, RowSet
  <2> QED BY <1>0, <1>2, <2>1, <2>2, <2>3, OwesNamesOn DEF Owes
<1>7. CASE PhaseFails
  <2>1. cycle'[s] = CountedFailure
      BY <1>1, <1>7 DEF PhaseFails
  <2>2. CASE CountedFailure.phase = "failed"
      BY <2>1, <2>2 DEF Owes
  <2>3. CASE CountedFailure.phase # "failed"
    <3>1. /\ cycle'[s].phase = cycle[s].phase /\ cycle'[s].names = cycle[s].names
          /\ cycle'[s].types = cycle[s].types /\ cycle'[s].trials = cycle[s].trials
        BY <1>0, <2>1, <2>3 DEF CountedFailure, RowSet
    <3>2. OwesNames(s, f) => OwesNames(s, f)'
        BY <1>2, <3>1, OwesNamesOn DEF OwesNames
    <3>3. OwesTypes(s, f) => OwesTypes(s, f)'
      <4>1. ASSUME OwesTypes(s, f)
            PROVE  /\ Keeps(cycle[s].types)
                   /\ ops'[cycle[s].types].status # "applied"
        <5>1. cycle[s].phase \in Live /\ ~(FollowUp \/ Finish)
            BY <1>7, <4>1 DEF OwesTypes, Live, FollowUp, Finish, At, Core, HandlerHere, SelectAt, Mine
        <5> QED BY <1>2, <4>1, <5>1, OpsKeep DEF OwesTypes
      <4> QED BY <3>1, <4>1 DEF OwesTypes, Keeps, FunctionsOf, ItemsOf
    <3>4. OwesTrial(s, f) => OwesTrial(s, f)'
        BY <3>1 DEF OwesTrial
    <3>5. cycle[s].phase = "failed" => cycle'[s].phase = "failed"
        BY <3>1
    <3> QED BY <3>2, <3>3, <3>4, <3>5 DEF Owes
  <2> QED BY <2>2, <2>3
<1>8. ASSUME NEW g \in Functions, TrialSave(g) \/ TrialRecord(g) PROVE Owes(s, f)'
  <2>1. Mine.phase = "refreshing"
      BY <1>8 DEF TrialSave, TrialRecord, At, Core, HandlerHere, RefreshAt
  <2>2. PICK outcome :
            /\ cycle'[s] = [Mine EXCEPT !.trials[g] = outcome]
            /\ Mine.trials[g] \in Tried => outcome \in Tried
    <3>1. CASE TrialSave(g)
        BY <1>0, <1>1, <3>1 DEF TrialSave, Tried
    <3>2. CASE TrialRecord(g)
        BY <1>0, <1>1, <3>2 DEF TrialRecord, Tried, Changed
    <3> QED BY <1>8, <3>1, <3>2
  <2>3. /\ cycle'[s].phase = "refreshing" /\ cycle'[s].names = cycle[s].names
        /\ cycle'[s].types = cycle[s].types
        /\ cycle[s].trials[f] \in Tried => cycle'[s].trials[f] \in Tried
      BY <1>0, <2>1, <2>2 DEF RowSet
  <2>4. OwesNames(s, f) \/ OwesTrial(s, f)
      BY <1>0, <2>1 DEF Owes, OwesTypes
  <2>5. OwesNames(s, f) => OwesNames(s, f)'
      BY <1>2, <2>3, OwesNamesOn
  <2>6. OwesTrial(s, f) => OwesTrial(s, f)'
      BY <2>3 DEF OwesTrial
  <2> QED BY <2>4, <2>5, <2>6 DEF Owes
<1> QED BY <1>3, <1>4, <1>5, <1>6, <1>7, <1>8

LEMMA OwesStays ==
    ASSUME Typed, Core, UnchangedUnsaved, [Next]_vars, ~TypesExport, NEW f \in Functions,
           NEW s \in Scopes, Owes(s, f), ~(Mark /\ s = handler.scope)
    PROVE  Owes(s, f)'
<1>1. CASE cycle'[s] = cycle[s]
    BY <1>1, OwesAlike
<1>2. CASE cycle'[s] # cycle[s]
  <2>1. cycle[s].phase \in {"names", "types", "refreshing", "failed"}
      BY DEF Owes, OwesNames, OwesTypes, OwesTrial
  <2>2. ~(Enter /\ s = active /\ cycle[s].phase = "absent")
      BY <2>1
  <2>3. ~(FollowUp /\ s \in {runs', handler.scope})
    <3>1. CASE FollowUp /\ s = handler.scope
        BY <2>1, <3>1 DEF FollowUp, At, Core, HandlerHere, SelectAt, Mine
    <3>2. CASE FollowUp /\ s = runs'
      <4>1. runs \in Nat /\ runs' = runs + 1
          BY <3>2, ScopesAreNat DEF FollowUp, Typed, QueueTypes
      <4>2. s > runs
          BY <3>2, <4>1
      <4> QED BY <2>1, <4>2 DEF Core, RowsCount
    <3> QED BY <3>1, <3>2
  <2>4. s = handler.scope => ~(AssessDone \/ NamesKeep \/ Finish)
    <3>1. ASSUME s = handler.scope, AssessDone \/ Finish PROVE FALSE
        BY <2>1, <3>1 DEF AssessDone, Finish, At, Core, HandlerHere, SelectAt, Mine
    <3>2. ASSUME s = handler.scope, NamesKeep PROVE FALSE
        BY <3>2 DEF NamesKeep, At, Core, HandlerHere, HandlerRefers, NamesAt, Mine, Owes, OwesNames,
           OwesTypes, OwesTrial
    <3> QED BY <3>1, <3>2
  <2> QED BY <1>2, <2>2, <2>3, <2>4, OwnSteps, OwesOwn
<1> QED BY <1>1, <1>2

LEMMA UnchangedStays ==
    ASSUME Typed, Core, OpsShape', UnchangedUnsaved, [Next]_vars
    PROVE  UnchangedUnsaved'
<1>0. /\ ops \in Seq(OpSet) /\ DOMAIN ops = 1 .. Len(ops) /\ Len(ops) \in Nat
      /\ DOMAIN ops' = 1 .. Len(ops') /\ Len(ops') \in Nat
      /\ \A o \in DOMAIN ops : ops[o] \in OpSet
    BY Shape, LenProperties DEF Typed, OpsShape
<1>1. CASE ops' = ops
    BY <1>1 DEF UnchangedUnsaved
<1>2. CASE NamesPreview \/ TypesPreview \/ IsolateAccept
  <2>1. ops' = ops \/ \E op : ops' = Append(ops, op) /\ ~op.saved
      BY <1>2 DEF NamesPreview, TypesPreview, IsolateAccept, Previewed, Operation
  <2>2. ASSUME NEW op, ops' = Append(ops, op), ~op.saved, NEW o \in DOMAIN ops'
        PROVE  ops'[o].status = "unchanged" => ~ops'[o].saved
    <3>1. ops \in Seq(OpSet \cup {op}) /\ op \in OpSet \cup {op}
        BY <1>0, SeqMonotonic
    <3>2. ops'[Len(ops) + 1] = op /\ Len(ops') = Len(ops) + 1
        BY <2>2, <3>1, AppendProperties
    <3>3. o \in DOMAIN ops \/ o = Len(ops) + 1
        BY <1>0, <2>2, <3>2, NextNumber
    <3>4. o \in DOMAIN ops => ops'[o] = ops[o]
        BY <1>0, <2>2, AppendedEntry
    <3> QED BY <2>2, <3>2, <3>3, <3>4 DEF UnchangedUnsaved
  <2> QED BY <1>1, <2>1, <2>2 DEF UnchangedUnsaved
<1>3. CASE NamesBegin \/ TypesBegin
  <2>1. ops' = [ops EXCEPT ![handler.op].status = "applying", ![handler.op].begun = Pass]
      BY <1>3 DEF NamesBegin, TypesBegin, Begin
  <2>2. \A o \in DOMAIN ops : ops'[o] = ops[o] \/ ops'[o].status = "applying"
      BY <1>0, <2>1 DEF OpSet
  <2> QED BY <2>1, <2>2 DEF UnchangedUnsaved
<1>4. CASE NamesRecord \/ TypesExport
  <2>1. \E status \in {"applied", "conflict"} : ops' = [ops EXCEPT ![handler.op].status = status]
      BY <1>4 DEF NamesRecord, TypesExport, SetOp
  <2>2. \A o \in DOMAIN ops : ops'[o] = ops[o] \/ ops'[o].status \in {"applied", "conflict"}
      BY <1>0, <2>1 DEF OpSet
  <2> QED BY <2>1, <2>2 DEF UnchangedUnsaved
<1>5. CASE NamesSave \/ TypesSave
  <2>1. ops[handler.op].status = "applying" /\ handler.op \in DOMAIN ops
      BY <1>5, AtHand DEF NamesSave, TypesSave, At, SavesAt, Core, OpsStand
  <2>2. \/ ops' = ops
        \/ ops' = [ops EXCEPT ![handler.op].saved = TRUE]
        \/ \E w : ops' = [ops EXCEPT ![handler.op].saved = TRUE, ![handler.op].written = w]
      BY <1>5 DEF NamesSave, TypesSave, SavesNames, SavesTypes
  <2>3. \A o \in DOMAIN ops : ops'[o] = ops[o] \/ ops'[o].status = "applying"
    <3>1. ops[handler.op] \in OpSet
        BY <1>0, <2>1
    <3>2. ASSUME NEW w, ops' = [ops EXCEPT ![handler.op].saved = TRUE, ![handler.op].written = w]
          PROVE  \A o \in DOMAIN ops : ops'[o] = ops[o] \/ ops'[o].status = "applying"
        BY <2>1, <3>1, <3>2 DEF OpSet
    <3>3. ASSUME ops' = [ops EXCEPT ![handler.op].saved = TRUE]
          PROVE  \A o \in DOMAIN ops : ops'[o] = ops[o] \/ ops'[o].status = "applying"
        BY <2>1, <3>1, <3>3 DEF OpSet
    <3> QED BY <2>2, <3>2, <3>3
  <2>4. DOMAIN ops' = DOMAIN ops
      BY <2>2
  <2> QED BY <2>3, <2>4 DEF UnchangedUnsaved
<1>6. CASE PhaseFails \/ Restart
  <2>1. ops' = BrokenOff
      BY <1>6 DEF PhaseFails, Restart
  <2>2. \A o \in DOMAIN ops' : /\ o \in DOMAIN ops /\ ops'[o].saved = ops[o].saved
                              /\ ops'[o].status \in {ops[o].status, "uncertain"}
      BY <2>1, BrokenOps
  <2> QED BY <2>2 DEF UnchangedUnsaved
<1>7. CASE FollowUp \/ Finish
  <2>1. \A o \in DOMAIN ops : ops'[o] = ops[o] \/ ops'[o] = Forgotten
      BY <1>7 DEF FollowUp, Finish, Forget
  <2>2. DOMAIN ops' = DOMAIN ops
      BY <1>7 DEF FollowUp, Finish, Forget
  <2>3. ~Forgotten.saved
      BY DEF Forgotten
  <2> QED BY <2>1, <2>2, <2>3 DEF UnchangedUnsaved
<1>8. CASE Ghidra
  <2>1. PICK o \in DOMAIN ops : LateSave(o)
      BY <1>8 DEF Ghidra
  <2>2. ops[o].status # "unchanged"
      BY <2>1, LateSaveIs
  <2> QED BY <2>1, <2>2, LateSaveLeaves DEF UnchangedUnsaved
<1> QED BY <1>1, <1>2, <1>3, <1>4, <1>5, <1>6, <1>7, <1>8
        DEF Next, Requests, Ends, PhaseStep, Names, TypePlans, Refreshing, People, vars,
            Ask, Answer, JobFails, Claim, Enter, Release, NamesKeep, NamesAgain, AssessRow, AssessDone,
            NamesDone, TypesNothing, TypesAgain, LocalsKeep, TypesRefused, LocalsDropped,
            IsolateReject, TypesOutcome, TypesKeep, TypesDone, TrialSave, TrialRecord, RefreshExport,
            RefreshNothing, Mark, Select, Control, ChooseScope, Review, Correct

\* The handler comes to the export by entering its phase, and stays there for the trials.
LEMMA AtRefreshing ==
    ASSUME Typed, [Next]_vars, handler'.at = "refreshing"
    PROVE  \/ Enter
           \/ \E f \in Functions : TrialRecord(f)
           \/ \E f \in Functions : TrialSave(f)
           \/ UNCHANGED <<handler, cycle>>
<1>0. handler \in HandlerSet
    BY DEF Typed, CycleTypes
<1>1. ~(Claim \/ Release \/ Restart \/ AssessDone \/ NamesDone \/ TypesNothing \/ TypesDone \/ Mark
         \/ Finish \/ FollowUp \/ PhaseFails)
  <2>1. /\ Idle.at = "idle" /\ Over.at = "done"
        /\ [Idle EXCEPT !.at = "claimed"].at = "claimed"
      BY DEF Over, Idle
  <2> QED BY <2>1 DEF Claim, Release, Restart, AssessDone, NamesDone, TypesNothing, TypesDone, Mark,
          Finish, FollowUp, PhaseFails, Proceed
<1>2. ~(NamesPreview \/ NamesKeep \/ NamesAgain \/ NamesBegin \/ NamesSave \/ NamesRecord)
    BY <1>0 DEF NamesPreview, NamesKeep, NamesAgain, NamesBegin, NamesSave, NamesRecord, HandlerSet
<1>3. ~(TypesPreview \/ TypesAgain \/ TypesRefused \/ TypesKeep \/ TypesBegin \/ TypesSave \/ TypesExport
         \/ TypesOutcome)
    BY <1>0 DEF TypesPreview, TypesAgain, TypesRefused, TypesKeep, TypesBegin, TypesSave, TypesExport,
       TypesOutcome, HandlerSet
<1>4. ~(LocalsDropped \/ LocalsKeep \/ IsolateReject \/ IsolateAccept)
    BY <1>0 DEF LocalsDropped, LocalsKeep, IsolateReject, IsolateAccept, HandlerSet
<1>5. ~(RefreshExport \/ RefreshNothing \/ Select)
    BY <1>0 DEF RefreshExport, RefreshNothing, Select, HandlerSet
<1> QED BY <1>1, <1>2, <1>3, <1>4, <1>5
        DEF Next, Requests, Ends, PhaseStep, Names, TypePlans, Refreshing, People, Ghidra, LateSave, vars,
            Ask, Answer, JobFails, AssessRow, Control, ChooseScope, Review, Correct

LEMMA TrialRows ==
    ASSUME Typed, Core, TrialsSeen, [Next]_vars, NEW s \in Scopes, NEW f \in Functions,
           cycle'[s].trials[f] # "none"
    PROVE  f \in Answered'
<1>0. /\ cycle \in [Scopes -> RowSet] /\ handler.scope \in Scopes
      /\ Mine \in RowSet /\ Mine = cycle[handler.scope]
    BY DEF Typed, CycleTypes, HandlerSet, Mine
<1>1. CASE cycle[s].trials[f] # "none"
    BY <1>1, TakenStays DEF TrialsSeen
<1>2. CASE cycle[s].trials[f] = "none"
  <2>1. ASSUME NEW g \in Functions, TrialSave(g) \/ TrialRecord(g), s = handler.scope
        PROVE  f = g /\ g \in Answered
    <3>1. PICK outcome : SetMine([Mine EXCEPT !.trials[g] = outcome])
        BY <2>1 DEF TrialSave, TrialRecord
    <3>2. f = g
        BY <1>0, <1>2, <2>1, <3>1 DEF SetMine, RowSet
    <3>3. g \in Answered
        BY <2>1 DEF TrialSave, TrialRecord, At, TrialsSeen
    <3> QED BY <3>2, <3>3
  <2>2. ASSUME Enter, s = active, cycle[s].phase = "absent" PROVE FALSE
    <3>1. cycle'[s] = Row(runs, "assessing", 0)
        BY <1>0, <2>2 DEF Enter
    <3> QED BY <3>1 DEF Row
  <2>3. ASSUME FollowUp, s \in {runs', handler.scope} PROVE FALSE
    <3>1. cycle'[s] = Absent \/ \E i, n : cycle'[s] = Row(i, "assessing", n)
        BY <1>0, <2>3 DEF FollowUp
    <3>2. Absent.trials[f] = "none" /\ \A i, n : Row(i, "assessing", n).trials[f] = "none"
        BY DEF Row, Absent
    <3> QED BY <3>1, <3>2
  <2>4. ASSUME s = handler.scope, NamesDone \/ TypesNothing \/ TypesDone \/ Mark \/ Finish PROVE FALSE
    <3>1. \E phase : SetMine([Mine EXCEPT !.phase = phase, !.attempts = 0,
                                         !.trials = [g \in Functions |-> "none"]])
        BY <2>4 DEF NamesDone, TypesNothing, TypesDone, Mark, Finish, Proceed
    <3> QED BY <1>0, <2>4, <3>1 DEF SetMine, RowSet
  <2>5. ASSUME s = handler.scope,
               AssessDone \/ NamesKeep \/ LocalsKeep \/ IsolateAccept \/ TypesKeep \/ PhaseFails
        PROVE  FALSE
    <3>0. ASSUME NEW row, SetMine(row) PROVE cycle'[s] = row
        BY <1>0, <2>5, <3>0 DEF SetMine
    <3>1. CASE AssessDone
      <4>1. PICK kept : SetMine([Mine EXCEPT !.phase = "names", !.proposals = kept])
          BY <3>1 DEF AssessDone
      <4> QED BY <1>0, <1>2, <2>5, <3>0, <4>1 DEF RowSet
    <3>2. CASE NamesKeep \/ TypesKeep
        BY <1>0, <1>2, <2>5, <3>0, <3>2 DEF NamesKeep, TypesKeep, RowSet
    <3>3. CASE LocalsKeep \/ IsolateAccept
        BY <1>0, <1>2, <2>5, <3>0, <3>3 DEF LocalsKeep, IsolateAccept, RowSet
    <3>4. CASE PhaseFails
      <4>1. cycle'[s] = CountedFailure
          BY <3>0, <3>4 DEF PhaseFails
      <4> QED BY <1>0, <1>2, <2>5, <4>1 DEF CountedFailure, RowSet
    <3> QED BY <2>5, <3>1, <3>2, <3>3, <3>4
  <2>6. cycle'[s] # cycle[s]
      BY <1>2
  <2> QED BY <2>1, <2>2, <2>3, <2>4, <2>5, <2>6, OwnSteps, TakenStays
<1> QED BY <1>1, <1>2

LEMMA TrialsStay ==
    ASSUME Typed, Core, TrialsSeen, [Next]_vars
    PROVE  TrialsSeen'
<1>0. /\ cycle \in [Scopes -> RowSet] /\ handler.scope \in Scopes /\ handler \in HandlerSet
      /\ Mine \in RowSet /\ Mine = cycle[handler.scope]
    BY DEF Typed, CycleTypes, HandlerSet, Mine
<1>1. \A s \in Scopes, f \in Functions : cycle'[s].trials[f] # "none" => f \in Answered'
    BY TrialRows
<1>2. ASSUME handler'.at = "refreshing"
      PROVE  /\ handler'.todo \subseteq Answered'
             /\ \A f \in Functions : Mine'.trials[f] \in Tried =>
                    f \in handler'.todo \/ handler'.changed \/ TakenOver(f)'
  <2>1. CASE UNCHANGED <<handler, cycle>>
    <3>1. /\ handler.todo \subseteq Answered
          /\ \A f \in Functions : Mine.trials[f] \in Tried =>
                f \in handler.todo \/ handler.changed \/ TakenOver(f)
        BY <1>2, <2>1 DEF TrialsSeen, At
    <3>2. handler.todo \subseteq Functions
        BY <1>0 DEF HandlerSet
    <3> QED BY <2>1, <3>1, <3>2, TakenStays DEF Mine
  <2>2. CASE Enter
    <3>1. active \in Scopes
        BY ScopesAreNat, RecoveryAssumption DEF Typed, QueueTypes, Scopes
    <3>2. cycle[active].phase = "refreshing"
      <4>1. handler'.at \in {"done", "assessing", cycle[active].phase}
          BY <2>2 DEF Enter, Idle, Row
      <4> QED BY <1>2, <4>1
    <3>3. /\ handler'.todo = Open /\ handler'.scope = active /\ cycle'[active] = cycle[active]
          /\ UNCHANGED <<current, taken>>
        BY <1>0, <2>2, <3>1, <3>2 DEF Enter, Idle, results, Ended
    <3>4. \A f \in Functions : cycle[active].trials[f] \in Tried => f \in Answered
        BY <3>1 DEF TrialsSeen, Tried
    <3> QED BY <3>3, <3>4 DEF Open, Mine, Answered, TakenOver, Cur
  <2>3. ASSUME NEW g \in Functions, TrialSave(g) PROVE /\ handler'.todo \subseteq Answered'
             /\ \A f \in Functions : Mine'.trials[f] \in Tried =>
                    f \in handler'.todo \/ handler'.changed \/ TakenOver(f)'
    <3>1. /\ handler' = handler /\ g \in handler.todo /\ UNCHANGED <<current, taken>>
          /\ \A f \in Functions \ {g} : Mine'.trials[f] = Mine.trials[f]
      <4>1. handler' = handler /\ g \in handler.todo /\ UNCHANGED <<current, taken>>
          BY <2>3 DEF TrialSave, results
      <4>2. PICK outcome : SetMine([Mine EXCEPT !.trials[g] = outcome])
          BY <2>3 DEF TrialSave
      <4>3. Mine' = [Mine EXCEPT !.trials[g] = outcome]
          BY <1>0, <4>1, <4>2 DEF SetMine, Mine
      <4> QED BY <1>0, <4>1, <4>3 DEF RowSet
    <3>2. /\ handler.todo \subseteq Answered
          /\ \A f \in Functions : Mine.trials[f] \in Tried =>
                f \in handler.todo \/ handler.changed \/ TakenOver(f)
        BY <2>3 DEF TrialSave, TrialsSeen, At
    <3> QED BY <3>1, <3>2 DEF Answered, TakenOver, Cur
  <2>4. ASSUME NEW g \in Functions, TrialRecord(g) PROVE /\ handler'.todo \subseteq Answered'
             /\ \A f \in Functions : Mine'.trials[f] \in Tried =>
                    f \in handler'.todo \/ handler'.changed \/ TakenOver(f)'
    <3>1. handler'.scope = handler.scope /\ handler'.todo = handler.todo \ {g}
          /\ handler'.changed = (handler.changed \/ Changed(g))
        BY <1>0, <2>4 DEF TrialRecord, HandlerSet
    <3>2. PICK outcome :
            /\ Mine' = [Mine EXCEPT !.trials[g] = outcome]
            /\ outcome \in Tried => Changed(g)
      <4> DEFINE to == IF Changed(g) THEN "changed" ELSE "same"
      <4>1. SetMine([Mine EXCEPT !.trials[g] = to])
          BY <2>4 DEF TrialRecord
      <4>2. to \in Tried => Changed(g)
          BY DEF Tried
      <4> HIDE DEF to
      <4>3. Mine' = [Mine EXCEPT !.trials[g] = to]
          BY <1>0, <3>1, <4>1 DEF SetMine, Mine
      <4> QED BY <4>2, <4>3
    <3>3. \A f \in Functions \ {g} : Mine'.trials[f] = Mine.trials[f]
        BY <1>0, <3>2 DEF RowSet
    <3>4. Mine'.trials[g] \in Tried => Changed(g)
        BY <1>0, <3>2 DEF RowSet
    <3>5. /\ handler.todo \subseteq Answered
          /\ \A f \in Functions : Mine.trials[f] \in Tried =>
                f \in handler.todo \/ handler.changed \/ TakenOver(f)
        BY <2>4 DEF TrialRecord, TrialsSeen, At
    <3>6. UNCHANGED <<current, taken>>
        BY <2>4 DEF TrialRecord, results
    <3> QED BY <3>1, <3>3, <3>4, <3>5, <3>6 DEF Answered, TakenOver, Cur
  <2> QED BY <1>2, <2>1, <2>2, <2>3, <2>4, AtRefreshing
<1> QED BY <1>1, <1>2 DEF TrialsSeen, At

\* Before the phases are marked as exported, what the cycle itself changed was exported.
LEMMA MarkPays ==
    ASSUME Typed, Core, Debts, RefreshNothing, NEW f \in unexported, Owes(handler.scope, f)
    PROVE  TakenOver(f)
<1> DEFINE s == handler.scope
<1>0. s \in Scopes /\ Mine = cycle[s] /\ f \in Functions
    BY DEF Typed, CycleTypes, HandlerSet, Mine, QueueTypes
<1>1. Mine.phase = "refreshing" /\ handler.at = "refreshing" /\ handler.todo = {} /\ ~NeedsExport
    BY DEF RefreshNothing, At, Core, HandlerHere, RefreshAt
<1>2. CASE OwesNames(s, f)
  <2>1. Mine.names # None /\ ops[Mine.names].written # {}
      BY <1>0, <1>2 DEF OwesNames, FunctionsOf
  <2>2. ~TypesExported
      BY <1>0, <1>2 DEF OwesNames, TypesExported
  <2> QED BY <1>1, <2>1, <2>2 DEF NeedsExport, NamesChanged, WrittenNames
<1>3. CASE OwesTrial(s, f)
    BY <1>0, <1>1, <1>3 DEF OwesTrial, Debts, TrialsSeen, At, NeedsExport
<1> QED BY <1>0, <1>1, <1>2, <1>3 DEF Owes, OwesTypes

LEMMA AtMark ==
    ASSUME Typed, [Next]_vars, handler'.at = "mark"
    PROVE  \/ RefreshExport
           \/ RefreshNothing /\ UNCHANGED cycle
           \/ UNCHANGED <<handler, cycle, unexported>>
           \/ Ghidra /\ UNCHANGED <<handler, cycle>>
<1>0. handler \in HandlerSet
    BY DEF Typed, CycleTypes
<1>1. ~(Claim \/ Release \/ Restart \/ AssessDone \/ NamesDone \/ TypesNothing \/ TypesDone \/ Mark
         \/ Finish \/ FollowUp \/ PhaseFails)
  <2>1. /\ Idle.at = "idle" /\ Over.at = "done"
        /\ [Idle EXCEPT !.at = "claimed"].at = "claimed"
      BY DEF Over, Idle
  <2> QED BY <2>1 DEF Claim, Release, Restart, AssessDone, NamesDone, TypesNothing, TypesDone, Mark,
          Finish, FollowUp, PhaseFails, Proceed
<1>2. ~(NamesPreview \/ NamesKeep \/ NamesAgain \/ NamesBegin \/ NamesSave \/ NamesRecord)
    BY <1>0 DEF NamesPreview, NamesKeep, NamesAgain, NamesBegin, NamesSave, NamesRecord, HandlerSet
<1>3. ~(TypesPreview \/ TypesAgain \/ TypesRefused \/ TypesKeep \/ TypesBegin \/ TypesSave \/ TypesExport
         \/ TypesOutcome)
    BY <1>0 DEF TypesPreview, TypesAgain, TypesRefused, TypesKeep, TypesBegin, TypesSave, TypesExport,
       TypesOutcome, HandlerSet
<1>4. ~(LocalsDropped \/ LocalsKeep \/ IsolateReject \/ IsolateAccept)
    BY <1>0 DEF LocalsDropped, LocalsKeep, IsolateReject, IsolateAccept, HandlerSet
<1>5. ~Select
    BY <1>0 DEF Select, HandlerSet
<1>6. \A g \in Functions : ~TrialSave(g) /\ ~TrialRecord(g)
    BY <1>0 DEF TrialSave, TrialRecord, At, HandlerSet
<1>7. ~Enter
  <2>1. ASSUME Enter PROVE FALSE
    <3>1. active \in Scopes /\ cycle[active].phase \in Live \cup Ended \cup {"absent"}
        BY ScopesAreNat, RecoveryAssumption DEF Typed, QueueTypes, Scopes, CycleTypes, RowSet
    <3>2. handler'.at \in {"done", "assessing", cycle[active].phase}
        BY <2>1 DEF Enter, Idle, Row
    <3> QED BY <3>1, <3>2 DEF Live, Ended
  <2> QED BY <2>1
<1>8. RefreshNothing => UNCHANGED cycle
    BY DEF RefreshNothing
<1> QED BY <1>1, <1>2, <1>3, <1>4, <1>5, <1>6, <1>7, <1>8
        DEF Next, Requests, Ends, PhaseStep, Names, TypePlans, Refreshing, People, Ghidra, LateSave, vars, native,
            Ask, Answer, JobFails, AssessRow, Control, ChooseScope, Review, Correct

\* What Ghidra saves late is owed by the cycle that settles the operation.
LEMMA LateSaveOwes ==
    ASSUME Typed, Core, NEW o \in DOMAIN ops, LateSave(o), NEW f \in unexported', f \notin unexported
    PROVE  \E s \in Scopes : cycle[s].phase \in {"names", "types", "failed"} /\ Owes(s, f)'
<1>1. /\ cycle' = cycle /\ o \in Unresolved
      /\ ops[o].status \in {"applying", "uncertain"} /\ ops[o].kind \in {"names", "types"}
    BY LateSaveIs DEF Unresolved
<1>2. PICK s \in Scopes :
        \/ ops[o].kind = "names" /\ cycle[s].names = o /\ cycle[s].phase \in {"names", "failed"}
        \/ ops[o].kind = "types" /\ cycle[s].types = o /\ cycle[s].phase \in {"types", "failed"}
    BY <1>1 DEF Core, Settles
<1>3. o # None
    BY Shape DEF Typed, None
<1>4. CASE cycle[s].phase = "failed"
    BY <1>1, <1>4 DEF Owes
<1>5. CASE cycle[s].phase = "names"
  <2>1. ops[o].kind = "names" /\ cycle[s].names = o /\ cycle[s].types = None
      BY <1>2, <1>5 DEF Core, RowsRefer
  <2>2. f \in FunctionsOf(ops'[o].written)
    <3>1. PICK op \in OpSet : /\ ops' = [ops EXCEPT ![o] = op]
                             /\ unexported' = unexported \cup FunctionsOf(op.written)
        BY <2>1, LateSaveIs
    <3> QED BY <3>1
  <2>3. OwesNames(s, f)'
      BY <1>1, <1>3, <1>5, <2>1, <2>2 DEF OwesNames, FunctionsOf
  <2> QED BY <1>5, <2>3 DEF Owes
<1>6. CASE cycle[s].phase = "types"
  <2>1. ops[o].kind = "types" /\ cycle[s].types = o
      BY <1>2, <1>6
  <2>2. f \in FunctionsOf(ItemsOf(o))
      BY <2>1, LateSaveIs
  <2>3. ops'[o].saved /\ ops'[o].status # "applied" /\ ops'[o].items = ops[o].items
      BY <1>1, LateSaveLeaves
  <2>4. OwesTypes(s, f)'
      BY <1>1, <1>3, <1>6, <2>1, <2>2, <2>3 DEF OwesTypes, FunctionsOf, ItemsOf
  <2> QED BY <1>6, <2>4 DEF Owes
<1> QED BY <1>2, <1>4, <1>5, <1>6

LEMMA MarkStays ==
    ASSUME Typed, Core, Debts, [Next]_vars
    PROVE  PaidAtMark'
<1>1. ASSUME handler'.at = "mark", NEW f \in unexported'
      PROVE  TakenOver(f)' \/ \E s \in Scopes \ {handler'.scope} : Owes(s, f)'
  <2>1. CASE RefreshExport
      BY <1>1, <2>1 DEF RefreshExport, Export
  <2>2. CASE RefreshNothing
    <3>1. f \in unexported /\ f \in Functions /\ handler'.scope = handler.scope
        BY <1>1, <2>2 DEF RefreshNothing, native, Typed, QueueTypes, CycleTypes, HandlerSet
    <3>2. TakenOver(f) \/ \E s \in Scopes \ {handler.scope} : Owes(s, f)
        BY <2>2, <3>1, MarkPays DEF Debts, ChangesOwed
    <3>3. ~TypesExport /\ ~Mark
        BY <2>2 DEF RefreshNothing, TypesExport, Mark, At
    <3> QED BY <3>1, <3>2, <3>3, TakenStays, OwesStays DEF Debts
  <2>3. CASE UNCHANGED <<handler, cycle, unexported>>
    <3>1. f \in unexported /\ f \in Functions /\ At("mark") /\ handler'.scope = handler.scope
        BY <1>1, <2>3 DEF Typed, QueueTypes, At
    <3>2. TakenOver(f) \/ \E s \in Scopes \ {handler.scope} : Owes(s, f)
        BY <3>1 DEF Debts, PaidAtMark
    <3>3. ~TypesExport
        BY <3>1 DEF TypesExport, At
    <3> QED BY <3>1, <3>2, <3>3, TakenStays, OwesStays DEF Debts
  <2>4. CASE Ghidra /\ UNCHANGED <<handler, cycle>>
    <3>1. f \in Functions /\ At("mark") /\ Mine.phase = "refreshing"
      <4>1. handler.at = "mark"
          BY <1>1, <2>4
      <4>2. f \in Functions
          BY <1>1, QueueTypesStep DEF QueueTypes
      <4> QED BY <4>1, <4>2 DEF At, Core, HandlerHere, RefreshAt
    <3>2. CASE f \in unexported
      <4>1. TakenOver(f) \/ \E s \in Scopes \ {handler.scope} : Owes(s, f)
          BY <3>1, <3>2 DEF Debts, PaidAtMark
      <4>2. ~TypesExport
          BY <3>1 DEF TypesExport, At
      <4>3. handler' = handler
          BY <2>4
      <4> QED BY <3>1, <4>1, <4>2, <4>3, TakenStays, OwesStays DEF Debts
    <3>3. CASE f \notin unexported
      <4>1. PICK o \in DOMAIN ops : LateSave(o)
          BY <2>4 DEF Ghidra
      <4>2. PICK s \in Scopes : cycle[s].phase \in {"names", "types", "failed"} /\ Owes(s, f)'
          BY <1>1, <3>3, <4>1, LateSaveOwes
      <4>3. s # handler'.scope
          BY <2>4, <3>1, <4>2 DEF Mine
      <4> QED BY <4>2, <4>3
    <3> QED BY <3>2, <3>3
  <2> QED BY <1>1, <2>1, <2>2, <2>3, <2>4, AtMark
<1> QED BY <1>1 DEF PaidAtMark, At


\* A script that changes the project, or a trial, leaves its cycle in debt.
LEMMA NewChanges ==
    ASSUME Typed, Core, OpsShape', [Next]_vars, NEW f \in Functions,
           f \in unexported', f \notin unexported
    PROVE  \E s \in Scopes : Owes(s, f)'
<1> SUFFICES ASSUME NEW s \in Scopes, NEW o, s = handler.scope, o = handler.op
             PROVE  \E t \in Scopes : Owes(t, f)'
    BY DEF Typed, CycleTypes, HandlerSet
<1>0. /\ Mine = cycle[s] /\ Mine \in RowSet /\ cycle \in [Scopes -> RowSet]
      /\ handler \in HandlerSet
    BY DEF Typed, CycleTypes, HandlerSet, Mine
<1>1. CASE NamesSave
  <2>1. PICK w : /\ ops' = [ops EXCEPT ![o].saved = TRUE, ![o].written = w]
                 /\ f \in FunctionsOf(w)
      BY <1>1 DEF NamesSave, SavesNames
  <2>2. /\ Mine.phase = "names" /\ Mine.names = o /\ o # None /\ o \in DOMAIN ops
        /\ ops[o] \in OpSet /\ cycle' = cycle
      BY <1>1, AtHand DEF NamesSave, At, SavesAt, Core, HandlerHere, HandlerRefers, NamesAt
  <2>3. Mine.types = None
      BY <1>0, <2>2 DEF Core, RowsRefer
  <2>4. ops'[o].written = w
      BY <2>1, <2>2 DEF OpSet
  <2>5. OwesNames(s, f)'
      BY <1>0, <2>1, <2>2, <2>3, <2>4 DEF OwesNames, FunctionsOf
  <2> QED BY <1>0, <2>5 DEF Owes
<1>2. CASE TypesSave
  <2>1. /\ ops' = [ops EXCEPT ![o].saved = TRUE]
        /\ f \in FunctionsOf(ItemsOf(o))
      BY <1>2 DEF TypesSave, SavesTypes, ItemsOf
  <2>2. /\ Mine.phase = "types" /\ Mine.types = o /\ o # None /\ o \in DOMAIN ops
        /\ ops[o] \in OpSet /\ cycle' = cycle /\ ops[o].status = "applying"
      BY <1>2, AtHand DEF TypesSave, At, SavesAt, Core, HandlerHere, HandlerRefers, OpsStand, TypesAt
  <2>3. ops'[o].saved /\ ops'[o].status = "applying" /\ ops'[o].items = ops[o].items
      BY <2>1, <2>2 DEF OpSet
  <2>4. OwesTypes(s, f)'
      BY <1>0, <2>1, <2>2, <2>3 DEF OwesTypes, FunctionsOf, ItemsOf
  <2> QED BY <1>0, <2>4 DEF Owes
<1>3. ASSUME NEW g \in Functions, TrialSave(g) PROVE \E t \in Scopes : Owes(t, f)'
  <2>1. f = g /\ SetMine([Mine EXCEPT !.trials[g] = "saved changed"]) /\ At("refreshing")
      BY <1>3 DEF TrialSave
  <2>2. Mine.phase = "refreshing"
      BY <2>1 DEF At, Core, HandlerHere, RefreshAt
  <2>3. cycle'[s].phase = "refreshing" /\ cycle'[s].trials[f] = "saved changed"
      BY <1>0, <2>1, <2>2 DEF SetMine, RowSet
  <2>4. OwesTrial(s, f)'
      BY <2>3 DEF OwesTrial, Tried
  <2> QED BY <1>0, <2>4 DEF Owes
<1>4. ~(TypesExport \/ RefreshExport)
    BY DEF TypesExport, RefreshExport, Export
<1>5. unexported' # unexported
    OBVIOUS
<1>6. CASE Ghidra
    BY <1>6, LateSaveOwes DEF Ghidra
<1> QED BY <1>1, <1>2, <1>3, <1>4, <1>5, <1>6
        DEF Next, Requests, Ends, PhaseStep, Names, TypePlans, Refreshing, People, vars, native,
            Ask, Answer, JobFails, Claim, Enter, Release, AssessRow, AssessDone, NamesPreview, NamesKeep,
            NamesAgain, NamesBegin, NamesRecord, NamesDone, TypesNothing, TypesAgain, TypesPreview,
            TypesRefused, LocalsDropped, LocalsKeep, IsolateReject, IsolateAccept, TypesKeep, TypesBegin,
            TypesOutcome, TypesDone, TrialRecord, RefreshNothing, Mark, Select, FollowUp, Finish,
            PhaseFails, Control, ChooseScope, Review, Correct, Restart

LEMMA FreshStep ==
    ASSUME Typed, Core, Typed', Debts, [Next]_vars
    PROVE  Debts'
<1>1. ASSUME NEW f \in unexported' PROVE TakenOver(f)' \/ \E s \in Scopes : Owes(s, f)'
  <2>0. f \in Functions
      BY <1>1 DEF Typed, QueueTypes
  <2>1. CASE f \notin unexported
      BY <1>1, <2>0, <2>1, NewChanges DEF Typed
  <2>2. CASE f \in unexported
    <3>1. ~TypesExport
        BY <1>1 DEF TypesExport, Export
    <3>2. TakenOver(f) \/ \E s \in Scopes : Owes(s, f) /\ ~(Mark /\ s = handler.scope)
      <4>1. TakenOver(f) \/ \E s \in Scopes : Owes(s, f)
          BY <2>2 DEF Debts, ChangesOwed
      <4>2. Mark => TakenOver(f) \/ \E s \in Scopes \ {handler.scope} : Owes(s, f)
          BY <2>2 DEF Mark, Debts, PaidAtMark
      <4> QED BY <4>1, <4>2
    <3> QED BY <2>0, <3>1, <3>2, TakenStays, OwesStays DEF Debts
  <2> QED BY <2>1, <2>2
<1>2. ChangesOwed'
    BY <1>1 DEF ChangesOwed
<1>3. UnchangedUnsaved' /\ TrialsSeen' /\ PaidAtMark'
    BY UnchangedStays, TrialsStay, MarkStays DEF Debts, Typed
<1> QED BY <1>2, <1>3 DEF Debts

\* What was changed in Ghidra is exported before the next pass is decided, whatever attempts,
\* failures and restarts lie between the change and the export.
THEOREM EvidenceIsFresh == Spec => []FreshEvidence
<1>1. Init => Debts
  <2> SUFFICES ASSUME Init PROVE Debts
      OBVIOUS
  <2>1. /\ unexported = {} /\ handler.at = "idle" /\ ops = <<>>
        /\ \A s \in Scopes : cycle[s] = Absent
      BY DEF Init, Idle
  <2>2. \A f \in Functions : Absent.trials[f] = "none"
      BY DEF Absent, Row
  <2> QED BY <2>1, <2>2 DEF Debts, ChangesOwed, PaidAtMark, TrialsSeen, UnchangedUnsaved, At
<1>2. Typed /\ Core /\ (Typed /\ Core)' /\ Debts /\ [Next]_vars => Debts'
    BY FreshStep
<1>3. Typed /\ Core /\ Debts => FreshEvidence
  <2> SUFFICES ASSUME Typed, Core, Debts, At("reanalysis"), NEW f \in unexported,
                      NEW s \in Scopes, Owes(s, f)
               PROVE  /\ s # handler.scope
                      /\ cycle[s].phase \in {"names", "types", "refreshing", "failed"}
      BY DEF FreshEvidence, Debts, ChangesOwed, TakenOver
  <2>1. cycle[s].phase \in {"names", "types", "refreshing", "failed"}
      BY DEF Owes, OwesNames, OwesTypes, OwesTrial
  <2>2. cycle[handler.scope].phase = "reanalysis"
      BY DEF At, Core, HandlerHere, SelectAt, Mine
  <2> QED BY <2>1, <2>2
<1> QED BY <1>1, <1>2, <1>3, CoreHolds, PTL DEF Spec

-----------------------------------------------------------------------------
\* What the cycle and the requests of all scopes promise each other: these read the evidence,
\* and the phases of the cycle change it alone.
Lock == INSTANCE EvidenceLock WITH
            Requests <- Scopes \X Functions,
            readers <- {k \in DOMAIN job : job[k] \in {"open", "uncertain"}},
            writing <- writer,
            held <- paused

LockSpec == Lock!Spec

\* The writer flag of the cycle is the lock that the queue implements, too: no request of any
\* scope is open while a phase changes the evidence, none starts until the flag is back, and
\* neither begins while the binary is paused.
THEOREM RecoveryImplementsLock == Spec => LockSpec
<1>1. ASSUME Init PROVE Lock!Init
  <2>1. paused = FALSE /\ writer = FALSE
      BY <1>1 DEF Init
  <2>2. job = [k \in Scopes \X Functions |-> IF k[1] = All THEN "queued" ELSE "none"]
      BY <1>1 DEF Init
  <2> QED BY <2>1, <2>2 DEF Lock!Init
<1>2. ASSUME Typed, [Next]_vars PROVE [Lock!Next]_(Lock!vars)
  <2>0. job \in [Scopes \X Functions -> {"none", "queued", "open", "done", "failed", "uncertain"}]
        /\ writer \in BOOLEAN /\ paused \in BOOLEAN
      BY <1>2 DEF Typed, QueueTypes
  <2>1. ASSUME NEW s \in Scopes, NEW f \in Functions, Ask(s, f) PROVE Lock!Enter
    <3>1. /\ ~writer /\ ~paused /\ UNCHANGED <<writer, paused>>
          /\ job' = [job EXCEPT ![<<s, f>>] = "open"]
        BY <2>1 DEF Ask
    <3> QED BY <2>0, <3>1 DEF Lock!Enter
  <2>2. ASSUME UNCHANGED writer, paused' \in {paused, TRUE}, DOMAIN job' = DOMAIN job,
               \A k \in DOMAIN job : job'[k] = job[k] \/ job'[k] \notin {"open", "uncertain"}
        PROVE  Lock!Leave
      BY <2>2 DEF Lock!Leave
  <2>3. ASSUME NEW s \in Scopes, NEW f \in Functions, Ends(s, f) PROVE Lock!Leave
    <3>1. /\ UNCHANGED <<writer, paused>>
          /\ \E status \in {"done", "failed"} : job' = [job EXCEPT ![<<s, f>>] = status]
        BY <2>3 DEF Ends, Answer, JobFails
    <3> QED BY <2>0, <2>2, <3>1
  <2>4. CASE Claim
    <3>1. ~writer /\ ~paused /\ writer' = TRUE /\ job' = job /\ paused' = paused /\ NothingOpen
        BY <2>4 DEF Claim, Drained, queue
    <3>2. \A k \in DOMAIN job : job[k] \notin {"open", "uncertain"}
        BY <2>0, <3>1 DEF NothingOpen
    <3> QED BY <3>1, <3>2 DEF Lock!Next, Lock!Acquire
  <2>5. CASE Release
      BY <2>5 DEF Release, queue, Lock!Next, Lock!Release
  <2>6. CASE Restart
    <3>1. writer' = FALSE /\ job' = [k \in DOMAIN job |-> IF job[k] = "open" THEN "uncertain" ELSE job[k]]
        BY <2>6 DEF Restart, WriterFreed
    <3>2. paused' \in {paused, TRUE}
        BY <2>0, <2>6 DEF Restart
    <3> QED BY <2>0, <3>1, <3>2 DEF Lock!Next, Lock!Release
  <2>7. CASE FollowUp \/ ChooseScope
    <3>1. UNCHANGED writer /\ paused' \in {paused, TRUE}
        BY <2>7 DEF FollowUp, ChooseScope
    <3>2. /\ DOMAIN job' = DOMAIN job
          /\ \A k \in DOMAIN job : job'[k] = job[k] \/ job'[k] = "queued"
        BY <2>7 DEF FollowUp, ChooseScope
    <3> QED BY <2>2, <3>1, <3>2 DEF Lock!Next
  <2>8. CASE Control
    <3>1. UNCHANGED writer
        BY <2>8 DEF Control
    <3>2. CASE UNCHANGED job
        BY <2>0, <2>8, <3>1, <3>2 DEF Control, Lock!Next, Lock!Control
    <3>3. CASE job' = [k \in DOMAIN job |-> IF job[k] \in {"failed", "uncertain"}
                                              THEN "queued" ELSE job[k]] /\ UNCHANGED paused
        BY <2>2, <3>1, <3>3 DEF Lock!Next
    <3> QED BY <2>8, <3>2, <3>3 DEF Control
  <2>9. CASE UNCHANGED <<job, writer, paused>>
      BY <2>9 DEF Lock!vars
  <2> QED BY <1>2, <2>1, <2>3, <2>4, <2>5, <2>6, <2>7, <2>8, <2>9
        DEF Lock!Next, Next, Requests, PhaseStep, Names, TypePlans, Refreshing, People, Ghidra, LateSave, vars, queue,
            Enter, AssessRow, AssessDone, NamesPreview, NamesKeep, NamesAgain, NamesBegin, NamesSave,
            NamesRecord, NamesDone, TypesNothing, TypesAgain, TypesPreview, TypesRefused, LocalsDropped,
            LocalsKeep, IsolateReject, IsolateAccept, TypesKeep, TypesBegin, TypesSave, TypesExport,
            TypesOutcome, TypesDone, TrialSave, TrialRecord, RefreshExport, RefreshNothing, Mark, Select,
            Finish, PhaseFails, Review, Correct
<1>3. Typed /\ [Next]_vars => [Lock!Next]_(Lock!vars)
    BY <1>2
<1> QED BY <1>1, <1>3, CoreHolds, PTL DEF Spec, LockSpec, Lock!Spec
-----------------------------------------------------------------------------
\* Each phase with the one that follows it.
Follows == {<<"assessing", "names">>, <<"names", "types">>, <<"types", "refreshing">>,
            <<"refreshing", "reanalysis">>, <<"reanalysis", "ended">>}

Starts(old, new) == old.phase = "absent" /\ new.phase = "assessing" /\ new.attempts = 0

\* The same pass, further on.
GoesOn(old, new) ==
    /\ old.phase \in Live /\ new.id = old.id /\ new.pass = old.pass
    /\ old.names # None => new.names = old.names
    /\ old.types # None => new.types = old.types
    /\ old.phase = "assessing" \/ new.proposals \subseteq old.proposals
    /\ \/ new.phase = old.phase /\ new.attempts \in {old.attempts, old.attempts + 1}
       \/ <<old.phase, new.phase>> \in Follows
       \/ new.phase = "failed" /\ new.attempts = MaxAttempts

\* A pass never goes back to an earlier phase, takes up another operation in the place of the
\* one it has named, or takes back what it counted; a cycle leaves its scope only for the next
\* pass, and one that has ended or failed stays so.
CyclesAdvance ==
    [][\A s \in Scopes : cycle'[s] # cycle[s] =>
        \/ Starts(cycle[s], cycle'[s])
        \/ /\ cycle[s].phase = "reanalysis" /\ cycle'[s] = Absent
           /\ \E t \in Scopes : /\ Starts(cycle[t], cycle'[t])
                                /\ cycle'[t].pass = cycle[s].pass + 1
        \/ GoesOn(cycle[s], cycle'[s])]_vars

\* What the steps of a phase make of their row.
LEMMA OwnRowGoesOn ==
    ASSUME Typed, Core
    PROVE  (\/ AssessDone \/ NamesKeep \/ NamesDone \/ TypesNothing \/ LocalsKeep \/ IsolateAccept
            \/ TypesKeep \/ TypesDone \/ Mark \/ Finish \/ PhaseFails
            \/ \E f \in Functions : TrialSave(f) \/ TrialRecord(f))
           => GoesOn(Mine, cycle'[handler.scope])
<1>0. Mine \in RowSet /\ handler.scope \in Scopes /\ cycle \in [Scopes -> RowSet]
    BY DEF Typed, CycleTypes, HandlerSet, Mine
<1>1. ASSUME NEW row, SetMine(row) PROVE cycle'[handler.scope] = row
    BY <1>0, <1>1 DEF SetMine
<1>2. /\ At("assessing") => Mine.phase = "assessing" /\ Mine.names = None /\ Mine.types = None
      /\ handler.at \in NamesAt => Mine.phase = "names"
      /\ handler.at \in TypesAt => Mine.phase = "types"
      /\ handler.at \in RefreshAt => Mine.phase = "refreshing"
      /\ handler.at \in SelectAt => Mine.phase = "reanalysis"
    BY <1>0 DEF Core, HandlerHere, RowsRefer, At, Mine
<1>3. ASSUME AssessDone PROVE GoesOn(Mine, cycle'[handler.scope])
  <2>1. PICK kept \in SUBSET Validated : SetMine([Mine EXCEPT !.phase = "names", !.proposals = kept])
      BY <1>3 DEF AssessDone
  <2>2. At("assessing")
      BY <1>3 DEF AssessDone
  <2> QED BY <1>0, <1>1, <1>2, <2>1, <2>2 DEF GoesOn, RowSet, Live, Follows
<1>4. ASSUME NamesKeep PROVE GoesOn(Mine, cycle'[handler.scope])
  <2>1. At("keep names")
      BY <1>4 DEF NamesKeep
  <2>2. SetMine([Mine EXCEPT !.names = handler.op])
      BY <1>4 DEF NamesKeep
  <2>3. Mine.phase = "names" /\ Mine.names = None
      BY <1>2, <2>1 DEF At, NamesAt, Core, HandlerRefers
  <2> QED BY <1>0, <1>1, <2>2, <2>3 DEF GoesOn, RowSet, Live
<1>5. ASSUME TypesKeep PROVE GoesOn(Mine, cycle'[handler.scope])
  <2>1. At("keep types")
      BY <1>5 DEF TypesKeep
  <2>2. SetMine([Mine EXCEPT !.types = handler.op])
      BY <1>5 DEF TypesKeep
  <2>3. Mine.phase = "types" /\ Mine.types = None
      BY <1>2, <2>1 DEF At, TypesAt, Core, HandlerRefers
  <2> QED BY <1>0, <1>1, <2>2, <2>3 DEF GoesOn, RowSet, Live
<1>6. ASSUME LocalsKeep \/ IsolateAccept PROVE GoesOn(Mine, cycle'[handler.scope])
  <2>1. At("keep without locals") \/ At("isolate")
      BY <1>6 DEF LocalsKeep, IsolateAccept
  <2>2. SetMine([Mine EXCEPT !.proposals = handler.proposals])
      BY <1>6 DEF LocalsKeep, IsolateAccept
  <2>3. Mine.phase = "types"
      BY <1>2, <2>1 DEF At, TypesAt, TriesAt
  <2>4. handler.proposals \subseteq Mine.proposals
      BY <2>1 DEF At, TriesAt, Core, HandlerRefers
  <2> QED BY <1>0, <1>1, <2>2, <2>3, <2>4 DEF GoesOn, RowSet, Live
<1>7. ASSUME NEW phase, Proceed(phase), Mine.phase \in Live, <<Mine.phase, phase>> \in Follows
      PROVE  GoesOn(Mine, cycle'[handler.scope])
  <2>1. SetMine([Mine EXCEPT !.phase = phase, !.attempts = 0, !.trials = [f \in Functions |-> "none"]])
      BY <1>7 DEF Proceed
  <2>2. \E row : /\ cycle'[handler.scope] = row /\ row.phase = phase
                 /\ row.id = Mine.id /\ row.pass = Mine.pass
                 /\ row.names = Mine.names /\ row.types = Mine.types
                 /\ row.proposals = Mine.proposals
      BY <1>0, <1>1, <2>1 DEF RowSet
  <2> QED BY <1>7, <2>2 DEF GoesOn
<1>8. ASSUME NamesDone PROVE GoesOn(Mine, cycle'[handler.scope])
  <2>1. At("apply names")
      BY <1>8 DEF NamesDone
  <2>2. Proceed("types")
      BY <1>8 DEF NamesDone
  <2>3. Mine.phase = "names"
      BY <1>2, <2>1 DEF At, NamesAt
  <2> QED BY <1>7, <2>2, <2>3 DEF Live, Follows
<1>9. ASSUME TypesNothing \/ TypesDone PROVE GoesOn(Mine, cycle'[handler.scope])
  <2>1. At("types") \/ At("types decided")
      BY <1>9 DEF TypesNothing, TypesDone
  <2>2. Proceed("refreshing")
      BY <1>9 DEF TypesNothing, TypesDone
  <2>3. Mine.phase = "types"
      BY <1>2, <2>1 DEF At, TypesAt, TriesAt
  <2> QED BY <1>7, <2>2, <2>3 DEF Live, Follows
<1>10. ASSUME Mark PROVE GoesOn(Mine, cycle'[handler.scope])
  <2>1. At("mark")
      BY <1>10 DEF Mark
  <2>2. Proceed("reanalysis")
      BY <1>10 DEF Mark
  <2>3. Mine.phase = "refreshing"
      BY <1>2, <2>1 DEF At, RefreshAt
  <2> QED BY <1>7, <2>2, <2>3 DEF Live, Follows
<1>11. ASSUME Finish PROVE GoesOn(Mine, cycle'[handler.scope])
  <2>1. At("selected")
      BY <1>11 DEF Finish
  <2>2. Proceed("ended")
      BY <1>11 DEF Finish
  <2>3. Mine.phase = "reanalysis"
      BY <1>2, <2>1 DEF At, SelectAt
  <2> QED BY <1>7, <2>2, <2>3 DEF Live, Follows
<1>12. ASSUME PhaseFails PROVE GoesOn(Mine, cycle'[handler.scope])
  <2>1. SetMine([Mine EXCEPT !.attempts = @ + 1,
                             !.phase = IF Mine.attempts + 1 >= MaxAttempts THEN "failed" ELSE @])
      BY <1>12 DEF PhaseFails, CountedFailure
  <2>2. handler.at \in {"assessing"} \cup NamesAt \cup TypesAt \cup RefreshAt \cup SelectAt
      BY <1>12 DEF PhaseFails, Typed, CycleTypes, HandlerSet, Places
  <2>3. Mine.phase \in Live
      BY <1>2, <2>2 DEF At, Live
  <2>4. Mine.attempts < MaxAttempts /\ Mine.attempts \in Nat /\ MaxAttempts \in Nat
      BY <1>0, <2>3, RecoveryAssumption DEF Core, RowsCount, RowSet, Mine
  <2>5. Mine.attempts + 1 >= MaxAttempts => Mine.attempts + 1 = MaxAttempts
      BY <2>4
  <2> QED BY <1>0, <1>1, <2>1, <2>3, <2>5 DEF GoesOn, RowSet
<1>13. ASSUME NEW f \in Functions, TrialSave(f) \/ TrialRecord(f)
       PROVE  GoesOn(Mine, cycle'[handler.scope])
  <2>1. At("refreshing") /\ \E outcome : SetMine([Mine EXCEPT !.trials[f] = outcome])
    <3>1. CASE TrialSave(f)
        BY <3>1 DEF TrialSave
    <3>2. CASE TrialRecord(f)
        BY <3>2 DEF TrialRecord
    <3> QED BY <1>13, <3>1, <3>2
  <2>2. PICK outcome : SetMine([Mine EXCEPT !.trials[f] = outcome])
      BY <2>1
  <2>3. Mine.phase = "refreshing"
      BY <1>2, <2>1 DEF At, RefreshAt
  <2> QED BY <1>0, <1>1, <2>2, <2>3 DEF GoesOn, RowSet, Live
<1> QED BY <1>3, <1>4, <1>5, <1>6, <1>8, <1>9, <1>10, <1>11, <1>12, <1>13

\* The safe half of "every cycle comes to its end": whatever fails, stops or is decided
\* meanwhile, a cycle only ever advances, and so comes to its end unless a phase of it is not
\* run again, or never returns.
THEOREM CyclesOnlyAdvance == Spec => CyclesAdvance
<1>1. ASSUME Typed, Core, Typed', [Next]_vars, NEW s \in Scopes, cycle'[s] # cycle[s]
      PROVE  \/ Starts(cycle[s], cycle'[s])
             \/ /\ cycle[s].phase = "reanalysis" /\ cycle'[s] = Absent
                /\ \E t \in Scopes : /\ Starts(cycle[t], cycle'[t])
                                     /\ cycle'[t].pass = cycle[s].pass + 1
             \/ GoesOn(cycle[s], cycle'[s])
  <2>0. cycle \in [Scopes -> RowSet]
      BY <1>1 DEF Typed, CycleTypes
  <2>1. CASE Enter /\ s = active /\ cycle[s].phase = "absent"
    <3>1. cycle'[s] = Row(runs, "assessing", 0)
        BY <2>0, <2>1 DEF Enter
    <3> QED BY <2>1, <3>1 DEF Starts, Row
  <2>2. CASE FollowUp /\ s \in {runs', handler.scope}
    <3>1. /\ cycle' = [cycle EXCEPT ![runs'] = Row(runs', "assessing", Mine.pass + 1),
                                    ![handler.scope] = Absent]
          /\ runs' = runs + 1 /\ runs \in Nat /\ runs' \in Scopes /\ handler.scope \in Scopes
          /\ Mine.phase = "reanalysis"
        BY <1>1, <2>2, ScopesAreNat
           DEF FollowUp, Typed, QueueTypes, CycleTypes, HandlerSet, At, Core, HandlerHere, SelectAt
    <3>2. cycle[runs'].phase = "absent"
      <4>1. runs' > runs
          BY <3>1
      <4> QED BY <1>1, <3>1, <4>1 DEF Core, RowsCount
    <3>3. handler.scope # runs'
        BY <3>1, <3>2 DEF Mine
    <3>4. cycle'[handler.scope] = Absent /\ cycle'[runs'] = Row(runs', "assessing", Mine.pass + 1)
        BY <2>0, <3>1, <3>3
    <3>5. Starts(cycle[runs'], cycle'[runs']) /\ cycle'[runs'].pass = Mine.pass + 1
        BY <3>2, <3>4 DEF Starts, Row
    <3> QED BY <2>2, <3>1, <3>4, <3>5 DEF Mine
  <2>3. CASE /\ s = handler.scope
             /\ \/ AssessDone \/ NamesKeep \/ NamesDone \/ TypesNothing \/ LocalsKeep \/ IsolateAccept
                \/ TypesKeep \/ TypesDone \/ Mark \/ Finish \/ PhaseFails
                \/ \E f \in Functions : TrialSave(f) \/ TrialRecord(f)
      BY <1>1, <2>3, OwnRowGoesOn DEF Mine
  <2> QED BY <1>1, <2>1, <2>2, <2>3, OwnSteps
<1>2. Typed /\ Core /\ (Typed /\ Core)' /\ [Next]_vars =>
        \A s \in Scopes : cycle'[s] # cycle[s] =>
            \/ Starts(cycle[s], cycle'[s])
            \/ /\ cycle[s].phase = "reanalysis" /\ cycle'[s] = Absent
               /\ \E t \in Scopes : /\ Starts(cycle[t], cycle'[t])
                                    /\ cycle'[t].pass = cycle[s].pass + 1
            \/ GoesOn(cycle[s], cycle'[s])
    BY <1>1
<1> QED BY <1>2, CoreHolds, PTL DEF Spec, CyclesAdvance
=============================================================================
