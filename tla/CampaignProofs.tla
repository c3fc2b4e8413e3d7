--------------------------- MODULE CampaignProofs ---------------------------
(***************************************************************************)
(* Theorems about Campaign, for any machine, submissions, revisions and    *)
(* numbers of kills and changes: what a measurement that is recorded rests *)
(* on, and what the result of a check means.                               *)
(*                                                                         *)
(* Trusted says something of the files only.  What makes it inductive is   *)
(* the list of steps the driver has left: a setting step that is not on it *)
(* has its file, and none comes after a measurement; a config changes only *)
(* in the data step, which is not run once data.json is there; and the run *)
(* `latest` names, when the check step reads it, is the step's own.        *)
(***************************************************************************)
EXTENDS Campaign, SequenceTheorems, TLAPS

InOrder(steps) == \A i, j \in 1 .. Len(steps) : steps[i] \in Measured /\ steps[j] \in Setting => j < i

\* What the job does, and the files of the steps it has passed.
Driver ==
  /\ (given # None \/ camp # "off") =>
       setup.campaign # {} /\ given \in Submissions /\ given.steps = STEPS /\ given.redo = {}
  /\ camp # "off" => /\ todo \in Seq(ToSet(STEPS)) /\ InOrder(todo)
                     /\ \A x \in Setting : done[x] # None \/ x \in Range(todo)
  /\ camp \notin {"off", "next"} => todo # <<>>
  /\ camp \notin {"off", "next", "write"} /\ Step1 # "report" => done[Step1] = None
  /\ camp = "check" => Step1 = "check"
  /\ camp \in {"case", "config", "tiles", "retile"} => Step1 = "data"
  /\ camp = "measure" => Step1 \notin {"check", "data"}

\* A record of the tiles a size has.
Known(r) == r \in [edge : Edges, size : Sizes] /\ Readable(r.size) /\ r.edge = config[r.size]

Files ==
  /\ done \in [ToSet(STEPS) -> Outcomes \union {None, Torn}] /\ config \in [Sizes -> Edges \union {None, Torn}]
  /\ \A s \in Measured, x \in Setting : done[s] # None => done[x] # None
  /\ \A s \in Measured \union {"data"} : Whole(s) => Known(done[s])
  /\ Whole("check") => done["check"].result # "FAIL"
  /\ camp \in {"open", "write"} =>
       /\ outcome \in Outcomes
       /\ Step1 \in Measured \union {"data"} => Known(outcome)
       /\ Step1 = "check" => outcome.result # "FAIL"

\* A check has, among others, these fields.
Form(j) == {"pc", "id", "result"} \subseteq DOMAIN j

Own(l, id) == l \in {None, id}

Recording == {"copy", "fill", "hash", "document", "report"}

\* The checks there are: the campaign's has the campaign's run, those by hand have others.
Jobs ==
  /\ DOMAIN job = Places
  /\ \A p \in Places : job[p] # None =>
       Form(job[p]) /\ job[p].id \in DOMAIN reports /\ (job[p].id = run <=> p = Node)

\* The campaign's own check, and what it leaves.
OwnCheck ==
  /\ reports \in Seq(Range(reports)) /\ run \in {0} \union DOMAIN reports /\ DOMAIN latest = Roots /\ Jobs
  /\ job[Node] # None => camp = "check"
  /\ camp = "check" => run # 0
  /\ camp = "check" /\ job[Node] # None =>
       LET j == job[Node] IN
       /\ reports[run] = None
       /\ j.pc # "unlink" => Own(latest[Root(Node)], run)
       /\ j.pc = "symlink" => latest[Root(Node)] = None
       /\ j.pc \in Recording => j.result \in Results
  /\ camp = "check" /\ job[Node] = None =>
       (reports[run] # None => Own(latest[Root(Node)], run) /\ reports[run] \in Results)

Good == Driver /\ Files /\ (setup.campaign # {} => OwnCheck)

IInv == setup \in Setups /\ (~partial => Good)

(***************************************************************************)
(* The list of steps.                                                      *)
(***************************************************************************)
LEMMA Steps ==
  /\ STEPS \in Seq(ToSet(STEPS)) /\ STEPS # <<>>
  /\ Setting \subseteq Range(STEPS) /\ InOrder(STEPS)
  /\ Setting \union Measured \subseteq ToSet(STEPS)
<1>1. /\ STEPS[1] = "env" /\ STEPS[2] = "check" /\ STEPS[4] = "data"
      /\ STEPS[5] = "storage" /\ STEPS[6] = "strong" /\ STEPS[7] = "weak" /\ STEPS[8] = "profile" /\ STEPS[10] = "e2e"
      /\ Len(STEPS) = 11 /\ DOMAIN STEPS = 1 .. 11
  BY DEF STEPS
<1>2. \A i \in 1 .. 11 : /\ STEPS[i] \in Setting => i \in {1, 2, 4}
                         /\ STEPS[i] \in Measured => i \in {5, 6, 7, 8, 10}
  BY DEF STEPS, Setting, Measured
<1>3. STEPS \in Seq(ToSet(STEPS)) /\ STEPS # <<>>
  <2>1. \A i \in 1 .. 11 : STEPS[i] \in ToSet(STEPS)
    BY <1>1 DEF ToSet
  <2>2. STEPS = [i \in 1 .. 11 |-> STEPS[i]]
    BY DEF STEPS
  <2>3. STEPS \in [1 .. 11 -> ToSet(STEPS)]
    BY <2>1, <2>2
  <2>4. STEPS \in Seq(ToSet(STEPS))
    <3>1. 11 \in Nat
      OBVIOUS
    <3> QED
      BY <2>3, <3>1, SeqDef, Zenon
  <2>5. STEPS # <<>>
    <3>1. Len(STEPS) # 0
      BY <1>1
    <3> QED
      BY ONLY <3>1, <2>4
  <2> QED
    BY <2>4, <2>5
<1>4. Setting \subseteq Range(STEPS)
  BY <1>1 DEF Setting, Range
<1>5. InOrder(STEPS)
  BY <1>1, <1>2 DEF InOrder
<1>6. Setting \union Measured \subseteq ToSet(STEPS)
  BY <1>1 DEF Setting, Measured, ToSet
<1> QED
  BY <1>3, <1>4, <1>5, <1>6

\* What is left of a list when its first step is passed.
LEMMA Rest ==
  ASSUME NEW t \in Seq(ToSet(STEPS)), t # <<>>, InOrder(t)
  PROVE  /\ Head(t) \in ToSet(STEPS) /\ Head(t) \in Range(t)
         /\ Tail(t) \in Seq(ToSet(STEPS)) /\ InOrder(Tail(t))
         /\ \A x \in Range(t) : x = Head(t) \/ x \in Range(Tail(t))
         /\ Head(t) \in Measured => \A x \in Setting : x \notin Range(t)
<1>1. /\ Len(t) \in Nat /\ Len(t) > 0 /\ DOMAIN t = 1 .. Len(t) /\ Head(t) = t[1]
      /\ Tail(t) \in Seq(ToSet(STEPS)) /\ Len(Tail(t)) = Len(t) - 1 /\ DOMAIN Tail(t) = 1 .. Len(Tail(t))
      /\ \A i \in 1 .. Len(Tail(t)) : Tail(t)[i] = t[i + 1]
  OBVIOUS
<1>2. Head(t) \in ToSet(STEPS) /\ Head(t) \in Range(t)
  BY <1>1 DEF Range
<1>3. InOrder(Tail(t))
  <2> SUFFICES ASSUME NEW i \in 1 .. Len(Tail(t)), NEW j \in 1 .. Len(Tail(t)),
                      Tail(t)[i] \in Measured, Tail(t)[j] \in Setting
               PROVE  j < i
    BY DEF InOrder
  <2>1. i + 1 \in 1 .. Len(t) /\ j + 1 \in 1 .. Len(t) /\ t[i + 1] \in Measured /\ t[j + 1] \in Setting
    BY <1>1
  <2>2. j + 1 < i + 1
    BY <2>1 DEF InOrder
  <2> QED
    BY <2>2
<1>4. ASSUME NEW x \in Range(t), x # Head(t)
      PROVE  x \in Range(Tail(t))
  <2>1. PICK i \in 1 .. Len(t) : t[i] = x
    BY <1>1 DEF Range
  <2>2. i - 1 \in 1 .. Len(Tail(t)) /\ Tail(t)[i - 1] = x
    BY <1>1, <1>4, <2>1
  <2> QED
    BY <1>1, <2>2 DEF Range
<1>5. ASSUME Head(t) \in Measured, NEW x \in Setting, x \in Range(t)
      PROVE  FALSE
  <2>1. PICK j \in 1 .. Len(t) : t[j] = x
    BY <1>1, <1>5 DEF Range
  <2>2. j < 1
    BY <1>1, <1>5, <2>1 DEF InOrder
  <2> QED
    BY <2>1, <2>2
<1> QED
  BY <1>1, <1>2, <1>3, <1>4, <1>5

\* A list with its first step passed keeps what Driver says of lists.
LEMMA Passing ==
  ASSUME Driver, camp # "off", todo # <<>>, done[Step1] # None \/ Step1 \notin Setting
  PROVE  /\ Tail(todo) \in Seq(ToSet(STEPS)) /\ InOrder(Tail(todo))
         /\ \A x \in Setting : done[x] # None \/ x \in Range(Tail(todo))
BY Rest DEF Driver, Step1

\* When a measurement is first, the steps it rests on have their files.
LEMMA Before ==
  ASSUME Driver, camp # "off", todo # <<>>
  PROVE  /\ Step1 \in ToSet(STEPS)
         /\ Step1 \in Measured => \A x \in Setting : done[x] # None
BY Rest DEF Driver, Step1

LEMMA Names ==
  /\ None # Torn /\ None \notin Outcomes /\ Torn \notin Outcomes
  /\ None \notin Edges /\ Torn \notin Edges /\ None \notin Results
  /\ \A s \in Submissions : s.size \in Sizes /\ s.size \in Edges /\ TileEdge(s) \in Edges
BY OutcomeAssumption DEF Sizes, Edges

\* As long as the data step has not ended, nothing is recorded that names tiles.
LEMMA NothingKnown ==
  ASSUME Driver, Files, camp \in {"case", "config", "tiles", "retile"}
  PROVE  \A s \in Measured \union {"data"} : done[s] = None
<1>1. Step1 = "data" /\ done["data"] = None
  BY DEF Driver
<1> QED
  BY <1>1 DEF Files, Setting

(***************************************************************************)
(* Steps of a check, and what happens around it.                           *)
(***************************************************************************)
LEMMA CampKept ==
  ASSUME Driver, Files, UNCHANGED campVars, setup' = setup
  PROVE  Driver' /\ Files'
<1>1. UNCHANGED <<given, camp, todo, config, done, outcome>>
  BY DEF campVars
<1>2. Step1' = Step1
  BY <1>1 DEF Step1
<1>3. Driver'
  BY <1>1, <1>2 DEF Driver
<1>4. Files'
  BY <1>1, <1>2 DEF Files, Known, Whole, Readable
<1> QED
  BY <1>3, <1>4

LEMMA NodesRoot ==
  ASSUME setup \in Setups
  PROVE  /\ Node \in Places /\ Root(Node) \in Roots
         /\ setup.campaign # {} => Node \notin setup.users /\ \A p \in Places \ {Node} : Root(p) # Root(Node)
BY ChecksAssumption, CampaignAssumption DEF Root, Roots, Range

\* What a step leaves of the check that takes it.
Moves(p, k) == job' = [job EXCEPT ![p] = k] /\ (k # None => Form(k) /\ k.id = job[p].id)

LEMMA LinkMoves ==
  ASSUME NEW p \in Places, Form(job[p]), Unlink(p) \/ Symlink(p)
  PROVE  \E k : Moves(p, k)
<1> DEFINE with(pc) == [job[p] EXCEPT !.pc = pc]
<1>1. Set(p, None) \/ Set(p, with("symlink")) \/ Set(p, with("load"))
  BY DEF Unlink, Symlink
<1>2. \A pc : Form(with(pc)) /\ with(pc).id = job[p].id
  BY DEF Form
<1> HIDE DEF with
<1> QED
  BY <1>1, <1>2 DEF Set, Moves

LEMMA LoadMoves ==
  ASSUME NEW p \in Places, Form(job[p]), Load(p)
  PROVE  \E k : Moves(p, k) /\ (k # None => k.pc = "steps")
<1>1. Set(p, None) \/ \E use : Set(p, Loaded(job[p], Host[p], use))
  BY DEF Load
<1>2. ASSUME NEW use, NEW k, k = Loaded(job[p], Host[p], use)
      PROVE  Form(k) /\ k.id = job[p].id /\ k.pc = "steps"
  BY <1>2 DEF Loaded, Form
<1> QED
  BY <1>1, <1>2 DEF Set, Moves

\* What Step makes of a check.
LEMMA StepMakes ==
  ASSUME NEW p, Step(p)
  PROVE  \E rev \in Runs(Head(job[p].todo), job[p]) : \E status, use :
           LET j == job[p] step == Head(j.todo) r == Revisions[rev] IN
           /\ status = StepStatus(step, j, p, r)
           /\ \/ status = "skip" /\ Set(p, Over(j, step, status, r))
              \/ status # "skip" /\ Set(p, Measuring(j, p, step, status, r, use))
              \/ Set(p, Raised(j, step, status, r))
BY Zenon DEF Step

LEMMA StepMoves ==
  ASSUME NEW p \in Places, Form(job[p]), Step(p)
  PROVE  \E k : Moves(p, k) /\ (k # None => k.pc = "steps")
<1>1. job[p].pc = "steps"
  BY DEF Step, At
<1>2. PICK step, status, r, use :
        \/ Set(p, Over(job[p], step, status, r))
        \/ Set(p, Measuring(job[p], p, step, status, r, use))
        \/ Set(p, Raised(job[p], step, status, r))
  BY StepMakes
<1>3. ASSUME NEW k, \/ k = Over(job[p], step, status, r)
                    \/ k = Measuring(job[p], p, step, status, r, use)
                    \/ k = Raised(job[p], step, status, r)
      PROVE  Form(k) /\ k.id = job[p].id /\ k.pc = "steps"
  <2> DEFINE over == Over(job[p], step, status, r)
  <2>1. Form(over) /\ over.id = job[p].id /\ over.pc = "steps"
    BY <1>1 DEF Over, Form
  <2> HIDE DEF over
  <2>2. \/ k = over
        \/ k = Measuring(job[p], p, step, status, r, use)
        \/ k = Raised(job[p], step, status, r)
    BY <1>3 DEF over
  <2> QED
    BY <2>1, <2>2 DEF Measuring, Raised, Form, over
<1> QED
  BY <1>2, <1>3 DEF Set, Moves

LEMMA CompareMoves ==
  ASSUME NEW p \in Places, Form(job[p]), Compare(p)
  PROVE  \E k : Moves(p, k) /\ (k # None => k.pc \in {"copy", "report"} /\ k.result \in Results)
<1>1. PICK use : Set(p, Judged(job[p], use))
  BY DEF Compare
<1> DEFINE cpuBusy == job[p].cpuBusy \/ use = "cpu"
           seen == [job[p] EXCEPT !.cpuBusy = cpuBusy, !.found = @ \union {x \in {"warn"} : cpuBusy}]
           judged == [seen EXCEPT !.result = Overall(seen)]
           k == [judged EXCEPT !.pc = IF Records(judged) THEN "copy" ELSE "report",
                               !.todo = SetToSeq(DOMAIN job[p].arrays)]
<1>2. Set(p, k)
  BY <1>1 DEF Judged
<1>3. Form(seen) /\ seen.id = job[p].id
  BY DEF Form
<1> HIDE DEF seen
<1>4. Form(judged) /\ judged.id = job[p].id /\ judged.result = Overall(seen)
  BY <1>3 DEF Form
<1> HIDE DEF judged
<1>5. Form(k) /\ k.id = job[p].id /\ k.pc \in {"copy", "report"} /\ k.result = Overall(seen)
  BY <1>4 DEF Form
<1> HIDE DEF k
<1>6. Overall(seen) \in Results
  BY DEF Overall, Results
<1> QED
  BY <1>2, <1>5, <1>6 DEF Set, Moves

LEMMA RecordMoves ==
  ASSUME NEW p \in Places, Form(job[p]),
         OpenArray(p) \/ FillArray(p) \/ HashArray(p) \/ OpenDocument(p) \/ WriteDocument(p)
  PROVE  /\ job[p].pc \in Recording
         /\ \E k : Moves(p, k) /\ (k # None => k.pc \in Recording /\ k.result = job[p].result)
<1>1. job[p].pc \in Recording
  BY DEF OpenArray, FillArray, HashArray, OpenDocument, WriteDocument, At, Recording
<1> DEFINE with(pc) == [job[p] EXCEPT !.pc = pc]
           hashed(d) == [job[p] EXCEPT !.pc = "copy", !.todo = Tail(@), !.digests = Updated(@, d)]
<1>2. \/ Set(p, None)
      \/ \E pc \in Recording : Set(p, with(pc))
      \/ \E d : Set(p, hashed(d))
  BY DEF OpenArray, FillArray, HashArray, OpenDocument, WriteDocument, Recording
<1>3. \A pc : Form(with(pc)) /\ with(pc).id = job[p].id /\ with(pc).pc = pc /\ with(pc).result = job[p].result
  BY DEF Form
<1>4. \A d : Form(hashed(d)) /\ hashed(d).id = job[p].id /\ hashed(d).pc \in Recording /\ hashed(d).result = job[p].result
  BY DEF Form, Recording
<1> HIDE DEF with, hashed
<1> QED
  BY <1>1, <1>2, <1>3, <1>4 DEF Set, Moves

\* A sequence is one of what it holds.
LEMMA OwnRange ==
  ASSUME NEW S, NEW t \in Seq(S)
  PROVE  t \in Seq(Range(t))
<1>1. Len(t) \in Nat /\ DOMAIN t = 1 .. Len(t) /\ t = [i \in 1 .. Len(t) |-> t[i]]
  OBVIOUS
<1>2. \A i \in 1 .. Len(t) : t[i] \in Range(t)
  BY <1>1 DEF Range
<1>3. t \in [1 .. Len(t) -> Range(t)]
  BY <1>1, <1>2
<1>4. Len(t) \in Nat
  BY <1>1
<1>5. Seq(Range(t)) = UNION {[1 .. n -> Range(t)] : n \in Nat}
  BY SeqDef
<1> QED
  BY ONLY <1>3, <1>4, <1>5

\* A sequence with an entry replaced, or with one more: Begin's and Report's.
LEMMA Slot ==
  ASSUME NEW s, s \in Seq(Range(s)), NEW id, id \in DOMAIN s \/ id = Len(s) + 1, NEW t,
         DOMAIN t = DOMAIN s \union {id}, t = [i \in DOMAIN t |-> t[i]],
         \A i \in DOMAIN s : i # id => t[i] = s[i]
  PROVE  t \in Seq(Range(t))
<1> DEFINE S == Range(s) \union {t[id]}
<1>1. s \in Seq(S) /\ t[id] \in S
  BY SeqMonotonic
<1> HIDE DEF S
<1>2. PICK n \in Nat : DOMAIN t = 1 .. n
  <2>1. Len(s) \in Nat /\ DOMAIN s = 1 .. Len(s)
    BY <1>1
  <2>2. CASE id \in DOMAIN s
    BY <2>1, <2>2
  <2>3. CASE id = Len(s) + 1
    <3>1. DOMAIN s \union {id} = 1 .. Len(s) + 1 /\ Len(s) + 1 \in Nat
      BY <2>1, <2>3
    <3> QED
      BY <3>1
  <2> QED
    BY <2>2, <2>3
<1>3. \A i \in DOMAIN s : s[i] \in S
  BY <1>1
<1>4. t \in [1 .. n -> S]
  BY <1>1, <1>2, <1>3
<1>5. t \in Seq(S)
  BY <1>4, SeqDef, Zenon
<1> QED
  BY <1>5, OwnRange

\* The campaign's check goes on, with reports and `latest` as they were.
LEMMA CheckGoesOn ==
  ASSUME OwnCheck, Node \in Places, job[Node] # None, UNCHANGED <<setup, camp, run, reports, latest>>,
         NEW k, Moves(Node, k), job[Node].pc \notin {"unlink", "symlink"},
         k # None => k.pc \notin {"unlink", "symlink"} /\ (k.pc \in Recording => k.result \in Results)
  PROVE  OwnCheck'
<1>1. camp = "check" /\ reports[run] = None /\ Own(latest[Root(Node)], run)
  BY DEF OwnCheck
<1>2. job'[Node] = k /\ DOMAIN job' = Places /\ \A p \in Places \ {Node} : job'[p] = job[p]
  BY DEF OwnCheck, Jobs, Moves
<1>3. Jobs'
  BY <1>2 DEF OwnCheck, Jobs, Moves, Form
<1>4. Root(Node)' = Root(Node) /\ Roots' = Roots
  BY DEF Root, Roots
<1> QED
  BY <1>1, <1>2, <1>3, <1>4 DEF OwnCheck, Own, Form, Range

\* What there is to know of a place at which a check runs.
LEMMA Current ==
  ASSUME OwnCheck, NEW p \in Places, job[p] # None
  PROVE  /\ Form(job[p]) /\ job[p].id \in DOMAIN reports /\ (job[p].id = run <=> p = Node)
         /\ p = Node => /\ camp = "check" /\ reports[run] = None
                        /\ job[p].pc # "unlink" => Own(latest[Root(Node)], run)
                        /\ job[p].pc = "symlink" => latest[Root(Node)] = None
                        /\ job[p].pc \in Recording => job[p].result \in Results
BY DEF OwnCheck, Jobs

\* What the campaign's place sees of the steps elsewhere: other roots, and other runs.
LEMMA ElsewhereGoesOn ==
  ASSUME OwnCheck, setup \in Setups, setup.campaign # {}, NEW p \in Places \ {Node}, job[p] # None,
         UNCHANGED <<setup, camp, run>>, NEW k, Moves(p, k),
         DOMAIN latest' = DOMAIN latest, \A r \in DOMAIN latest : r # Root(p) => latest'[r] = latest[r],
         reports' \in Seq(Range(reports')), DOMAIN reports' = DOMAIN reports,
         \A i \in DOMAIN reports : i # job[p].id => reports'[i] = reports[i]
  PROVE  OwnCheck'
<1>1. job'[p] = k /\ DOMAIN job' = Places /\ \A q \in Places \ {p} : job'[q] = job[q]
  BY DEF OwnCheck, Jobs, Moves
<1>2. Form(job[p]) /\ job[p].id \in DOMAIN reports /\ job[p].id # run
  BY Current
<1>3. Jobs'
  BY <1>1, <1>2 DEF OwnCheck, Jobs, Moves, Form
<1>4. Node \in Places \ {p} /\ Root(Node) \in Roots /\ Root(p) # Root(Node)
  BY NodesRoot
<1>5. job'[Node] = job[Node] /\ Root(Node)' = Root(Node) /\ Roots' = Roots
  BY <1>1, <1>4 DEF Root, Roots
<1>6. latest'[Root(Node)] = latest[Root(Node)]
  BY <1>4 DEF OwnCheck
<1>7. run # 0 => reports'[run] = reports[run]
  BY <1>2 DEF OwnCheck
<1> QED
  BY <1>2, <1>3, <1>5, <1>6, <1>7 DEF OwnCheck, Own

LEMMA LinkOwn ==
  ASSUME OwnCheck, setup \in Setups, setup.campaign # {}, NEW p \in Places, Unlink(p) \/ Symlink(p),
         UNCHANGED <<camp, run>>
  PROVE  OwnCheck'
<1>1. job[p] # None /\ UNCHANGED <<setup, reports>>
  BY DEF Unlink, Symlink, At, hostVars
<1>2. Form(job[p]) /\ job[p].id \in DOMAIN reports /\ reports \in Seq(Range(reports)) /\ DOMAIN latest = Roots
  BY <1>1, Current DEF OwnCheck
<1>3. DOMAIN latest' = DOMAIN latest /\ \A r \in DOMAIN latest : r # Root(p) => latest'[r] = latest[r]
  BY DEF Unlink, Symlink
<1>4. CASE p # Node
  <2>1. PICK k : Moves(p, k)
    BY <1>2, LinkMoves
  <2>2. reports' \in Seq(Range(reports'))
    BY <1>1, <1>2 DEF Range
  <2> QED
    BY <1>1, <1>3, <1>4, <2>1, <2>2, ElsewhereGoesOn
<1>5. CASE p = Node
  <2>1. /\ job[Node].id = run /\ camp = "check" /\ reports[run] = None /\ Node \in Places /\ Root(Node) \in Roots
        /\ job[Node].pc = "symlink" => latest[Root(Node)] = None
    BY <1>1, <1>5, Current, NodesRoot
  <2>2. PICK k : Moves(Node, k)
    BY <1>2, <1>5, LinkMoves
  <2>3. job'[Node] = k /\ DOMAIN job' = Places /\ \A q \in Places \ {Node} : job'[q] = job[q]
    BY <2>1, <2>2 DEF OwnCheck, Jobs, Moves
  <2>4. Jobs'
    BY <1>1, <1>2, <1>5, <2>1, <2>2, <2>3 DEF OwnCheck, Jobs, Moves, Form
  <2>5. Root(Node)' = Root(Node) /\ Roots' = Roots
    BY <1>1 DEF Root, Roots
  <2>6. \/ latest'[Root(Node)] = None /\ job'[Node] = [job[Node] EXCEPT !.pc = "symlink"]
        \/ latest'[Root(Node)] = run /\ job'[Node] = [job[Node] EXCEPT !.pc = "load"]
    BY <1>2, <1>5, <2>1, <2>3 DEF Unlink, Symlink, At, Set, OwnCheck, Jobs
  <2>7. job'[Node].pc \in {"symlink", "load"} /\ (job'[Node].pc = "symlink" => latest'[Root(Node)] = None)
    BY <1>2, <1>5, <2>6 DEF Form
  <2> QED
    BY <1>1, <1>2, <1>3, <2>1, <2>4, <2>5, <2>6, <2>7 DEF OwnCheck, Own, Recording, Range
<1> QED
  BY <1>4, <1>5

\* The steps that keep to the check itself.
LEMMA InnerOwn ==
  ASSUME OwnCheck, setup \in Setups, setup.campaign # {}, NEW p \in Places, UNCHANGED <<camp, run>>,
         \/ Load(p) \/ Step(p) \/ Compare(p)
         \/ OpenArray(p) \/ FillArray(p) \/ HashArray(p) \/ OpenDocument(p) \/ WriteDocument(p)
  PROVE  OwnCheck'
<1>1. job[p] # None /\ UNCHANGED <<setup, latest, reports>>
  BY DEF Load, Step, Compare, OpenArray, FillArray, HashArray, OpenDocument, WriteDocument, At, hostVars
<1>2. Form(job[p]) /\ reports \in Seq(Range(reports))
  BY <1>1, Current DEF OwnCheck
<1>3. PICK k : /\ Moves(p, k) /\ job[p].pc \notin {"unlink", "symlink"}
               /\ k # None => \/ k.pc = "steps"
                              \/ k.pc \in Recording /\ k.result \in Results
                              \/ k.pc \in Recording /\ job[p].pc \in Recording /\ k.result = job[p].result
  <2>1. CASE Load(p)
    BY <1>2, <2>1, LoadMoves DEF Load, At
  <2>2. CASE Step(p)
    BY <1>2, <2>2, StepMoves DEF Step, At
  <2>3. CASE Compare(p)
    BY <1>2, <2>3, CompareMoves DEF Compare, At, Recording
  <2>4. CASE OpenArray(p) \/ FillArray(p) \/ HashArray(p) \/ OpenDocument(p) \/ WriteDocument(p)
    BY <1>2, <2>4, RecordMoves DEF Recording
  <2> QED
    BY <2>1, <2>2, <2>3, <2>4
<1>4. CASE p # Node
  <2>1. reports' \in Seq(Range(reports'))
    BY <1>1, <1>2 DEF Range
  <2> QED
    BY <1>1, <1>3, <1>4, <2>1, ElsewhereGoesOn
<1>5. CASE p = Node
  <2>1. k # None => k.pc \notin {"unlink", "symlink"} /\ (k.pc \in Recording => k.result \in Results)
    BY <1>1, <1>3, <1>5, Current DEF Recording
  <2> QED
    BY <1>1, <1>3, <1>5, <2>1, CheckGoesOn
<1> QED
  BY <1>4, <1>5

LEMMA ReportOwn ==
  ASSUME OwnCheck, setup \in Setups, setup.campaign # {}, NEW p \in Places, Report(p), UNCHANGED <<camp, run>>
  PROVE  OwnCheck'
<1>1. /\ job[p] # None /\ job[p].pc = "report" /\ UNCHANGED <<setup, latest>>
      /\ reports' = [reports EXCEPT ![job[p].id] = job[p].result] /\ job' = [job EXCEPT ![p] = None]
  BY DEF Report, At, Set, hostVars
<1>2. /\ Form(job[p]) /\ job[p].id \in DOMAIN reports /\ reports \in Seq(Range(reports))
      /\ job[p].id = run <=> p = Node
  BY <1>1, Current DEF OwnCheck
<1>3. /\ DOMAIN reports' = DOMAIN reports /\ reports' = [i \in DOMAIN reports' |-> reports'[i]]
      /\ \A i \in DOMAIN reports : i # job[p].id => reports'[i] = reports[i]
      /\ reports'[job[p].id] = job[p].result
  BY <1>1, <1>2
<1>4. reports' \in Seq(Range(reports'))
  <2> DEFINE s == reports
             t == reports'
             id == job[p].id
  <2>1. /\ s \in Seq(Range(s)) /\ id \in DOMAIN s /\ DOMAIN t = DOMAIN s \union {id}
        /\ t = [i \in DOMAIN t |-> t[i]] /\ \A i \in DOMAIN s : i # id => t[i] = s[i]
    BY <1>2, <1>3
  <2> HIDE DEF s, t, id
  <2>2. t \in Seq(Range(t))
    BY <2>1, Slot
  <2> QED
    BY <2>2 DEF t
<1>5. CASE p # Node
  <2>1. Moves(p, None)
    BY <1>1 DEF Moves
  <2> QED
    BY <1>1, <1>3, <1>4, <1>5, <2>1, ElsewhereGoesOn
<1>6. CASE p = Node
  <2>1. Own(latest[Root(Node)], run) /\ job[p].result \in Results /\ camp = "check" /\ job[p].id = run
    BY <1>1, <1>6, Current DEF Recording
  <2>2. job'[Node] = None /\ DOMAIN job' = Places /\ \A q \in Places \ {Node} : job'[q] = job[q]
    BY <1>1, <1>6 DEF OwnCheck, Jobs
  <2>3. Jobs'
    BY <1>3, <2>2 DEF OwnCheck, Jobs, Form
  <2>4. Root(Node)' = Root(Node) /\ Roots' = Roots
    BY <1>1 DEF Root, Roots
  <2> QED
    BY <1>1, <1>3, <1>4, <2>1, <2>2, <2>3, <2>4 DEF OwnCheck, Own
<1> QED
  BY <1>5, <1>6

\* A step of a check, wherever, keeps OwnCheck.
LEMMA CheckingGood ==
  ASSUME setup \in Setups, Good, NEW p \in Places, Checking(p)
  PROVE  Good'
<1>1. UNCHANGED <<setup, campVars, camp, run>> /\ CheckStep(p)
  BY DEF Checking, CheckStep, Unlink, Symlink, Load, Step, Compare, OpenArray, FillArray, HashArray, OpenDocument,
     WriteDocument, Report, hostVars, campVars
<1>2. OwnCheck /\ setup.campaign # {} => OwnCheck'
  BY <1>1, LinkOwn, InnerOwn, ReportOwn DEF CheckStep
<1> QED
  BY <1>1, <1>2, CampKept DEF Good

LEMMA BeginMakes ==
  ASSUME reports \in Seq(Range(reports)), NEW p \in Places, NEW q, NEW id, Begin(p, q, id),
         id \in DOMAIN reports \/ id = Len(reports) + 1, DOMAIN job = Places
  PROVE  /\ reports' \in Seq(Range(reports')) /\ DOMAIN reports' = DOMAIN reports \union {id} /\ reports'[id] = None
         /\ \A i \in DOMAIN reports : i # id => reports'[i] = reports[i]
         /\ DOMAIN job' = Places /\ \A x \in Places \ {p} : job'[x] = job[x]
         /\ Form(job'[p]) /\ job'[p].id = id /\ job'[p].pc = "unlink"
         /\ job[p] = None /\ UNCHANGED <<setup, latest>>
<1>1. /\ DOMAIN reports' = DOMAIN reports \union {id} /\ reports' = [i \in DOMAIN reports' |-> reports'[i]]
      /\ reports'[id] = None /\ \A i \in DOMAIN reports : i # id => reports'[i] = reports[i]
  BY DEF Begin
<1>2. reports' \in Seq(Range(reports'))
  <2> DEFINE s == reports
             t == reports'
  <2>1. /\ s \in Seq(Range(s)) /\ (id \in DOMAIN s \/ id = Len(s) + 1) /\ DOMAIN t = DOMAIN s \union {id}
        /\ t = [i \in DOMAIN t |-> t[i]] /\ \A i \in DOMAIN s : i # id => t[i] = s[i]
    BY <1>1
  <2> HIDE DEF s, t
  <2>2. t \in Seq(Range(t))
    BY <2>1, Slot
  <2> QED
    BY <2>2 DEF t
<1> DEFINE k == [pc |-> "unlink", id |-> id, request |-> q, revision |-> revision, doc |-> None,
                 print |-> print[Host[p]], gpuBusy |-> FALSE, cpuBusy |-> FALSE, todo |-> <<>>, statuses |-> {},
                 found |-> {}, skipped |-> FALSE, held |-> {}, metrics |-> <<>>, arrays |-> <<>>, ref |-> None,
                 intact |-> TRUE, digests |-> <<>>, result |-> None]
<1>3. job' = [job EXCEPT ![p] = k] /\ job[p] = None /\ UNCHANGED <<setup, latest>>
  BY DEF Begin, Set, hostVars
<1>4. Form(k) /\ k.id = id /\ k.pc = "unlink"
  BY DEF Form
<1> HIDE DEF k
<1> QED
  BY <1>1, <1>2, <1>3, <1>4

\* By hand, a check is begun elsewhere, with a new run.
LEMMA BegunElsewhere ==
  ASSUME OwnCheck, setup \in Setups, setup.campaign # {}, NEW p \in setup.users, NEW q, NEW id,
         id = Len(reports) + 1, Begin(p, q, id), UNCHANGED <<camp, run>>
  PROVE  OwnCheck'
<1>1. p \in Places /\ p # Node /\ Node \in Places /\ Root(Node) \in Roots
  BY NodesRoot, ChecksAssumption
<1>2. reports \in Seq(Range(reports)) /\ id \notin DOMAIN reports /\ 0 \notin DOMAIN reports /\ id # 0
  BY DEF OwnCheck
<1>3. DOMAIN job = Places
  BY DEF OwnCheck, Jobs
<1>4. /\ reports' \in Seq(Range(reports')) /\ DOMAIN reports' = DOMAIN reports \union {id}
      /\ \A i \in DOMAIN reports : i # id => reports'[i] = reports[i]
      /\ UNCHANGED <<setup, latest>>
      /\ DOMAIN job' = Places /\ \A x \in Places \ {p} : job'[x] = job[x]
      /\ Form(job'[p]) /\ job'[p].id = id
  <2>0. p \in Places /\ (id \in DOMAIN reports \/ id = Len(reports) + 1)
    BY <1>1, <1>2
  <2>1. reports' \in Seq(Range(reports'))
    BY <1>2, <1>3, <2>0, BeginMakes
  <2>2. DOMAIN reports' = DOMAIN reports \union {id}
    BY <1>2, <1>3, <2>0, BeginMakes
  <2>3. \A i \in DOMAIN reports : i # id => reports'[i] = reports[i]
    BY DEF Begin
  <2>4. UNCHANGED <<setup, latest>>
    BY <1>2, <1>3, <2>0, BeginMakes
  <2>5. DOMAIN job' = Places
    BY <1>2, <1>3, <2>0, BeginMakes
  <2>6. \A x \in Places \ {p} : job'[x] = job[x]
    BY <1>2, <1>3, <2>0, BeginMakes
  <2>7. Form(job'[p])
    BY <1>2, <1>3, <2>0, BeginMakes
  <2>8. job'[p].id = id
    BY <1>2, <1>3, <2>0, BeginMakes
  <2> QED
    BY <2>1, <2>2, <2>3, <2>4, <2>5, <2>6, <2>7, <2>8
<1>6. run # id /\ (run # 0 => run \in DOMAIN reports /\ reports'[run] = reports[run])
  BY <1>2, <1>4 DEF OwnCheck
<1>7. Jobs'
  BY <1>1, <1>4, <1>6 DEF OwnCheck, Jobs, Form
<1>8. Root(Node)' = Root(Node) /\ Roots' = Roots
  BY <1>4 DEF Root, Roots
<1> QED
  BY <1>1, <1>4, <1>6, <1>7, <1>8 DEF OwnCheck, Own

\* A check elsewhere is killed.
LEMMA KilledElsewhere ==
  ASSUME OwnCheck, setup \in Setups, setup.campaign # {}, NEW p \in setup.users, KillCheck(p), UNCHANGED <<camp, run>>
  PROVE  OwnCheck'
<1>1. p \in Places \ {Node}
  BY NodesRoot, ChecksAssumption
<1>2. /\ job[p] # None /\ Moves(p, None) /\ UNCHANGED <<setup, latest, reports>>
  BY DEF KillCheck, Moves, Set
<1>3. reports' \in Seq(Range(reports'))
  BY <1>2 DEF OwnCheck, Range
<1> QED
  BY <1>1, <1>2, <1>3, ElsewhereGoesOn

LEMMA ByHandGood ==
  ASSUME setup \in Setups, Good, ByHand
  PROVE  Good'
<1>1. UNCHANGED <<setup, campVars>>
  BY DEF ByHand, KillCheck, OthersChange, Upgrade, Begin, Commit, Moved, CleanUp, hostVars
<1>2. Driver' /\ Files'
  BY <1>1, CampKept DEF Good
<1>3. ASSUME setup.campaign # {}, OwnCheck
      PROVE  OwnCheck'
  <2>1. UNCHANGED <<camp, run>>
    BY <1>1 DEF campVars
  <2>2. ASSUME NEW p \in setup.users, KillCheck(p)
        PROVE  OwnCheck'
    BY <1>3, <2>1, <2>2, KilledElsewhere
  <2>3. ASSUME NEW p \in setup.users, NEW q, Begin(p, q, Len(reports) + 1)
        PROVE  OwnCheck'
    <3>1. PICK id : id = Len(reports) + 1
      OBVIOUS
    <3>2. Begin(p, q, id)
      BY <2>3, <3>1 DEF Begin
    <3> QED
      BY <1>3, <2>1, <3>1, <3>2, BegunElsewhere
  <2>4. ASSUME UNCHANGED <<job, reports>>, DOMAIN latest' = DOMAIN latest,
               \A r \in DOMAIN latest : latest'[r] \in {latest[r], None}
        PROVE  OwnCheck'
    <3>1. Root(Node)' = Root(Node) /\ Roots' = Roots /\ Root(Node) \in Roots
      BY <1>1, NodesRoot DEF Root, Roots
    <3>2. Jobs'
      BY <1>3, <2>1, <2>4 DEF OwnCheck, Jobs, Form
    <3>3. reports' \in Seq(Range(reports'))
      BY <1>3, <2>4 DEF OwnCheck, Range
    <3> QED
      BY <1>3, <2>1, <2>4, <3>1, <3>2, <3>3 DEF OwnCheck, Own
  <2>5. \/ \E p \in setup.users : KillCheck(p) \/ \E q : Begin(p, q, Len(reports) + 1)
        \/ UNCHANGED <<job, reports, latest>>
        \/ \E r \in Roots : CleanUp(r)
    BY DEF ByHand, OthersChange, Upgrade, Commit, Moved
  <2>6. ASSUME NEW r \in Roots, CleanUp(r)
        PROVE  OwnCheck'
    BY <2>4, <2>6 DEF CleanUp
  <2> QED
    BY <2>2, <2>3, <2>4, <2>5, <2>6
<1> QED
  BY <1>1, <1>2, <1>3 DEF Good


(***************************************************************************)
(* Steps of the driver.                                                    *)
(***************************************************************************)
\* Without a check on the node, a step that leaves the suite alone keeps
\* OwnCheck.
LEMMA Quiet ==
  ASSUME setup \in Setups, OwnCheck, camp # "check", camp' # "check", UNCHANGED <<setup, run, reports, latest, job, run>>
  PROVE  OwnCheck'
<1>1. Root(Node)' = Root(Node) /\ Roots' = Roots
  BY DEF Root, Roots
<1>2. Jobs'
  BY DEF OwnCheck, Jobs, Form
<1>3. reports' \in Seq(Range(reports'))
  BY DEF OwnCheck, Range
<1> QED
  BY <1>1, <1>2, <1>3 DEF OwnCheck

LEMMA SubmitGood ==
  ASSUME setup \in Setups, Good, NEW sub \in Submissions, Submit(sub), ~partial'
  PROVE  Good'
<1>1. /\ camp = "off" /\ setup.campaign # {} /\ sub.steps = STEPS /\ sub.redo = {}
      /\ given' = sub /\ camp' = "next" /\ todo' = STEPS
      /\ UNCHANGED <<setup, run, reports, latest, job, config, done, outcome>>
  BY DEF Submit, checkVars, hostVars
<1>2. Driver'
  BY <1>1, Steps DEF Driver, InOrder, Measured, Setting, Range
<1>3. Files'
  BY <1>1 DEF Good, Files, Known, Whole, Readable
<1>4. OwnCheck'
  BY <1>1, Quiet DEF Good
<1> QED
  BY <1>2, <1>3, <1>4 DEF Good

LEMMA ResubmitGood ==
  ASSUME setup \in Setups, Good, Resubmit
  PROVE  Good'
<1>1. /\ camp = "off" /\ given # None /\ camp' = "next" /\ todo' = given.steps
      /\ UNCHANGED <<setup, run, reports, latest, job, given, config, done, outcome>>
  BY DEF Resubmit, checkVars, hostVars
<1>2. setup.campaign # {} /\ given \in Submissions /\ given.steps = STEPS /\ given.redo = {}
  BY <1>1 DEF Good, Driver
<1>3. Driver'
  BY <1>1, <1>2, Steps DEF Driver, InOrder, Measured, Setting, Range
<1>4. Files'
  BY <1>1 DEF Good, Files, Known, Whole, Readable
<1>5. OwnCheck'
  BY <1>1, <1>2, Quiet DEF Good
<1> QED
  BY <1>3, <1>4, <1>5 DEF Good

\* What holds while a job runs.
LEMMA Running ==
  ASSUME setup \in Setups, Good, camp # "off"
  PROVE  /\ Driver /\ Files /\ OwnCheck /\ setup.campaign # {} /\ given \in Submissions /\ given.size \in Sizes
         /\ given.steps = STEPS /\ given.redo = {}
         /\ todo \in Seq(ToSet(STEPS)) /\ InOrder(todo) /\ \A x \in Setting : done[x] # None \/ x \in Range(todo)
BY DEF Good, Driver, Sizes

\* The driver goes to its next step, or stops.
LEMMA GoesOn ==
  ASSUME Driver, camp # "off", todo # <<>>, UNCHANGED <<setup, given, done>>,
         \/ camp' = "off"
         \/ camp' = "next" /\ todo' = Tail(todo) /\ (done[Step1] # None \/ Step1 \notin Setting)
  PROVE  Driver'
<1>1. CASE camp' = "off"
  BY <1>1 DEF Driver
<1>2. CASE camp' = "next" /\ todo' = Tail(todo) /\ (done[Step1] # None \/ Step1 \notin Setting)
  BY <1>2, Passing DEF Driver, InOrder, Measured, Setting, Range
<1> QED
  BY <1>1, <1>2

\* It stays at the step.
LEMMA Stays ==
  ASSUME Driver, camp \notin {"off", "next", "write"}, UNCHANGED <<setup, given, done, todo>>,
         camp' \notin {"off", "next"},
         camp' = "check" => Step1 = "check",
         camp' \in {"case", "config", "tiles", "retile"} => Step1 = "data",
         camp' = "measure" => Step1 \notin {"check", "data"}
  PROVE  Driver'
BY DEF Driver, InOrder, Measured, Setting, Range, Step1

\* Nothing but where the driver is has changed.
LEMMA FilesKept ==
  ASSUME Files, UNCHANGED <<done, config>>, camp' \notin {"open", "write"}
  PROVE  Files'
BY DEF Files, Known, Whole, Readable

LEMMA JobEndsGood ==
  ASSUME setup \in Setups, Good, JobEnds
  PROVE  Good'
<1>1. /\ camp = "next" /\ todo = <<>> /\ camp' = "off"
      /\ UNCHANGED <<setup, run, reports, latest, job, given, config, done, outcome>>
  BY DEF JobEnds, checkVars, hostVars
<1>2. Driver'
  BY <1>1, Running DEF Driver
<1>3. Files' /\ OwnCheck'
  BY <1>1, Running, FilesKept, Quiet
<1> QED
  BY <1>2, <1>3 DEF Good

LEMMA KillJobGood ==
  ASSUME setup \in Setups, Good, KillJob
  PROVE  Good'
<1>1. /\ camp # "off" /\ camp' = "off" /\ job' = [job EXCEPT ![Node] = None]
      /\ UNCHANGED <<setup, run, reports, latest, given, config, done>>
  BY DEF KillJob, hostVars
<1>2. Driver'
  BY <1>1, Running DEF Driver
<1>3. Files'
  BY <1>1, Running, FilesKept
<1>4. OwnCheck'
  <2>1. OwnCheck /\ Node \in Places
    BY <1>1, Running, NodesRoot
  <2>2. DOMAIN job' = Places /\ job'[Node] = None /\ \A p \in Places \ {Node} : job'[p] = job[p]
    BY <1>1, <2>1 DEF OwnCheck, Jobs
  <2>3. Jobs'
    BY <1>1, <2>1, <2>2 DEF OwnCheck, Jobs, Form
  <2>4. Roots' = Roots
    BY <1>1 DEF Roots
  <2>5. reports' \in Seq(Range(reports'))
    BY <1>1, <2>1 DEF OwnCheck, Range
  <2> QED
    BY <1>1, <2>1, <2>2, <2>3, <2>4, <2>5 DEF OwnCheck
<1> QED
  BY <1>2, <1>3, <1>4 DEF Good

LEMMA NextStepGood ==
  ASSUME setup \in Setups, Good, NextStep
  PROVE  Good'
<1>1. /\ camp = "next" /\ todo # <<>> /\ UNCHANGED <<setup, latest, given, config, done, outcome>>
  BY DEF NextStep, checkVars, hostVars, Begin
<1>2. Driver /\ Files /\ OwnCheck /\ given.redo = {} /\ setup.campaign # {}
  BY <1>1, Running
<1>3. CASE PassedOver(Step1) /\ todo' = Tail(todo) /\ UNCHANGED <<checkVars, camp, run>>
  <2>1. done[Step1] # None /\ camp' = "next" /\ UNCHANGED <<reports, job, run>>
    BY <1>1, <1>3 DEF PassedOver, checkVars
  <2>2. Driver'
    BY <1>1, <1>2, <1>3, <2>1, GoesOn
  <2>3. Files' /\ OwnCheck'
    BY <1>1, <1>2, <2>1, FilesKept, Quiet
  <2> QED
    BY <2>2, <2>3 DEF Good
<1>4. CASE ~PassedOver(Step1) /\ UNCHANGED todo /\ camp' # "next"
  <2>1. Step1 # "report" => done[Step1] = None
    BY <1>2, <1>4 DEF PassedOver
  <2>2. \/ Step1 = "check" /\ camp' = "check" /\ run' = (IF run = 0 THEN Len(reports) + 1 ELSE run) /\ Begin(Node, NodeCheck, run')
        \/ Step1 = "data" /\ camp' \in {"case", "tiles"} /\ UNCHANGED <<checkVars, run>>
        \/ Step1 \notin {"check", "data"} /\ camp' = "measure" /\ UNCHANGED <<checkVars, run>>
    BY <1>1, <1>4 DEF NextStep
  <2>3. Driver'
    BY <1>1, <1>2, <1>4, <2>1, <2>2 DEF Driver, InOrder, Measured, Setting, Range, Step1
  <2>4. Files'
    BY <1>1, <1>2, <2>2, FilesKept
  <2>5. OwnCheck'
    <3>1. CASE camp' # "check"
      BY <1>1, <1>2, <2>2, <3>1, Quiet DEF checkVars
    <3>2. CASE camp' = "check"
      <4>1. run' = (IF run = 0 THEN Len(reports) + 1 ELSE run) /\ Begin(Node, NodeCheck, run')
        BY <2>2, <3>2
      <4>2. reports \in Seq(Range(reports)) /\ (run' \in DOMAIN reports \/ run' = Len(reports) + 1) /\ run' # 0
        BY <1>2, <4>1 DEF OwnCheck
      <4>3. Node \in Places /\ Root(Node) \in Roots
        BY NodesRoot
      <4>4. /\ reports' \in Seq(Range(reports')) /\ DOMAIN reports' = DOMAIN reports \union {run'}
            /\ reports'[run'] = None
            /\ \A i \in DOMAIN reports : i # run' => reports'[i] = reports[i]
            /\ DOMAIN job' = Places /\ \A x \in Places \ {Node} : job'[x] = job[x]
            /\ Form(job'[Node]) /\ job'[Node].id = run' /\ job'[Node].pc = "unlink"
        <5>1. PICK id : id = run'
          OBVIOUS
        <5>2. Begin(Node, NodeCheck, id) /\ (id \in DOMAIN reports \/ id = Len(reports) + 1)
          BY <4>1, <4>2, <5>1 DEF Begin
        <5> QED
          <6>0. DOMAIN job = Places
            BY <1>2 DEF OwnCheck, Jobs
          <6>1. reports' \in Seq(Range(reports'))
            BY <4>2, <4>3, <5>2, <6>0, BeginMakes
          <6>2. DOMAIN reports' = DOMAIN reports \union {id}
            BY <4>2, <4>3, <5>2, <6>0, BeginMakes
          <6>3. reports'[id] = None
            BY <5>2 DEF Begin
          <6>4. \A i \in DOMAIN reports : i # id => reports'[i] = reports[i]
            BY <5>2 DEF Begin
          <6>5. DOMAIN job' = Places
            BY <4>2, <4>3, <5>2, <6>0, BeginMakes
          <6>6. \A x \in Places \ {Node} : job'[x] = job[x]
            BY <4>2, <4>3, <5>2, <6>0, BeginMakes
          <6>7. Form(job'[Node])
            BY <4>2, <4>3, <5>2, <6>0, BeginMakes
          <6>8. job'[Node].id = id
            BY <4>3, <5>2, <6>0 DEF Begin, Set
          <6>9. job'[Node].pc = "unlink"
            BY <4>2, <4>3, <5>2, <6>0, BeginMakes
          <6> QED
            BY <5>1, <6>1, <6>2, <6>3, <6>4, <6>5, <6>6, <6>7, <6>8, <6>9
      <4>7. \A p \in Places \ {Node} : job[p] # None => job[p].id # run'
        BY <1>2, <4>1, <4>2 DEF OwnCheck, Jobs
      <4>8. Jobs'
        BY <1>2, <4>3, <4>4, <4>7 DEF OwnCheck, Jobs, Form
      <4>9. DOMAIN latest' = Roots' /\ Root(Node)' = Root(Node)
        BY <1>1, <1>2 DEF OwnCheck, Roots, Root
      <4> QED
        BY <3>2, <4>2, <4>4, <4>8, <4>9 DEF OwnCheck, Recording, Form
    <3> QED
      BY <3>1, <3>2
  <2> QED
    BY <2>3, <2>4, <2>5 DEF Good
<1> QED
  BY <1>1, <1>3, <1>4 DEF NextStep

\* A job that has a step to take.
LEMMA AtStep ==
  ASSUME setup \in Setups, Good, camp \notin {"off", "next"}
  PROVE  /\ todo # <<>> /\ Step1 \in ToSet(STEPS)
         /\ Step1 \in Measured => \A x \in Setting : done[x] # None
         /\ camp # "write" /\ Step1 # "report" => done[Step1] = None
         /\ camp = "check" => Step1 = "check"
         /\ camp \in {"case", "config", "tiles", "retile"} => Step1 = "data"
         /\ camp = "measure" => Step1 \notin {"check", "data"}
BY Running, Before DEF Driver

LEMMA OpenResultGood ==
  ASSUME setup \in Setups, Good, OpenResult
  PROVE  Good'
<1>1. /\ camp = "open" /\ camp' = "write" /\ done' = [done EXCEPT ![Step1] = Torn]
      /\ UNCHANGED <<setup, run, reports, latest, job, given, todo, config, outcome, Step1>>
  BY DEF OpenResult, checkVars, hostVars, Step1
<1>2. /\ Driver /\ Files /\ OwnCheck /\ todo # <<>> /\ Step1 \in ToSet(STEPS)
      /\ Step1 \in Measured => \A x \in Setting : done[x] # None
  BY <1>1, Running, AtStep
<1>3. DOMAIN done = ToSet(STEPS) /\ \A x \in ToSet(STEPS) : done'[x] = IF x = Step1 THEN Torn ELSE done[x]
  BY <1>1, <1>2 DEF Files
<1>4. Setting \union Measured \union {"data"} \subseteq ToSet(STEPS)
  BY Steps DEF Setting
<1>5. \A x \in Setting : done[x] # None => done'[x] # None
  BY <1>3, <1>4, Names
<1>6. Driver'
  BY <1>1, <1>2, <1>5 DEF Driver, InOrder, Measured, Setting, Range
<1>7. Files'
  <2>1. done' \in [ToSet(STEPS) -> Outcomes \union {None, Torn}] /\ config' \in [Sizes -> Edges \union {None, Torn}]
    BY <1>1, <1>2 DEF Files
  <2>2. \A s \in Measured, x \in Setting : done'[s] # None => done'[x] # None
    BY <1>2, <1>3, <1>4, <1>5 DEF Files
  <2>3. \A s \in ToSet(STEPS) : Whole(s)' => Whole(s) /\ done'[s] = done[s]
    BY <1>3 DEF Whole
  <2>4. "check" \in ToSet(STEPS)
    BY <1>4 DEF Setting
  <2> QED
    BY <1>1, <1>2, <1>4, <2>1, <2>2, <2>3, <2>4 DEF Files, Known, Readable
<1>8. OwnCheck'
  BY <1>1, <1>2, Quiet
<1> QED
  BY <1>6, <1>7, <1>8 DEF Good

LEMMA WriteResultGood ==
  ASSUME setup \in Setups, Good, WriteResult
  PROVE  Good'
<1>1. /\ camp = "write" /\ camp' = "next" /\ done' = [done EXCEPT ![Step1] = outcome] /\ todo' = Tail(todo)
      /\ UNCHANGED <<setup, run, reports, latest, job, given, config>>
  BY DEF WriteResult, checkVars, hostVars
<1>2. /\ Driver /\ Files /\ OwnCheck /\ todo # <<>> /\ Step1 \in ToSet(STEPS)
      /\ Step1 \in Measured => \A x \in Setting : done[x] # None
  BY <1>1, Running, AtStep
<1>3. DOMAIN done = ToSet(STEPS) /\ \A x \in ToSet(STEPS) : done'[x] = IF x = Step1 THEN outcome ELSE done[x]
  BY <1>1, <1>2 DEF Files
<1>4. Setting \union Measured \union {"data"} \subseteq ToSet(STEPS)
  BY Steps DEF Setting
<1>5. /\ outcome \in Outcomes /\ outcome \notin {None, Torn}
      /\ Step1 \in Measured \union {"data"} => Known(outcome)
      /\ Step1 = "check" => outcome.result # "FAIL"
  BY <1>1, <1>2, Names DEF Files
<1>6. \A x \in Setting : (done[x] # None \/ x = Step1) => done'[x] # None
  BY <1>3, <1>4, <1>5
<1>7. Driver'
  <2>1. Step1 \in Range(todo) /\ \A x \in Range(todo) : x = Step1 \/ x \in Range(Tail(todo))
    BY <1>1, <1>2, Rest DEF Driver, Step1
  <2>2. Tail(todo) \in Seq(ToSet(STEPS)) /\ InOrder(Tail(todo))
    BY <1>1, <1>2, Rest DEF Driver, Step1
  <2>3. \A x \in Setting : done'[x] # None \/ x \in Range(Tail(todo))
    BY <1>1, <1>2, <1>6, <2>1 DEF Driver
  <2> QED
    BY <1>1, <1>2, <2>2, <2>3 DEF Driver, InOrder, Measured, Setting, Range
<1>8. Files'
  <2>1. done' \in [ToSet(STEPS) -> Outcomes \union {None, Torn}] /\ config' \in [Sizes -> Edges \union {None, Torn}]
    BY <1>1, <1>2, <1>5 DEF Files
  <2>2. \A s \in Measured, x \in Setting : done'[s] # None => done'[x] # None
    BY <1>2, <1>3, <1>4, <1>6 DEF Files
  <2>3. \A s \in Measured \union {"data"} : Whole(s)' => Known(done'[s])
    BY <1>2, <1>3, <1>4, <1>5 DEF Files, Whole
  <2>4. \A r : Known(r)' <=> Known(r)
    BY <1>1 DEF Known, Readable
  <2>5. Whole("check")' => done'["check"].result # "FAIL"
    BY <1>2, <1>3, <1>4, <1>5 DEF Files, Whole, Setting
  <2> QED
    BY <1>1, <2>1, <2>2, <2>3, <2>4, <2>5 DEF Files
<1>9. OwnCheck'
  BY <1>1, <1>2, Quiet
<1> QED
  BY <1>7, <1>8, <1>9 DEF Good

\* A step fails.
LEMMA FailsGood ==
  ASSUME setup \in Setups, Good, camp \notin {"off", "next", "write"}, Fails,
         UNCHANGED <<setup, given, done, config>>
  PROVE  Driver' /\ Files' /\ camp' \in {"off", "next"}
<1>1. \/ camp' = "off"
      \/ camp' = "next" /\ todo' = Tail(todo) /\ Step1 \notin Setting
  BY DEF Fails
<1>2. Driver /\ Files /\ todo # <<>>
  BY Running, AtStep
<1>3. Driver'
  BY <1>1, <1>2, GoesOn
<1>4. Files'
  BY <1>1, <1>2, FilesKept
<1> QED
  BY <1>1, <1>3, <1>4

\* A step succeeds, with what it found.
LEMMA SucceedsGood ==
  ASSUME setup \in Setups, Good, camp \notin {"off", "next", "write"}, NEW found, Succeeds(found),
         UNCHANGED <<setup, given, done, config>>, found \in Outcomes,
         Step1 \in Measured \union {"data"} => Known(found), Step1 = "check" => found.result # "FAIL"
  PROVE  Driver' /\ Files' /\ camp' = "open"
<1>1. camp' = "open" /\ outcome' = found /\ UNCHANGED <<todo, Step1>>
  BY DEF Succeeds, Step1
<1>2. Driver /\ Files /\ todo # <<>>
  BY Running, AtStep
<1>3. Driver'
  BY <1>1, <1>2, Stays
<1>4. Files'
  BY <1>1, <1>2 DEF Files, Known, Whole, Readable
<1> QED
  BY <1>1, <1>3, <1>4

LEMMA CheckEndsGood ==
  ASSUME setup \in Setups, Good, CheckEnds
  PROVE  Good'
<1>1. camp = "check" /\ job[Node] = None /\ UNCHANGED <<setup, run, reports, latest, job, given, done, config>>
  BY DEF CheckEnds, checkVars, hostVars
<1>2. OwnCheck /\ Step1 = "check"
  BY <1>1, Running, AtStep
<1>3. Driver' /\ Files' /\ camp' # "check"
  <2>1. CASE Fails
    BY <1>1, <2>1, FailsGood
  <2>2. CASE ~Fails
    <3> DEFINE found == [result |-> IF latest[Root(Node)] = None THEN None ELSE reports[latest[Root(Node)]]]
    <3>1. Succeeds(found) /\ reports[run] \notin {None, "FAIL"}
      BY <2>2 DEF CheckEnds
    <3>2. Own(latest[Root(Node)], run) /\ reports[run] \in Results
      BY <1>1, <1>2, <3>1 DEF OwnCheck
    <3>3. found.result \in (Results \union {None}) \ {"FAIL"}
      <4>1. CASE latest[Root(Node)] = None
        BY <4>1, Names DEF Results
      <4>2. CASE latest[Root(Node)] # None
        BY <3>1, <3>2, <4>2 DEF Own
      <4> QED
        BY <4>1, <4>2
    <3>4. found \in Outcomes
      BY <3>3 DEF Outcomes
    <3>5. Step1 \notin Measured \union {"data"}
      BY <1>2 DEF Measured
    <3> HIDE DEF found
    <3> QED
      BY <1>1, <3>1, <3>3, <3>4, <3>5, SucceedsGood
  <2> QED
    BY <2>1, <2>2
<1>4. OwnCheck'
  <2>1. Jobs'
    BY <1>1, <1>2 DEF OwnCheck, Jobs, Form
  <2>2. Root(Node)' = Root(Node) /\ Roots' = Roots
    BY <1>1 DEF Root, Roots
  <2>3. reports' \in Seq(Range(reports'))
    BY <1>1, <1>2 DEF OwnCheck, Range
  <2> QED
    BY <1>1, <1>2, <1>3, <2>1, <2>2, <2>3 DEF OwnCheck
<1> QED
  BY <1>3, <1>4 DEF Good

LEMMA MakePartGood ==
  ASSUME setup \in Setups, Good, MakePart
  PROVE  Good'
<1>1. camp = "case" /\ UNCHANGED <<setup, run, reports, latest, job, given, done, config>>
  BY DEF MakePart, restVars
<1>2. Driver /\ Files /\ OwnCheck /\ Step1 = "data"
  BY <1>1, Running, AtStep
<1>3. Driver' /\ Files' /\ camp' # "check"
  <2>1. CASE Fails
    BY <1>1, <2>1, FailsGood
  <2>2. CASE UNCHANGED <<camp, todo, outcome>>
    <3>1. Driver'
      BY <1>1, <1>2, <2>2, Stays
    <3>2. Files'
      BY <1>1, <1>2, <2>2, FilesKept
    <3> QED
      BY <1>1, <2>2, <3>1, <3>2
  <2> QED
    BY <2>1, <2>2 DEF MakePart
<1>4. OwnCheck'
  BY <1>1, <1>2, <1>3, Quiet
<1> QED
  BY <1>3, <1>4 DEF Good

\* The config is rewritten, or has been.
LEMMA Rewrites ==
  ASSUME setup \in Setups, Good, camp \in {"case", "config", "tiles", "retile"}, UNCHANGED <<setup, given, done>>,
         NEW edge \in Edges \union {Torn}, config' = [config EXCEPT ![given.size] = edge]
  PROVE  /\ config' \in [Sizes -> Edges \union {None, Torn}] /\ config'[given.size] = edge
         /\ \A s \in Measured \union {"data"} : ~Whole(s)'
         /\ camp' \notin {"open", "write"} => Files'
<1>1. Driver /\ Files /\ given.size \in Sizes
  BY Running
<1>2. config' \in [Sizes -> Edges \union {None, Torn}] /\ config'[given.size] = edge
  BY <1>1 DEF Files
<1>3. \A s \in Measured \union {"data"} : ~Whole(s)'
  BY <1>1, NothingKnown DEF Whole
<1>4. Whole("check")' <=> Whole("check")
  BY DEF Whole
<1>5. ASSUME camp' \notin {"open", "write"}
      PROVE  Files'
  BY <1>1, <1>2, <1>3, <1>4, <1>5 DEF Files
<1> QED
  BY <1>2, <1>3, <1>5

LEMMA ConfigGood ==
  ASSUME setup \in Setups, Good, OpenConfig \/ WriteConfig
  PROVE  Good'
<1>1. /\ camp \in {"case", "config"} /\ camp' \in {"config", "tiles"}
      /\ UNCHANGED <<setup, run, reports, latest, job, given, todo, done>>
  BY DEF OpenConfig, WriteConfig, checkVars, hostVars
<1>2. Driver /\ Files /\ OwnCheck /\ Step1 = "data" /\ given \in Submissions
  BY <1>1, Running, AtStep
<1>3. PICK edge \in Edges \union {Torn} : config' = [config EXCEPT ![given.size] = edge]
  BY <1>2, Names DEF OpenConfig, WriteConfig
<1>4. Files'
  BY <1>1, <1>3, Rewrites
<1>5. Driver'
  BY <1>1, <1>2, Stays
<1>6. OwnCheck'
  BY <1>1, <1>2, Quiet
<1> QED
  BY <1>4, <1>5, <1>6 DEF Good

LEMMA RetileGood ==
  ASSUME setup \in Setups, Good, Retile
  PROVE  Good'
<1>1. camp = "tiles" /\ UNCHANGED <<setup, run, reports, latest, job, given, done>>
  BY DEF Retile, restVars
<1>2. Driver /\ Files /\ OwnCheck /\ Step1 = "data"
  BY <1>1, Running, AtStep
<1>3. Driver' /\ Files' /\ camp' # "check"
  <2>1. CASE Fails /\ UNCHANGED config
    BY <1>1, <2>1, FailsGood
  <2>2. CASE camp' = "retile" /\ config' = [config EXCEPT ![given.size] = Torn] /\ UNCHANGED todo
    BY <1>1, <1>2, <2>2, Stays, Rewrites
  <2> QED
    BY <2>1, <2>2 DEF Retile
<1>4. OwnCheck'
  BY <1>1, <1>2, <1>3, Quiet
<1> QED
  BY <1>3, <1>4 DEF Good

LEMMA RetiledGood ==
  ASSUME setup \in Setups, Good, Retiled
  PROVE  Good'
<1>1. /\ camp = "retile" /\ config' = [config EXCEPT ![given.size] = TileEdge(given)]
      /\ camp' = "open" /\ outcome' = [edge |-> TileEdge(given), size |-> given.size]
      /\ UNCHANGED <<setup, run, reports, latest, job, given, done, todo>>
  BY DEF Retiled, Succeeds, checkVars, hostVars
<1>2. Driver /\ Files /\ OwnCheck /\ Step1 = "data" /\ given \in Submissions /\ given.size \in Sizes
  BY <1>1, Running, AtStep
<1>3. TileEdge(given) \in Edges /\ TileEdge(given) \notin {None, Torn}
  BY <1>2, Names
<1>4. /\ config' \in [Sizes -> Edges \union {None, Torn}] /\ config'[given.size] = TileEdge(given)
      /\ \A s \in Measured \union {"data"} : ~Whole(s)'
  BY <1>1, <1>3, Rewrites
<1>5. Known(outcome)'
  BY <1>1, <1>2, <1>3, <1>4 DEF Known, Readable
<1>6. outcome' \in Outcomes
  BY <1>1, <1>2, <1>3 DEF Outcomes
<1>7. Driver'
  BY <1>1, <1>2, Stays
<1>8. Step1' = "data" /\ (Whole("check")' <=> Whole("check"))
  BY <1>1, <1>2 DEF Step1, Whole
<1>9. Files'
  BY <1>1, <1>2, <1>4, <1>5, <1>6, <1>8 DEF Files
<1>10. OwnCheck'
  BY <1>1, <1>2, Quiet
<1> QED
  BY <1>7, <1>9, <1>10 DEF Good

LEMMA MeasureGood ==
  ASSUME setup \in Setups, Good, Measure
  PROVE  Good'
<1>1. camp = "measure" /\ UNCHANGED <<setup, run, reports, latest, job, given, done, config>>
  BY DEF Measure, restVars
<1>2. Driver /\ Files /\ OwnCheck /\ Step1 \notin {"check", "data"} /\ given.size \in Sizes
  BY <1>1, Running, AtStep
<1>3. Driver' /\ Files' /\ camp' # "check"
  <2>1. CASE Fails
    BY <1>1, <2>1, FailsGood
  <2>2. CASE CanMeasure(Step1) /\ Step1 \in Measured /\ Succeeds([edge |-> config[given.size], size |-> given.size])
    <3>1. Readable(given.size) /\ config[given.size] \in Edges
      BY <1>2, <2>2 DEF CanMeasure, Readable, Files
    <3> DEFINE found == [edge |-> config[given.size], size |-> given.size]
    <3>2. Known(found) /\ found \in Outcomes
      BY <1>2, <3>1 DEF Known, Outcomes
    <3> QED
      BY <1>1, <1>2, <2>2, <3>2, SucceedsGood
  <2>3. CASE Step1 \notin Measured /\ Succeeds([edge |-> 0, size |-> 0])
    <3>1. [edge |-> 0, size |-> 0] \in Outcomes
      BY DEF Outcomes, Edges
    <3> QED
      BY <1>1, <1>2, <2>3, <3>1, SucceedsGood
  <2> QED
    BY <2>1, <2>2, <2>3 DEF Measure
<1>4. OwnCheck'
  BY <1>1, <1>2, <1>3, Quiet
<1> QED
  BY <1>3, <1>4 DEF Good

(***************************************************************************)
(* The invariant holds in every state that can be reached.                 *)
(***************************************************************************)
LEMMA InitIInv == Init => IInv
<1> SUFFICES ASSUME Init
             PROVE  IInv
  OBVIOUS
<1>1. /\ setup \in Setups /\ reports = <<>> /\ job = [p \in Places |-> None] /\ latest = [r \in Roots |-> None]
      /\ given = None /\ camp = "off" /\ run = 0 /\ done = [s \in ToSet(STEPS) |-> None] /\ config = [s \in Sizes |-> None]
  BY DEF Init, ChecksInit, CampaignInit
<1>2. Driver
  BY <1>1 DEF Driver
<1>3. \A s \in ToSet(STEPS) : done[s] = None
  BY <1>1
<1>4. Setting \union Measured \union {"data"} \subseteq ToSet(STEPS) /\ "check" \in Setting
  BY Steps DEF Setting
<1>5. Files
  BY <1>1, <1>3, <1>4 DEF Files, Whole
<1>6. OwnCheck
  <2>1. reports \in Seq(Range(reports))
    BY <1>1
  <2> QED
    BY <1>1, <2>1, NodesRoot DEF OwnCheck, Jobs
<1> QED
  BY <1>1, <1>2, <1>5, <1>6 DEF IInv, Good

LEMMA StutterGood ==
  ASSUME Good, UNCHANGED vars
  PROVE  Good'
<1>1. UNCHANGED <<setup, run, reports, latest, job, campVars>> /\ UNCHANGED camp
  BY DEF vars, checkVars, hostVars, campVars
<1>2. Driver' /\ Files'
  BY <1>1, CampKept DEF Good
<1>3. OwnCheck => OwnCheck'
  <2>1. Root(Node)' = Root(Node) /\ Roots' = Roots
    BY <1>1 DEF Root, Roots
  <2>2. Jobs => Jobs'
    BY <1>1 DEF Jobs, Form
  <2>3. reports \in Seq(Range(reports)) => reports' \in Seq(Range(reports'))
    BY <1>1 DEF Range
  <2> QED
    BY <1>1, <2>1, <2>2, <2>3 DEF OwnCheck, Own, Form
<1> QED
  BY <1>1, <1>2, <1>3 DEF Good

LEMMA WorkGood ==
  ASSUME setup \in Setups, Good, Work
  PROVE  Good'
BY NextStepGood, OpenResultGood, WriteResultGood, JobEndsGood, CheckEndsGood, MakePartGood, ConfigGood, RetileGood,
   RetiledGood, MeasureGood DEF Work

LEMMA NextIInv == IInv /\ [Next]_vars => IInv'
<1> SUFFICES ASSUME IInv, [Next]_vars
             PROVE  IInv'
  OBVIOUS
<1>1. UNCHANGED setup
  BY DEF Next, ByHand, Checking, Submit, Resubmit, Work, KillJob, KillCheck, OthersChange, Upgrade, Begin, Commit, Moved,
     CleanUp, CheckStep, Unlink, Symlink, Load, Step, Compare, OpenArray, FillArray, HashArray, OpenDocument,
     WriteDocument, Report, NextStep,
     OpenResult, WriteResult, JobEnds, CheckEnds, MakePart, OpenConfig, WriteConfig, Retile, Retiled, Measure,
     vars, checkVars, restVars, hostVars
<1>2. ~partial' => ~partial
  BY DEF Next, ByHand, Checking, Submit, Resubmit, Work, KillJob, NextStep, OpenResult, WriteResult, JobEnds, CheckEnds,
     MakePart, OpenConfig, WriteConfig, Retile, Retiled, Measure, vars, campVars
<1>3. ASSUME ~partial'
      PROVE  Good'
  <2>1. setup \in Setups /\ Good
    BY <1>2, <1>3 DEF IInv
  <2>2. ASSUME NEW sub \in Submissions, Submit(sub)
        PROVE  Good'
    BY <1>3, <2>1, <2>2, SubmitGood
  <2> QED
    BY <2>1, <2>2, ByHandGood, CheckingGood, ResubmitGood, WorkGood, KillJobGood, StutterGood DEF Next
<1> QED
  BY <1>1, <1>3 DEF IInv

\* Every state the campaign and the checks can reach is as IInv says.
THEOREM Invariance == Spec => []IInv
BY InitIInv, NextIInv, PTL DEF Spec

\* Trusted: as long as no steps were picked or redone, a measurement on record
\* was made after a check that passed, and with the tiles its volumes still have.
THEOREM TrustedCorrect == Spec => []Trusted
<1>1. IInv => Trusted
  <2> SUFFICES ASSUME IInv, ~partial, NEW s \in Measured, Whole(s)
               PROVE  /\ done["env"] # None /\ done["check"] # None /\ done["data"] # None
                      /\ Whole("check") => done["check"].result # "FAIL"
                      /\ Readable(done[s].size) /\ done[s].edge = config[done[s].size]
                      /\ Whole("data") /\ done["data"].size = done[s].size => done[s] = done["data"]
    BY DEF Trusted
  <2>1. Files
    BY DEF IInv, Good
  <2>2. done["env"] # None /\ done["check"] # None /\ done["data"] # None
    BY <2>1 DEF Files, Whole, Setting
  <2>3. Known(done[s]) /\ (Whole("data") => Known(done["data"]))
    BY <2>1 DEF Files
  <2>4. ASSUME Whole("data"), done["data"].size = done[s].size
        PROVE  done[s] = done["data"]
    BY <2>3, <2>4 DEF Known
  <2> QED
    BY <2>1, <2>2, <2>3, <2>4 DEF Files, Known
<1> QED
  BY <1>1, Invariance, PTL


(***************************************************************************)
(* The checks: what a result that is not FAIL means.  A running check      *)
(* keeps to its plan: a step that is not left to do was seen to hold, or   *)
(* the check is to fail.  What it says of CCPi goes with the array and the *)
(* reference it was taken from, in a check and in a document.              *)
(***************************************************************************)
DocSound(d) ==
  d \notin {None, Torn} /\ d.ref # None =>
    "ccpi.median" \in DOMAIN d.metrics /\ d.metrics["ccpi.median"].value \in Int

\* A check has these fields.
Shape(j) == {"pc", "id", "request", "revision", "doc", "print", "gpuBusy", "cpuBusy", "todo", "statuses", "found",
             "skipped", "held", "metrics", "arrays", "ref", "intact", "digests", "result"} \subseteq DOMAIN j

Asked(j) ==
  /\ j.request.tier \in TIERS /\ j.request.ccpi \in DOMAIN References \union {None}
  /\ j.revision \in Nat /\ j.revision >= 1 /\ DocSound(j.doc) /\ j.doc # Torn

\* What a check has measured.
Measures(j) ==
  /\ \A n \in DOMAIN j.arrays : j.arrays[n] \in Int
  /\ j.ref # None =>
       /\ j.ref \in DOMAIN References /\ {"casea.fused"} \subseteq DOMAIN j.arrays
       /\ "ccpi.median" \in DOMAIN j.metrics
       /\ j.metrics["ccpi.median"].value = Abs(j.arrays["casea.fused"] - References[j.ref])

Near(j, n) == Abs(j.arrays[n] - j.doc.arrays[n]) <= 1

Planned(j) ==
  \A step \in Range(Plan(j.request.tier)) : step \in Range(j.todo) \/ NeedsCaseA(step) \/ step \in j.held

\* What it has seen, if it is not to fail.
Seen(j) ==
  "fail" \notin j.statuses \union j.found =>
    /\ Planned(j)
    /\ j.doc # None /\ j.intact => \A n \in DOMAIN j.arrays \intersect DOMAIN j.doc.arrays : Near(j, n)

JobSound(j) ==
  /\ Shape(j) /\ Asked(j) /\ Measures(j)
  /\ j.pc \in {"unlink", "symlink", "load"} => j.metrics = <<>> /\ j.arrays = <<>> /\ j.statuses = {} /\ j.ref = None
  /\ j.pc \notin Recording => j.result = None
  /\ j.pc = "steps" => j.todo \in Seq(Range(Plan(j.request.tier))) /\ Seen(j)
  /\ j.result \notin {None, "FAIL"} => Means(j)

AllSound == DOMAIN job = Places /\ \A p \in Places : job[p] # None => JobSound(job[p])

Sound ==
  /\ setup \in Setups /\ revision \in 1 .. Len(Revisions) /\ present \subseteq DOMAIN References
  /\ AllSound
  /\ DOMAIN baseline = Machines /\ \A m \in Machines : DocSound(baseline[m])

KnownSteps == {"tests_cpu", "tests_gpu", "selftest", "tests_slow", "kernel", "casea", "casea_pf1", "e2e"}

\* A list of steps is one of its own steps.
LEMMA PlanHas ==
  ASSUME NEW tier \in TIERS
  PROVE  Plan(tier) \in Seq(Range(Plan(tier))) /\ Range(Plan(tier)) \subseteq KnownSteps
<1> DEFINE quick == <<"tests_cpu">>
           gpu == <<"tests_cpu", "tests_gpu", "selftest">>
           full == <<"tests_cpu", "tests_gpu", "selftest", "tests_slow", "kernel", "casea", "casea_pf1", "e2e">>
<1>1. Plan(tier) \in {quick, gpu, full}
  BY DEF Plan, TIERS
<1>2. quick \in Seq(KnownSteps) /\ gpu \in Seq(KnownSteps) /\ full \in Seq(KnownSteps)
  BY DEF KnownSteps
<1> HIDE DEF quick, gpu, full
<1> DEFINE p == Plan(tier)
<1>3. p \in Seq(KnownSteps)
  BY <1>1, <1>2
<1> HIDE DEF p
<1>4. Range(p) \subseteq KnownSteps
  BY <1>3 DEF Range
<1>5. p \in Seq(Range(p))
  BY <1>3, OwnRange
<1> QED
  BY <1>4, <1>5 DEF p

\* A result that is not FAIL, of a check that has done its plan.
LEMMA VerdictMeans ==
  ASSUME NEW j, Asked(j), Measures(j), Seen(j), j.todo = <<>>, NEW k, k.result = Overall(j), k.result # "FAIL",
         k.request = j.request, k.held = j.held, k.print = j.print, k.arrays = j.arrays, k.doc = j.doc,
         k.intact = j.intact, k.ref = j.ref
  PROVE  Means(k)
<1> DEFINE doc == j.doc
           all == j.statuses \union j.found \union Findings(j)
<1>1. "fail" \notin all /\ (k.result = "PASS" => "warn" \notin all)
  BY DEF Overall
<1>2. Range(j.todo) = {}
  BY DEF Range
<1>3. /\ \A step \in Range(Plan(j.request.tier)) : NeedsCaseA(step) \/ step \in j.held
      /\ doc # None /\ j.intact => \A n \in DOMAIN j.arrays \intersect DOMAIN doc.arrays : Near(j, n)
  BY <1>1, <1>2 DEF Seen, Planned
<1>4. \A step \in ToSet(Plan(k.request.tier)) : NeedsCaseA(step) \/ step \in k.held
  BY <1>3 DEF ToSet, Range
<1>5. doc # None => Findings(j) = {Verdict(name, j.metrics[name].value, j) : name \in DOMAIN j.metrics} \union Bitwise(j)
  BY DEF Findings
<1>6. ASSUME doc # None, NEW n \in DOMAIN j.arrays \intersect DOMAIN doc.arrays
      PROVE  /\ k.result = "PASS" /\ j.print.software = doc.print.software => j.arrays[n] = doc.arrays[n]
             /\ j.intact => Abs(j.arrays[n] - doc.arrays[n]) <= 1
  <2>1. ASSUME k.result = "PASS", j.print.software = doc.print.software
        PROVE  j.arrays[n] = doc.arrays[n]
    BY <1>1, <1>5, <1>6, <2>1 DEF Bitwise
  <2> QED
    BY <1>3, <1>6, <2>1 DEF Near
<1>7. ASSUME doc # None, j.ref # None, j.ref = doc.ref
      PROVE  Abs(j.arrays["casea.fused"] - References[j.ref]) <= doc.metrics["ccpi.median"].value + 5
  <2> DEFINE v == Abs(j.arrays["casea.fused"] - References[j.ref])
             b == doc.metrics["ccpi.median"].value
             name == "ccpi.median"
  <2>1. name \in DOMAIN j.metrics /\ j.metrics[name].value = v
    BY <1>7 DEF Measures
  <2>2. v \in Int
    <3>1. j.arrays["casea.fused"] \in Int
      BY <1>7 DEF Measures
    <3>2. References[j.ref] \in Int
      BY <1>7, ChecksAssumption DEF Measures
    <3> QED
      BY <3>1, <3>2 DEF Abs
  <2>3. name \in DOMAIN doc.metrics /\ b \in Int
    BY <1>7 DEF Asked, DocSound
  <2>4. Verdict(name, v, j) # "fail"
    <3> HIDE DEF name, v
    <3> QED
      BY <1>1, <1>5, <1>7, <2>1
  <2>5. ~IsTiming(name)
    BY DEF IsTiming, IsKernel, KernelMetric
  <2>6. ~(v > b + 5)
    <3> HIDE DEF v
    <3> QED
      BY <2>3, <2>4, <2>5 DEF Verdict
  <2> HIDE DEF v, b
  <2>7. v <= b + 5
    BY <2>2, <2>3, <2>6
  <2> QED
    BY <2>7 DEF v, b
<1> QED
  BY <1>4, <1>6, <1>7 DEF Means

\* The check of one place is replaced, or is over.
LEMMA JobsSound ==
  ASSUME Sound, NEW p \in Places, NEW k, Set(p, k), k # None => JobSound(k)
  PROVE  AllSound'
<1>1. DOMAIN job = Places /\ job' = [job EXCEPT ![p] = k]
  BY DEF Sound, AllSound, Set
<1>2. ASSUME NEW q \in Places, job'[q] # None
      PROVE  JobSound(job'[q])
  <2>1. CASE q = p
    BY <1>1, <1>2, <2>1
  <2>2. CASE q # p
    <3>1. job'[q] = job[q]
      BY <1>1, <2>2
    <3> QED
      BY <1>2, <3>1 DEF Sound, AllSound
  <2> QED
    BY <2>1, <2>2
<1>3. DOMAIN job' = Places
  BY <1>1
<1> QED
  BY <1>2, <1>3 DEF AllSound

\* The rest of what is sound, where it stays as it is.
LEMMA RestSound ==
  ASSUME Sound, UNCHANGED <<setup, revision, present, baseline>>, AllSound'
  PROVE  Sound'
BY DEF Sound, DocSound

\* A check that has yet to do its steps.
LEMMA StillEmpty ==
  ASSUME NEW j, JobSound(j), j.pc \in {"unlink", "symlink"}, NEW pc \in {"symlink", "load"}
  PROVE  JobSound([j EXCEPT !.pc = pc])
<1> DEFINE k == [j EXCEPT !.pc = pc]
<1>1. Shape(j)
  BY DEF JobSound
<1>2. /\ k.pc = pc /\ k.request = j.request /\ k.revision = j.revision /\ k.doc = j.doc /\ k.metrics = j.metrics
      /\ k.arrays = j.arrays /\ k.statuses = j.statuses /\ k.ref = j.ref /\ k.result = j.result /\ Shape(k)
  BY <1>1 DEF Shape
<1> HIDE DEF k
<1>3. Asked(k) /\ Measures(k)
  BY <1>2 DEF JobSound, Asked, Measures
<1>4. k.result = None
  BY <1>2 DEF JobSound, Recording
<1> QED
  BY <1>2, <1>3, <1>4 DEF JobSound, k

LEMMA LinkSound ==
  ASSUME Sound, NEW p \in Places, Unlink(p) \/ Symlink(p)
  PROVE  Sound'
<1>1. job[p] # None /\ job[p].pc \in {"unlink", "symlink"} /\ UNCHANGED <<setup, revision, present, baseline>>
  BY DEF Unlink, Symlink, At, hostVars
<1>2. JobSound(job[p])
  BY <1>1 DEF Sound, AllSound
<1>3. \/ Set(p, None)
      \/ \E pc \in {"symlink", "load"} : Set(p, [job[p] EXCEPT !.pc = pc])
  BY DEF Unlink, Symlink
<1>4. AllSound'
  <2>1. CASE Set(p, None)
    BY <2>1, JobsSound
  <2>2. ASSUME NEW pc \in {"symlink", "load"}, Set(p, [job[p] EXCEPT !.pc = pc])
        PROVE  AllSound'
    BY <1>1, <1>2, <2>2, StillEmpty, JobsSound
  <2> QED
    BY <1>3, <2>1, <2>2
<1> QED
  BY <1>1, <1>4, RestSound

\* A check that has its list, and the document it compares with.
LEMMA LoadedSound ==
  ASSUME NEW j, JobSound(j), j.pc = "load", NEW m, NEW use, DocSound(baseline[m]), baseline[m] # Torn
  PROVE  JobSound(Loaded(j, m, use))
<1> DEFINE tier == j.request.tier
           pre == Preflight(m, tier, use)
           k == Loaded(j, m, use)
<1>1. /\ Shape(j) /\ Asked(j) /\ Measures(j) /\ tier \in TIERS
      /\ j.metrics = <<>> /\ j.arrays = <<>> /\ j.statuses = {} /\ j.ref = None /\ j.result = None
  BY DEF JobSound, Asked, Recording
<1>2. /\ k.pc = "steps" /\ k.request = j.request /\ k.revision = j.revision /\ k.doc = baseline[m]
      /\ k.metrics = j.metrics /\ k.arrays = j.arrays /\ k.ref = j.ref /\ k.result = j.result
      /\ k.found = pre /\ k.todo = (IF "fail" \in pre THEN <<>> ELSE Plan(tier)) /\ Shape(k)
  BY <1>1 DEF Shape, Loaded
<1> HIDE DEF k, pre
<1>3. Asked(k) /\ Measures(k)
  BY <1>1, <1>2 DEF Asked, Measures
<1>4. k.todo \in Seq(Range(Plan(tier)))
  <2>1. <<>> \in Seq(Range(Plan(tier)))
    BY EmptySeq
  <2> QED
    BY <1>1, <1>2, <2>1, PlanHas
<1>5. Seen(k)
  BY <1>1, <1>2 DEF Seen, Planned
<1> QED
  BY <1>1, <1>2, <1>3, <1>4, <1>5 DEF JobSound, k

LEMMA LoadSound ==
  ASSUME Sound, NEW p \in Places, Load(p)
  PROVE  Sound'
<1>1. job[p] # None /\ job[p].pc = "load" /\ UNCHANGED <<setup, revision, present, baseline>>
  BY DEF Load, At, hostVars
<1>2. JobSound(job[p]) /\ Host[p] \in Machines
  BY <1>1 DEF Sound, AllSound, Machines
<1>3. DocSound(baseline[Host[p]])
  BY <1>2 DEF Sound
<1>4. \/ Set(p, None)
      \/ baseline[Host[p]] # Torn /\ \E use : Set(p, Loaded(job[p], Host[p], use))
  BY DEF Load
<1>5. ASSUME NEW use, baseline[Host[p]] # Torn
      PROVE  JobSound(Loaded(job[p], Host[p], use))
  BY <1>1, <1>2, <1>3, <1>5, LoadedSound
<1>6. AllSound'
  BY <1>4, <1>5, JobsSound
<1> QED
  BY <1>1, <1>6, RestSound

\* A list of steps with its first taken off.
LEMMA TakenOff ==
  ASSUME NEW S, NEW t \in Seq(S), t # <<>>
  PROVE  /\ Head(t) \in S /\ Tail(t) \in Seq(S)
         /\ \A x \in Range(t) : x = Head(t) \/ x \in Range(Tail(t))
<1>1. /\ Len(t) \in Nat /\ Len(t) > 0 /\ DOMAIN t = 1 .. Len(t) /\ Head(t) = t[1]
      /\ Tail(t) \in Seq(S) /\ Len(Tail(t)) = Len(t) - 1 /\ DOMAIN Tail(t) = 1 .. Len(Tail(t))
      /\ \A i \in 1 .. Len(Tail(t)) : Tail(t)[i] = t[i + 1]
  OBVIOUS
<1>2. Head(t) \in S
  BY <1>1
<1>3. ASSUME NEW x \in Range(t), x # Head(t)
      PROVE  x \in Range(Tail(t))
  <2>1. PICK i \in 1 .. Len(t) : t[i] = x
    BY <1>1, <1>3 DEF Range
  <2>2. i - 1 \in 1 .. Len(Tail(t)) /\ Tail(t)[i - 1] = x
    BY <1>1, <1>3, <2>1
  <2> QED
    BY <1>1, <2>2 DEF Range
<1> QED
  BY <1>1, <1>2, <1>3

\* What a revision is.
LEMMA Typed ==
  ASSUME NEW i \in 1 .. Len(Revisions), NEW r, r = Revisions[i]
  PROVE  {r.tests.cpu, r.tests.gpu, r.tests.slow, r.position} \subseteq Int
<1> DEFINE R == [tests : [cpu : Int, gpu : Int, slow : Int], selftest : BOOLEAN, kernelExact : BOOLEAN,
                 position : Int, micros : Nat, cv : Nat, seconds : Nat]
<1>1. Revisions \in Seq(R)
  BY ChecksAssumption
<1>2. r \in R => {r.tests.cpu, r.tests.gpu, r.tests.slow, r.position} \subseteq Int
  OBVIOUS
<1> HIDE DEF R
<1>3. r \in R
  BY <1>1
<1> QED
  BY <1>2, <1>3

\* A step that did not fail was seen to hold, or needs case A.
LEMMA StatusHolds ==
  ASSUME NEW j, NEW p, NEW step \in KnownSteps, NEW i \in 1 .. Len(Revisions), NEW r, r = Revisions[i],
         StepStatus(step, j, p, r) # "fail"
  PROVE  /\ NeedsCaseA(step) \/ Holds(step, r)
         /\ StepStatus(step, j, p, r) # "skip" /\ step \in {"casea", "casea_pf1"} => ArraysAgree(step, j, p, r)
<1>1. r.tests.cpu \in Int /\ r.tests.gpu \in Int /\ r.tests.slow \in Int
  BY Typed
<1>2. CASE step = "tests_cpu"
  <2>1. StepStatus(step, j, p, r) = Suite(r.tests.cpu)
    BY <1>2 DEF StepStatus, NeedsCaseA
  <2>2. r.tests.cpu >= 0
    BY <1>1, <2>1 DEF Suite
  <2> QED
    BY <1>2, <2>2 DEF Holds
<1>3. CASE step = "tests_gpu"
  <2>1. StepStatus(step, j, p, r) = Suite(r.tests.gpu)
    BY <1>3 DEF StepStatus, NeedsCaseA
  <2>2. r.tests.gpu >= 0
    BY <1>1, <2>1 DEF Suite
  <2> QED
    BY <1>3, <2>2 DEF Holds
<1>4. CASE step = "tests_slow"
  <2>1. StepStatus(step, j, p, r) = Suite(r.tests.slow)
    BY <1>4 DEF StepStatus, NeedsCaseA
  <2>2. r.tests.slow >= 0
    BY <1>1, <2>1 DEF Suite
  <2> QED
    BY <1>4, <2>2 DEF Holds
<1>5. CASE step \in {"selftest", "kernel"}
  BY <1>5 DEF StepStatus, Holds, NeedsCaseA
<1>6. CASE step \in {"casea", "casea_pf1", "e2e"}
  BY <1>6 DEF StepStatus, NeedsCaseA, ArraysOf
<1> QED
  BY <1>2, <1>3, <1>4, <1>5, <1>6 DEF KnownSteps

\* The comparison with CCPi is measured by one step, from its array.
LEMMA MetricsTaken ==
  ASSUME NEW step \in KnownSteps, NEW r, NEW x, NEW use, NEW j, NEW ref, NEW M, M = MetricsOf(step, r, x, use, j, ref)
  PROVE  /\ step # "casea" => "ccpi.median" \notin DOMAIN M
         /\ step = "casea" => "ccpi.median" \in DOMAIN M /\ M["ccpi.median"].value = Abs(x - References[ref])
<1> DEFINE names == MetricNames(step, j.request.data)
<1>1. DOMAIN M = names /\ \A name \in names : M[name].value = Value(name, r, x, use, ref)
  BY DEF MetricsOf
<1> HIDE DEF names
<1>2. Value("ccpi.median", r, x, use, ref) = Abs(x - References[ref])
  BY DEF Value, IsKernel, KernelMetric
<1>3. step = "casea" => "ccpi.median" \in names
  BY DEF MetricNames, names
<1>4. step # "casea" => "ccpi.median" \notin names
  BY DEF MetricNames, names, KnownSteps, KernelMetric
<1> QED
  BY <1>1, <1>2, <1>3, <1>4

\* What a step adds keeps the comparison with the array it was taken from.
LEMMA StillMeasures ==
  ASSUME NEW j, Measures(j), NEW step \in KnownSteps, NEW r, NEW x \in Int, NEW use, NEW ref \in DOMAIN References,
         NEW k, k.metrics = Updated(j.metrics, MetricsOf(step, r, x, use, j, ref)),
         NEW A, DOMAIN A = ArraysOf(step), \A n \in DOMAIN A : A[n] = x, k.arrays = Updated(j.arrays, A),
         k.ref = IF step = "casea" THEN ref ELSE j.ref
  PROVE  Measures(k)
<1> DEFINE M == MetricsOf(step, r, x, use, j, ref)
<1>1. /\ step # "casea" => "ccpi.median" \notin DOMAIN M
      /\ step = "casea" => "ccpi.median" \in DOMAIN M /\ M["ccpi.median"].value = Abs(x - References[ref])
  BY MetricsTaken
<1>2. k.metrics = Updated(j.metrics, M)
  OBVIOUS
<1> HIDE DEF M
<1>3. /\ DOMAIN k.metrics = DOMAIN M \union DOMAIN j.metrics
      /\ \A y \in DOMAIN M : k.metrics[y] = M[y]
      /\ \A y \in DOMAIN j.metrics \ DOMAIN M : k.metrics[y] = j.metrics[y]
  BY <1>2 DEF Updated
<1>4. /\ DOMAIN k.arrays = DOMAIN A \union DOMAIN j.arrays
      /\ \A n \in DOMAIN A : k.arrays[n] = x
      /\ \A n \in DOMAIN j.arrays \ DOMAIN A : k.arrays[n] = j.arrays[n]
  BY DEF Updated
<1>5. \A n \in DOMAIN k.arrays : k.arrays[n] \in Int
  BY <1>4 DEF Measures
<1>6. CASE step = "casea"
  <2>1. "casea.fused" \in DOMAIN A
    BY <1>6 DEF ArraysOf
  <2> QED
    BY <1>1, <1>3, <1>4, <1>5, <1>6, <2>1 DEF Measures
<1>7. CASE step # "casea"
  <2>1. "casea.fused" \notin DOMAIN A
    BY <1>7 DEF ArraysOf
  <2> QED
    BY <1>1, <1>3, <1>4, <1>5, <1>7, <2>1 DEF Measures
<1> QED
  BY <1>4, <1>6, <1>7

\* A check at its next step.
LEMMA AtItsStep ==
  ASSUME NEW j, JobSound(j), j.pc = "steps", j.todo # <<>>
  PROVE  /\ Head(j.todo) \in Range(Plan(j.request.tier)) /\ Head(j.todo) \in KnownSteps
         /\ Tail(j.todo) \in Seq(Range(Plan(j.request.tier)))
         /\ \A x \in Range(j.todo) : x = Head(j.todo) \/ x \in Range(Tail(j.todo))
<1> DEFINE S == Range(Plan(j.request.tier))
           t == j.todo
<1>1. t \in Seq(S) /\ t # <<>>
  BY DEF JobSound
<1>2. S \subseteq KnownSteps
  BY PlanHas DEF JobSound, Asked
<1> HIDE DEF S, t
<1>3. Head(t) \in S /\ Tail(t) \in Seq(S) /\ \A x \in Range(t) : x = Head(t) \/ x \in Range(Tail(t))
  BY <1>1, TakenOff
<1> QED
  BY <1>2, <1>3 DEF S, t

\* The plan of a check that is not to fail, once a step is over.
LEMMA StillPlanned ==
  ASSUME NEW j, JobSound(j), j.pc = "steps", j.todo # <<>>, NEW step, step = Head(j.todo), NEW r, NEW p,
         NEW status, status = StepStatus(step, j, p, r), NEW i \in 1 .. Len(Revisions), r = Revisions[i],
         status # "fail", "fail" \notin j.statuses \union j.found, NEW k, k.request = j.request,
         k.todo = Tail(j.todo), j.held \subseteq k.held, Holds(step, r) => step \in k.held
  PROVE  Planned(k)
<1>1. /\ step \in KnownSteps /\ \A x \in Range(j.todo) : x = step \/ x \in Range(Tail(j.todo))
  BY AtItsStep
<1>2. NeedsCaseA(step) \/ step \in k.held
  BY <1>1, StatusHolds
<1>3. Planned(j)
  BY DEF JobSound, Seen
<1> QED
  BY <1>1, <1>2, <1>3 DEF Planned

LEMMA OverSound ==
  ASSUME NEW j, JobSound(j), j.pc = "steps", j.todo # <<>>, NEW step, step = Head(j.todo), NEW r, NEW p,
         NEW i \in 1 .. Len(Revisions), r = Revisions[i], NEW status, status = StepStatus(step, j, p, r)
  PROVE  JobSound(Over(j, step, status, r))
<1> DEFINE k == Over(j, step, status, r)
<1>1. /\ Shape(k) /\ k.pc = "steps" /\ k.todo = Tail(j.todo) /\ k.statuses = j.statuses \union {status}
      /\ k.request = j.request /\ k.revision = j.revision /\ k.doc = j.doc /\ k.found = j.found
      /\ k.metrics = j.metrics /\ k.arrays = j.arrays /\ k.ref = j.ref /\ k.intact = j.intact /\ k.result = None
      /\ k.held = j.held \union {x \in {step} : Holds(x, r)}
  <2>1. Shape(j) /\ j.result = None
    BY DEF JobSound, Recording
  <2> QED
    BY <2>1 DEF Over, Shape
<1> HIDE DEF k
<1>2. Asked(k) /\ Measures(k)
  BY <1>1 DEF JobSound, Asked, Measures
<1>3. k.todo \in Seq(Range(Plan(k.request.tier)))
  BY <1>1, AtItsStep
<1>4. Seen(k)
  <2> SUFFICES ASSUME "fail" \notin k.statuses \union k.found
               PROVE  /\ Planned(k)
                      /\ k.doc # None /\ k.intact => \A n \in DOMAIN k.arrays \intersect DOMAIN k.doc.arrays : Near(k, n)
    BY DEF Seen
  <2>1. status # "fail" /\ "fail" \notin j.statuses \union j.found
    BY <1>1
  <2>2. Planned(k)
    <3>1. /\ k.request = j.request /\ k.todo = Tail(j.todo) /\ j.held \subseteq k.held
          /\ Holds(step, r) => step \in k.held
      BY <1>1
    <3> QED
      BY <2>1, <3>1, StillPlanned
  <2>3. j.doc # None /\ j.intact => \A n \in DOMAIN j.arrays \intersect DOMAIN j.doc.arrays : Near(j, n)
    BY <2>1 DEF JobSound, Seen
  <2> QED
    BY <1>1, <2>2, <2>3 DEF Near
<1> QED
  BY <1>1, <1>2, <1>3, <1>4 DEF JobSound, k

LEMMA RaisedSound ==
  ASSUME NEW j, JobSound(j), j.pc = "steps", j.todo # <<>>, NEW step, step = Head(j.todo), NEW r, NEW status
  PROVE  JobSound(Raised(j, step, status, r))
<1> DEFINE over == Over(j, step, status, r)
           k == Raised(j, step, status, r)
<1>1. /\ Shape(over) /\ over.pc = "steps" /\ over.todo = Tail(j.todo)
      /\ over.request = j.request /\ over.revision = j.revision /\ over.doc = j.doc
      /\ over.metrics = j.metrics /\ over.arrays = j.arrays /\ over.ref = j.ref /\ over.result = None
  <2>1. Shape(j) /\ j.result = None
    BY DEF JobSound, Recording
  <2> QED
    BY <2>1 DEF Over, Shape
<1>2. k = [over EXCEPT !.statuses = @ \union {"fail"}, !.skipped = j.skipped]
  BY DEF Raised
<1> HIDE DEF over, k
<1>3. /\ Shape(k) /\ k.pc = "steps" /\ k.todo = Tail(j.todo) /\ "fail" \in k.statuses
      /\ k.request = j.request /\ k.revision = j.revision /\ k.doc = j.doc
      /\ k.metrics = j.metrics /\ k.arrays = j.arrays /\ k.ref = j.ref /\ k.result = None
  BY <1>1, <1>2 DEF Shape
<1>4. Asked(k) /\ Measures(k) /\ Seen(k)
  BY <1>3 DEF JobSound, Asked, Measures, Seen
<1>5. k.todo \in Seq(Range(Plan(k.request.tier)))
  BY <1>3, AtItsStep
<1> QED
  BY <1>3, <1>4, <1>5 DEF JobSound, k

LEMMA MeasuringSound ==
  ASSUME NEW j, JobSound(j), j.pc = "steps", j.todo # <<>>, NEW step, step = Head(j.todo), NEW r, NEW p \in Places,
         NEW i \in 1 .. Len(Revisions), r = Revisions[i], NEW status, status = StepStatus(step, j, p, r),
         status # "skip", NEW use, present \subseteq DOMAIN References
  PROVE  JobSound(Measuring(j, p, step, status, r, use))
<1> DEFINE over == Over(j, step, status, r)
           x == Position(r, p)
           ref == Reference(j)
           A == [n \in ArraysOf(step) |-> x]
           k == Measuring(j, p, step, status, r, use)
<1>1. /\ Shape(over) /\ over.pc = "steps" /\ over.todo = Tail(j.todo) /\ over.statuses = j.statuses \union {status}
      /\ over.request = j.request /\ over.revision = j.revision /\ over.doc = j.doc /\ over.found = j.found
      /\ over.metrics = j.metrics /\ over.arrays = j.arrays /\ over.ref = j.ref /\ over.intact = j.intact
      /\ over.result = None /\ over.held = j.held \union {y \in {step} : Holds(y, r)}
  <2>1. Shape(j) /\ j.result = None
    BY DEF JobSound, Recording
  <2> QED
    BY <2>1 DEF Over, Shape
<1>2. k = [over EXCEPT !.metrics = Updated(@, MetricsOf(step, r, x, use, j, ref)), !.arrays = Updated(@, A),
                       !.ref = IF step = "casea" THEN ref ELSE @, !.intact = @ /\ Untouched(j, p, step)]
  BY DEF Measuring
<1>3. x \in Int
  <2>1. r.position \in Int
    BY Typed
  <2>2. Bias[Host[p]] \in Int
    BY ChecksAssumption DEF Machines
  <2> QED
    BY <2>1, <2>2 DEF Position
<1>4. ref \in DOMAIN References
  BY ChecksAssumption DEF Reference, JobSound, Asked
<1>5. DOMAIN A = ArraysOf(step) /\ \A n \in DOMAIN A : A[n] = x
  OBVIOUS
<1> HIDE DEF over, k, A, x, ref
<1>6. /\ Shape(k) /\ k.pc = "steps" /\ k.todo = Tail(j.todo) /\ k.statuses = j.statuses \union {status}
      /\ k.request = j.request /\ k.revision = j.revision /\ k.doc = j.doc /\ k.found = j.found
      /\ k.metrics = Updated(j.metrics, MetricsOf(step, r, x, use, j, ref)) /\ k.arrays = Updated(j.arrays, A)
      /\ k.ref = (IF step = "casea" THEN ref ELSE j.ref) /\ k.result = None
      /\ k.held = j.held \union {y \in {step} : Holds(y, r)}
  BY <1>1, <1>2 DEF Shape
<1>7. k.intact = (j.intact /\ Untouched(j, p, step))
  BY <1>1, <1>2 DEF Shape
<1>8. step \in KnownSteps /\ k.todo \in Seq(Range(Plan(k.request.tier)))
  BY <1>6, AtItsStep
<1>9. /\ Measures(k) /\ DOMAIN k.arrays = DOMAIN A \union DOMAIN j.arrays
      /\ \A n \in DOMAIN A : k.arrays[n] = x
      /\ \A n \in DOMAIN j.arrays \ DOMAIN A : k.arrays[n] = j.arrays[n]
  <2>1. Measures(j)
    BY DEF JobSound
  <2>2. /\ k.metrics = Updated(j.metrics, MetricsOf(step, r, x, use, j, ref)) /\ k.arrays = Updated(j.arrays, A)
        /\ k.ref = (IF step = "casea" THEN ref ELSE j.ref)
    BY <1>6
  <2>3. x \in Int /\ ref \in DOMAIN References /\ step \in KnownSteps
    BY <1>3, <1>4, <1>8
  <2>4. Measures(k)
    BY ONLY <2>1, <2>2, <2>3, <1>5, StillMeasures
  <2> QED
    BY <1>5, <2>2, <2>4 DEF Updated
<1>10. Asked(k)
  BY <1>6 DEF JobSound, Asked
<1>11. Seen(k)
  <2> SUFFICES ASSUME "fail" \notin k.statuses \union k.found
               PROVE  /\ Planned(k)
                      /\ k.doc # None /\ k.intact => \A n \in DOMAIN k.arrays \intersect DOMAIN k.doc.arrays : Near(k, n)
    BY DEF Seen
  <2>1. status # "fail" /\ "fail" \notin j.statuses \union j.found
    BY <1>6
  <2>2. Planned(k)
    <3>1. /\ k.request = j.request /\ k.todo = Tail(j.todo) /\ j.held \subseteq k.held
          /\ Holds(step, r) => step \in k.held
      BY <1>6
    <3> QED
      BY <2>1, <3>1, StillPlanned
  <2>3. j.doc # None /\ j.intact => \A n \in DOMAIN j.arrays \intersect DOMAIN j.doc.arrays : Near(j, n)
    BY <2>1 DEF JobSound, Seen
  <2>4. ASSUME j.doc # None, k.intact, NEW n \in ArraysOf(step) \intersect DOMAIN j.doc.arrays
        PROVE  Abs(x - j.doc.arrays[n]) <= 1
    <3>1. step \in {"casea", "casea_pf1"}
      BY <2>4 DEF ArraysOf
    <3>2. ArraysAgree(step, j, p, r)
      BY <1>8, <2>1, <3>1, StatusHolds
    <3>3. n \in DOMAIN stored[Root(p)] /\ stored[Root(p)][n] = j.doc.arrays[n]
      BY <1>7, <2>4 DEF Untouched
    <3> QED
      BY <2>4, <3>2, <3>3 DEF ArraysAgree, x
  <2> QED
    BY <1>5, <1>6, <1>7, <1>9, <2>2, <2>3, <2>4 DEF Near
<1> QED
  BY <1>6, <1>8, <1>9, <1>10, <1>11 DEF JobSound, k

\* The revisions a step may run are revisions.
LEMMA RunsSome ==
  ASSUME Sound, NEW j, Asked(j), NEW step, NEW rev \in Runs(step, j)
  PROVE  rev \in 1 .. Len(Revisions)
<1> DEFINE n == Len(Revisions)
<1>1. n \in Nat
  <2> DEFINE R == [tests : [cpu : Int, gpu : Int, slow : Int], selftest : BOOLEAN, kernelExact : BOOLEAN,
                   position : Int, micros : Nat, cv : Nat, seconds : Nat]
  <2>1. Revisions \in Seq(R)
    BY ChecksAssumption
  <2> HIDE DEF R
  <2> QED
    BY <2>1
<1>2. revision \in 1 .. n
  BY DEF Sound
<1> HIDE DEF n
<1>3. rev \in 1 .. n
  BY <1>1, <1>2 DEF Runs, Asked
<1> QED
  BY <1>3 DEF n

\* A step leaves a check that keeps to its plan.
LEMMA StepSound ==
  ASSUME Sound, NEW p \in Places, Step(p)
  PROVE  Sound'
<1> DEFINE j == job[p]
           step == Head(j.todo)
<1>1. j # None /\ j.pc = "steps" /\ j.todo # <<>> /\ UNCHANGED <<setup, revision, present, baseline>>
  BY DEF Step, At
<1>2. JobSound(j) /\ Asked(j) /\ present \subseteq DOMAIN References
  BY <1>1 DEF Sound, AllSound, JobSound
<1>3. PICK rev \in Runs(step, j) : \E status, use :
        /\ status = StepStatus(step, j, p, Revisions[rev])
        /\ \/ status = "skip" /\ Set(p, Over(j, step, status, Revisions[rev]))
           \/ status # "skip" /\ Set(p, Measuring(j, p, step, status, Revisions[rev], use))
           \/ Set(p, Raised(j, step, status, Revisions[rev]))
  BY StepMakes
<1>4. rev \in 1 .. Len(Revisions)
  BY <1>2, <1>3, RunsSome
<1>5. PICK status, use :
        /\ status = StepStatus(step, j, p, Revisions[rev])
        /\ \/ status = "skip" /\ Set(p, Over(j, step, status, Revisions[rev]))
           \/ status # "skip" /\ Set(p, Measuring(j, p, step, status, Revisions[rev], use))
           \/ Set(p, Raised(j, step, status, Revisions[rev]))
  BY <1>3
<1> DEFINE r == Revisions[rev]
<1>6. JobSound(Over(j, step, status, r))
  BY <1>1, <1>2, <1>4, <1>5, OverSound
<1>7. JobSound(Raised(j, step, status, r))
  BY <1>1, <1>2, RaisedSound
<1>8. status # "skip" => JobSound(Measuring(j, p, step, status, r, use))
  BY <1>1, <1>2, <1>4, <1>5, MeasuringSound
<1>9. AllSound'
  BY <1>5, <1>6, <1>7, <1>8, JobsSound
<1> QED
  BY <1>1, <1>9, RestSound

\* The comparison: what is not FAIL means what it should.
LEMMA JudgedSound ==
  ASSUME NEW j, JobSound(j), j.pc = "steps", j.todo = <<>>, NEW use
  PROVE  JobSound(Judged(j, use))
<1> DEFINE cpuBusy == j.cpuBusy \/ use = "cpu"
           seen == [j EXCEPT !.cpuBusy = cpuBusy, !.found = @ \union {x \in {"warn"} : cpuBusy}]
           judged == [seen EXCEPT !.result = Overall(seen)]
           k == Judged(j, use)
<1>1. Shape(j) /\ Asked(j) /\ Measures(j) /\ Seen(j)
  BY DEF JobSound
<1>2. k = [judged EXCEPT !.pc = IF Records(judged) THEN "copy" ELSE "report", !.todo = SetToSeq(DOMAIN j.arrays)]
  BY DEF Judged
<1>3. /\ seen.request = j.request /\ seen.revision = j.revision /\ seen.doc = j.doc /\ seen.print = j.print
      /\ seen.todo = j.todo /\ seen.statuses = j.statuses /\ j.found \subseteq seen.found /\ seen.held = j.held
      /\ seen.metrics = j.metrics /\ seen.arrays = j.arrays /\ seen.ref = j.ref /\ seen.intact = j.intact /\ Shape(seen)
  BY <1>1 DEF Shape
<1> HIDE DEF seen
<1>4. /\ judged.request = j.request /\ judged.revision = j.revision /\ judged.doc = j.doc /\ judged.print = j.print
      /\ judged.held = j.held /\ judged.metrics = j.metrics /\ judged.arrays = j.arrays /\ judged.ref = j.ref
      /\ judged.intact = j.intact /\ judged.result = Overall(seen) /\ Shape(judged)
  BY <1>3 DEF Shape
<1> HIDE DEF judged, k
<1>5. /\ k.request = j.request /\ k.revision = j.revision /\ k.doc = j.doc /\ k.print = j.print
      /\ k.held = j.held /\ k.metrics = j.metrics /\ k.arrays = j.arrays /\ k.ref = j.ref
      /\ k.intact = j.intact /\ k.result = Overall(seen) /\ k.pc \in {"copy", "report"} /\ Shape(k)
  BY <1>2, <1>4 DEF Shape
<1>6. Asked(seen) /\ Measures(seen) /\ Asked(k) /\ Measures(k)
  BY <1>1, <1>3, <1>5 DEF Asked, Measures
<1>7. Seen(seen) /\ seen.todo = <<>>
  BY <1>1, <1>3 DEF Seen, Near, Planned
<1>8. k.result # "FAIL" => Means(k)
  BY <1>3, <1>5, <1>6, <1>7, VerdictMeans
<1> QED
  BY <1>5, <1>6, <1>8 DEF JobSound, Recording, k

LEMMA CompareSound ==
  ASSUME Sound, NEW p \in Places, Compare(p)
  PROVE  Sound'
<1>1. job[p] # None /\ job[p].pc = "steps" /\ job[p].todo = <<>> /\ UNCHANGED <<setup, revision, present, baseline>>
  BY DEF Compare, At, hostVars
<1>2. JobSound(job[p])
  BY <1>1 DEF Sound, AllSound
<1>3. PICK use : Set(p, Judged(job[p], use))
  BY DEF Compare
<1>4. JobSound(Judged(job[p], use))
  BY <1>1, <1>2, JudgedSound
<1>5. AllSound'
  BY <1>3, <1>4, JobsSound
<1> QED
  BY <1>1, <1>5, RestSound

\* A check whose result is known.
LEMMA StillMeans ==
  ASSUME NEW j, JobSound(j), j.pc \in Recording, NEW k, Shape(k), k.pc \in Recording, k.request = j.request,
         k.revision = j.revision, k.doc = j.doc, k.print = j.print, k.held = j.held, k.metrics = j.metrics,
         k.arrays = j.arrays, k.ref = j.ref, k.intact = j.intact, k.result = j.result
  PROVE  JobSound(k)
<1>1. Asked(j) /\ Measures(j) /\ (j.result \notin {None, "FAIL"} => Means(j))
  BY DEF JobSound
<1>2. Asked(k) /\ Measures(k)
  BY <1>1 DEF Asked, Measures
<1>3. k.result \notin {None, "FAIL"} => Means(k)
  BY <1>1 DEF Means
<1> QED
  BY <1>2, <1>3 DEF JobSound, Recording

\* The arrays, and the document, which has the comparison with the reference it names.
LEMMA RecordSound ==
  ASSUME Sound, NEW p \in Places,
         OpenArray(p) \/ FillArray(p) \/ HashArray(p) \/ OpenDocument(p) \/ WriteDocument(p)
  PROVE  Sound'
<1> DEFINE j == job[p]
           m == Host[p]
           with(pc) == [j EXCEPT !.pc = pc]
           hashed(d) == [j EXCEPT !.pc = "copy", !.todo = Tail(@), !.digests = Updated(@, d)]
           doc == [print |-> j.print, metrics |-> j.metrics, arrays |-> j.digests, ccpi |-> j.request.ccpi, ref |-> j.ref]
<1>1. j # None /\ j.pc \in Recording /\ UNCHANGED <<setup, revision, present>>
  BY DEF OpenArray, FillArray, HashArray, OpenDocument, WriteDocument, At, hostVars, Recording
<1>2. JobSound(j) /\ m \in Machines
  BY <1>1 DEF Sound, AllSound, Machines
<1>3. \/ Set(p, None)
      \/ \E pc \in Recording : Set(p, with(pc))
      \/ \E d : Set(p, hashed(d))
  BY DEF OpenArray, FillArray, HashArray, OpenDocument, WriteDocument, Recording
<1>4. UNCHANGED baseline \/ baseline' = [baseline EXCEPT ![m] = Torn] \/ baseline' = [baseline EXCEPT ![m] = doc]
  BY DEF OpenArray, FillArray, HashArray, OpenDocument, WriteDocument
<1>5. DocSound(doc) /\ DocSound(Torn)
  <2>1. doc.metrics = j.metrics /\ doc.ref = j.ref
    OBVIOUS
  <2>2. Measures(j)
    BY <1>2 DEF JobSound
  <2> HIDE DEF doc, j
  <2>3. ASSUME j.ref # None
        PROVE  j.metrics["ccpi.median"].value \in Int
    <3>1. j.arrays["casea.fused"] \in Int /\ References[j.ref] \in Int
      BY <2>2, <2>3, ChecksAssumption DEF Measures
    <3> QED
      BY <2>2, <2>3, <3>1 DEF Measures, Abs
  <2> QED
    BY <2>1, <2>2, <2>3 DEF DocSound, Measures
<1>6. DOMAIN baseline' = Machines /\ \A x \in Machines : DocSound(baseline'[x])
  <2> HIDE DEF doc, j, m
  <2>1. DOMAIN baseline = Machines /\ \A x \in Machines : DocSound(baseline[x])
    BY DEF Sound
  <2>2. DOMAIN baseline' = Machines
    BY <1>4, <2>1
  <2>3. ASSUME NEW x \in Machines
        PROVE  baseline'[x] \in {baseline[x], Torn, doc}
    BY <1>4, <2>1
  <2> QED
    BY <1>5, <2>1, <2>2, <2>3
<1>7. \A pc \in Recording : JobSound(with(pc))
  <2> TAKE pc \in Recording
  <2> DEFINE k == with(pc)
  <2>1. Shape(j)
    BY <1>2 DEF JobSound
  <2>2. /\ Shape(k) /\ k.pc \in Recording /\ k.request = j.request /\ k.revision = j.revision /\ k.doc = j.doc
        /\ k.print = j.print /\ k.held = j.held /\ k.metrics = j.metrics /\ k.arrays = j.arrays /\ k.ref = j.ref
        /\ k.intact = j.intact /\ k.result = j.result
    BY <2>1 DEF Shape
  <2> HIDE DEF k, j
  <2> QED
    BY <1>1, <1>2, <2>2, StillMeans DEF k
<1>8. \A d : JobSound(hashed(d))
  <2> TAKE d
  <2> DEFINE k == hashed(d)
  <2>1. Shape(j)
    BY <1>2 DEF JobSound
  <2>2. /\ Shape(k) /\ k.pc \in Recording /\ k.request = j.request /\ k.revision = j.revision /\ k.doc = j.doc
        /\ k.print = j.print /\ k.held = j.held /\ k.metrics = j.metrics /\ k.arrays = j.arrays /\ k.ref = j.ref
        /\ k.intact = j.intact /\ k.result = j.result
    BY <2>1 DEF Shape, Recording
  <2> HIDE DEF k, j
  <2> QED
    BY <1>1, <1>2, <2>2, StillMeans DEF k
<1> HIDE DEF with, hashed
<1>9. AllSound'
  BY <1>3, <1>7, <1>8, JobsSound
<1> QED
  BY <1>1, <1>6, <1>9 DEF Sound

LEMMA ReportSound ==
  ASSUME Sound, NEW p \in Places, Report(p)
  PROVE  Sound'
<1>1. Set(p, None) /\ UNCHANGED <<setup, revision, present, baseline>>
  BY DEF Report, hostVars
<1> QED
  BY <1>1, JobsSound, RestSound

\* What a check is when it begins.
LEMMA BeginSound ==
  ASSUME Sound, NEW p \in Places, NEW q, q.tier \in TIERS, q.ccpi \in DOMAIN References \union {None}, NEW id,
         Begin(p, q, id)
  PROVE  Sound'
<1> DEFINE k == [pc |-> "unlink", id |-> id, request |-> q, revision |-> revision, doc |-> None,
                 print |-> print[Host[p]], gpuBusy |-> FALSE, cpuBusy |-> FALSE, todo |-> <<>>, statuses |-> {},
                 found |-> {}, skipped |-> FALSE, held |-> {}, metrics |-> <<>>, arrays |-> <<>>, ref |-> None,
                 intact |-> TRUE, digests |-> <<>>, result |-> None]
<1>1. Set(p, k) /\ UNCHANGED <<setup, revision, present, baseline>>
  BY DEF Begin, hostVars
<1>2. /\ k.pc = "unlink" /\ k.request = q /\ k.revision = revision /\ k.doc = None /\ k.statuses = {}
      /\ k.metrics = <<>> /\ k.arrays = <<>> /\ k.ref = None /\ k.result = None
  OBVIOUS
<1>3. Shape(k)
  BY DEF Shape
<1> HIDE DEF k
<1>4. Asked(k)
  <2>1. None # Torn
    BY OutcomeAssumption
  <2> QED
    BY <1>2, <2>1 DEF Asked, Sound, DocSound
<1>5. Measures(k)
  BY <1>2 DEF Measures
<1>6. JobSound(k)
  BY <1>2, <1>3, <1>4, <1>5 DEF JobSound
<1>7. AllSound'
  BY <1>1, <1>6, JobsSound
<1> QED
  BY <1>1, <1>7, RestSound

\* A check that is killed.
LEMMA KilledSound ==
  ASSUME Sound, NEW p \in Places, Set(p, None), UNCHANGED <<setup, revision, present, baseline>>
  PROVE  Sound'
BY JobsSound, RestSound

\* What leaves the checks and their baselines alone.
LEMMA KeptSound ==
  ASSUME Sound, UNCHANGED <<setup, baseline, job>>, revision' \in 1 .. Len(Revisions),
         present' \subseteq DOMAIN References
  PROVE  Sound'
<1>1. AllSound'
  BY DEF Sound, AllSound
<1> QED
  BY <1>1 DEF Sound, DocSound

LEMMA InitSound == Init => Sound
<1> SUFFICES ASSUME Init
             PROVE  Sound
  OBVIOUS
<1>1. /\ setup \in Setups /\ revision = 1 /\ baseline = [m \in Machines |-> None] /\ present = DOMAIN References
      /\ job = [p \in Places |-> None]
  BY DEF Init, ChecksInit
<1>2. 1 \in 1 .. Len(Revisions)
  <2> DEFINE R == [tests : [cpu : Int, gpu : Int, slow : Int], selftest : BOOLEAN, kernelExact : BOOLEAN,
                   position : Int, micros : Nat, cv : Nat, seconds : Nat]
  <2>1. Revisions \in Seq(R) /\ Revisions # <<>>
    BY ChecksAssumption
  <2> HIDE DEF R
  <2> QED
    BY <2>1
<1> QED
  BY <1>1, <1>2 DEF Sound, AllSound, DocSound

LEMMA WorkSound ==
  ASSUME Sound, Work
  PROVE  Sound'
<1>1. Node \in Places /\ revision \in 1 .. Len(Revisions) /\ present \subseteq DOMAIN References
  BY CampaignAssumption DEF Sound
<1>2. UNCHANGED <<setup, revision, present, baseline, job>> \/ Begin(Node, NodeCheck, run')
  BY DEF Work, NextStep, OpenResult, WriteResult, JobEnds, CheckEnds, MakePart, OpenConfig, WriteConfig, Retile,
     Retiled, Measure, checkVars, restVars, hostVars
<1>3. ASSUME Begin(Node, NodeCheck, run')
      PROVE  Sound'
  <2>1. PICK q : q = NodeCheck
    OBVIOUS
  <2>2. PICK id : id = run'
    OBVIOUS
  <2>3. Begin(Node, q, id)
    BY <1>3, <2>1, <2>2 DEF Begin
  <2>4. q.tier \in TIERS /\ q.ccpi \in DOMAIN References \union {None}
    BY <2>1 DEF NodeCheck, TIERS
  <2> QED
    BY <1>1, <2>3, <2>4, BeginSound
<1> QED
  BY <1>1, <1>2, <1>3, KeptSound

LEMMA ByHandSound ==
  ASSUME Sound, ByHand
  PROVE  Sound'
<1>1. /\ setup.users \subseteq Places /\ revision \in 1 .. Len(Revisions) /\ present \subseteq DOMAIN References
      /\ \A q \in setup.requests : q.tier \in TIERS /\ q.ccpi \in DOMAIN References \union {None}
  BY ChecksAssumption DEF Sound
<1>2. ASSUME NEW p \in setup.users, KillCheck(p)
      PROVE  Sound'
  BY <1>1, <1>2, KilledSound DEF KillCheck
<1>3. ASSUME NEW p \in setup.users, OthersChange(Host[p]) \/ Upgrade(Host[p])
      PROVE  Sound'
  <2>1. UNCHANGED <<setup, revision, present, baseline, job>>
    BY <1>3 DEF OthersChange, Upgrade
  <2> QED
    BY <1>1, <2>1, KeptSound
<1>4. ASSUME NEW p \in setup.users, NEW q \in setup.requests, Begin(p, q, Len(reports) + 1)
      PROVE  Sound'
  <2>1. PICK id : id = Len(reports) + 1
    OBVIOUS
  <2>2. Begin(p, q, id)
    BY <1>4, <2>1 DEF Begin
  <2> QED
    BY <1>1, <2>2, BeginSound
<1>5. ASSUME Commit
      PROVE  Sound'
  <2>1. revision' \in 1 .. Len(Revisions)
    <3> DEFINE n == Len(Revisions)
    <3>1. revision \in 1 .. n /\ revision < n /\ revision' = revision + 1
      BY <1>1, <1>5 DEF Commit
    <3>2. n \in Int
      <4> DEFINE R == [tests : [cpu : Int, gpu : Int, slow : Int], selftest : BOOLEAN, kernelExact : BOOLEAN,
                       position : Int, micros : Nat, cv : Nat, seconds : Nat]
      <4>1. Revisions \in Seq(R)
        BY ChecksAssumption
      <4> HIDE DEF R
      <4> QED
        BY <4>1
    <3> HIDE DEF n
    <3>3. revision' \in 1 .. n
      BY <3>1, <3>2
    <3> QED
      BY <3>3 DEF n
  <2> QED
    BY <1>1, <1>5, <2>1, KeptSound DEF Commit
<1>6. ASSUME NEW ref \in DOMAIN References, Moved(ref)
      PROVE  Sound'
  BY <1>1, <1>6, KeptSound DEF Moved
<1>7. ASSUME NEW r \in Roots, CleanUp(r)
      PROVE  Sound'
  BY <1>1, <1>7, KeptSound DEF CleanUp
<1> QED
  BY <1>2, <1>3, <1>4, <1>5, <1>6, <1>7 DEF ByHand

LEMMA NextSound == Sound /\ [Next]_vars => Sound'
<1> SUFFICES ASSUME Sound, [Next]_vars
             PROVE  Sound'
  OBVIOUS
<1>1. revision \in 1 .. Len(Revisions) /\ present \subseteq DOMAIN References /\ Node \in Places
  BY CampaignAssumption DEF Sound
<1>2. CASE ByHand
  BY <1>2, ByHandSound
<1>3. ASSUME NEW p \in Places, Checking(p)
      PROVE  Sound'
  BY <1>3, LinkSound, LoadSound, StepSound, CompareSound, RecordSound, ReportSound DEF Checking, CheckStep
<1>4. CASE \E sub \in Submissions : Submit(sub)
  BY <1>1, <1>4, KeptSound DEF Submit, checkVars, hostVars
<1>5. CASE Resubmit
  BY <1>1, <1>5, KeptSound DEF Resubmit, checkVars, hostVars
<1>6. CASE Work
  BY <1>6, WorkSound
<1>7. CASE KillJob
  <2>1. Set(Node, None) /\ UNCHANGED <<setup, revision, present, baseline>>
    BY <1>7 DEF KillJob, Set, hostVars
  <2> QED
    BY <1>1, <2>1, KilledSound
<1>8. CASE UNCHANGED vars
  BY <1>1, <1>8, KeptSound DEF vars, checkVars, hostVars
<1> QED
  BY <1>2, <1>3, <1>4, <1>5, <1>6, <1>7, <1>8 DEF Next

\* PassMeans: whatever roots and machines are shared, wherever updates and jobs are
\* killed and whatever is committed meanwhile, a check that does not fail has done
\* its plan, and holds to the arrays and the CCPi comparison of the document it read.
THEOREM PassMeansCorrect == Spec => []PassMeans
<1>1. Sound => PassMeans
  BY DEF Sound, AllSound, JobSound, PassMeans
<1> QED
  BY <1>1, InitSound, NextSound, PTL DEF Spec

=============================================================================
