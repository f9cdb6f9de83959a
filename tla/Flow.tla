-------------------------------- MODULE Flow --------------------------------
(***************************************************************************)
(* The configuration and the start of the program: what                    *)
(* app/store/engine/static/static.go makes of the file (with the decoding  *)
(* of app/store/ctm.go), and what Run.Execute (app/cmd/run.go) prepares    *)
(* from it before the actor registers triggers and runs jobs.              *)
(*                                                                         *)
(* The actor looks trackers up in a map and calls what it finds: a name    *)
(* that is not there is a nil interface, and the program panics.  Nothing  *)
(* but the validation of the file stands between the two.                  *)
(*                                                                         *)
(* Sequences are named blocks: a job has one, and every if has one.  The   *)
(* name of an action is the sequence of what stands between its slashes.   *)
(* Jobs share nothing here, so that one of them runs at a time.            *)
(***************************************************************************)
EXTENDS SequencesExt, Integers

CONSTANTS
  Trackers,   \* names of trackers
  Triggers,   \* names of triggers
  Blocks,     \* names of sequences
  Parts,      \* what stands between the slashes of an action's name
  Drivers,    \* what a tracker may name as its driver
  Documents   \* configuration files

Tracker == [name : Trackers, driver : Drivers]
Job == [on : Triggers, do : Blocks]
Raw == [if : BOOLEAN, action : Seq(Parts), then : Blocks]

(* f maps some of S to T. *)
Maps(f, S, T) == DOMAIN f \subseteq S /\ f \in [DOMAIN f -> T]

IsDocument(d) ==
  /\ d.trackers \in Seq(Tracker)
  /\ d.triggers \in Seq([name : Triggers, in : Trackers])
  /\ d.jobs \in Seq(Job)
  /\ Maps(d.body, Blocks, Seq(Raw))

RawSteps(d, b) == {d.body[b][k] : k \in DOMAIN d.body[b]}
Then(d, b) == {s.then : s \in {r \in RawSteps(d, b) : r.if}}
JobBlocks(d) == {d.jobs[j].do : j \in DOMAIN d.jobs}

(* Blocks of a file that hold those of its jobs and go no further by ifs.  *)
Reached(d, S) == JobBlocks(d) \subseteq S /\ \A b \in S : Then(d, b) \subseteq S

(* A document is a tree: all its blocks, and no fewer, are reached from    *)
(* its jobs.  A sequence that is nowhere in the file is no block of it.    *)
ASSUME FlowAssumption ==
  \A d \in Documents :
    /\ IsDocument(d)
    /\ Reached(d, DOMAIN d.body)
    /\ \A S \in SUBSET DOMAIN d.body : Reached(d, S) => S = DOMAIN d.body

VARIABLES
  phase,     \* how far Execute has come
  doc,       \* the file
  flow,      \* block -> its decoded steps
  job,       \* number of jobs that validate, and then NewStatic, looked at
  todo,      \* steps validateSequence has still to look at
  seen,      \* blocks validateSequence was called with (history)
  subs,      \* Static.subscriptions: trigger -> blocks of its jobs
  made,      \* number of trackers prepareTrackers has made
  trackers,  \* name -> driver of the tracker made for it
  reg,       \* triggers whose registration has come to Subscribe
  run        \* steps the running job has still to take

vars == <<phase, doc, flow, job, todo, seen, subs, made, trackers, reg, run>>

Stopped == {"refused", "failed", "panicked"}
Unvalidated == {"read", "triggers", "jobs"}
Validated == {"group", "trackers", "running"}

Names == {doc.trackers[n].name : n \in DOMAIN doc.trackers}
TriggerNames == {doc.triggers[n].name : n \in DOMAIN doc.triggers}

Init ==
  /\ phase = "read" /\ doc \in Documents
  /\ flow = [b \in {} |-> <<>>] /\ job = 0 /\ todo = <<>> /\ seen = {}
  /\ subs = [t \in {} |-> <<>>]
  /\ made = 0 /\ trackers = [t \in {} |-> ""] /\ reg = {} /\ run = <<>>
-----------------------------------------------------------------------------
(* Sequence.UnmarshalYAML: a condition makes an if, even beside an action. *)
Nothing == <<"">>
Undecodable(raw) == ~raw.if /\ raw.action = Nothing
Decode(raw) ==
  IF raw.if THEN [do |-> "if", then |-> raw.then]
            ELSE [do |-> "action", name |-> raw.action]

(* Action.Path: the name is cut at its first slash (mutant: a slash at the *)
(* end of the name goes unnoticed).                                        *)
NoPath == [tracker |-> "", method |-> <<>>]
PathOpen(name) ==
  IF Len(name) < 2 \/ Head(name) = "" THEN NoPath
  ELSE [tracker |-> Head(name), method |-> Tail(name)]
Path(name) ==
  IF Len(name) < 2 \/ Head(name) = "" \/ Tail(name) = Nothing THEN NoPath
  ELSE [tracker |-> Head(name), method |-> Tail(name)]

Decoded(d) ==
  [b \in DOMAIN d.body |-> [k \in DOMAIN d.body[b] |-> Decode(d.body[b][k])]]

Valid(name) == Path(name) # NoPath /\ Path(name).tracker \in Names

Read ==
  /\ phase = "read"
  /\ IF \E b \in DOMAIN doc.body : \E raw \in RawSteps(doc, b) : Undecodable(raw)
     THEN phase' = "refused" /\ flow' = flow
     ELSE phase' = "triggers" /\ flow' = Decoded(doc)
  /\ UNCHANGED <<doc, job, todo, seen, subs, made, trackers, reg, run>>

(* config.validate: the triggers; the jobs, one after another; the steps   *)
(* of their sequences, those of an if before those that follow it (mutant: *)
(* an if is not looked into).                                              *)
CheckTriggers ==
  /\ phase = "triggers"
  /\ phase' = IF \E n \in DOMAIN doc.triggers : doc.triggers[n].in \notin Names
              THEN "refused" ELSE "jobs"
  /\ UNCHANGED <<doc, flow, job, todo, seen, subs, made, trackers, reg, run>>

Enter(b, rest) == todo' = flow[b] \o rest /\ seen' = seen \cup {b}

CheckJob ==
  /\ phase = "jobs" /\ todo = <<>> /\ job < Len(doc.jobs)
  /\ job' = job + 1
  /\ IF doc.jobs[job'].on \in TriggerNames
     THEN Enter(doc.jobs[job'].do, <<>>) /\ UNCHANGED phase
     ELSE phase' = "refused" /\ UNCHANGED <<todo, seen>>
  /\ UNCHANGED <<doc, flow, subs, made, trackers, reg, run>>

CheckStepFlat ==
  /\ phase = "jobs" /\ todo # <<>>
  /\ LET s == Head(todo) IN
       /\ todo' = Tail(todo) /\ UNCHANGED seen
       /\ phase' = IF s.do = "if" \/ Valid(s.name) THEN phase ELSE "refused"
  /\ UNCHANGED <<doc, flow, job, subs, made, trackers, reg, run>>
CheckStep ==
  /\ phase = "jobs" /\ todo # <<>>
  /\ LET s == Head(todo) IN
       IF s.do = "if" THEN Enter(s.then, Tail(todo)) /\ UNCHANGED phase
       ELSE /\ todo' = Tail(todo) /\ UNCHANGED seen
            /\ phase' = IF Valid(s.name) THEN phase ELSE "refused"
  /\ UNCHANGED <<doc, flow, job, subs, made, trackers, reg, run>>

Accept ==
  /\ phase = "jobs" /\ todo = <<>> /\ job = Len(doc.jobs)
  /\ phase' = "group" /\ job' = 0
  /\ UNCHANGED <<doc, flow, todo, seen, subs, made, trackers, reg, run>>

(* NewStatic: the jobs are grouped by their triggers (mutant: a job takes  *)
(* the place of the one before it).                                        *)
JobsOn(m, t) == IF t \in DOMAIN m THEN m[t] ELSE <<>>
SubscribeOver(m, j) == [t \in DOMAIN m \cup {j.on} |->
                          IF t = j.on THEN <<j.do>> ELSE m[t]]
Subscribe(m, j) == [t \in DOMAIN m \cup {j.on} |->
                      IF t = j.on THEN Append(JobsOn(m, t), j.do) ELSE m[t]]

Group ==
  /\ phase = "group" /\ job < Len(doc.jobs)
  /\ job' = job + 1
  /\ subs' = Subscribe(subs, doc.jobs[job'])
  /\ UNCHANGED <<phase, doc, flow, todo, seen, made, trackers, reg, run>>
-----------------------------------------------------------------------------
(* Execute opens the storages, between them it makes the trackers; any of  *)
(* it may fail, and the program ends.                                      *)
OpenTickets ==
  /\ phase = "group" /\ job = Len(doc.jobs)
  /\ phase' \in {"trackers", "failed"}
  /\ UNCHANGED <<doc, flow, job, todo, seen, subs, made, trackers, reg, run>>

OpenSubscriptions ==
  /\ phase = "trackers" /\ made = Len(doc.trackers)
  /\ phase' \in {"running", "failed"}
  /\ UNCHANGED <<doc, flow, job, todo, seen, subs, made, trackers, reg, run>>

(* prepareTrackers: a tracker takes the place of an earlier one of its     *)
(* name; a plugin that cannot be dialed and a driver that is not known end *)
(* the program (mutant: a tracker is made whatever its driver).            *)
PrepareTrackerAny ==
  /\ phase = "trackers" /\ made < Len(doc.trackers)
  /\ LET trk == doc.trackers[made + 1] IN
       \/ /\ made' = made + 1
          /\ trackers' = [n \in DOMAIN trackers \cup {trk.name} |->
                            IF n = trk.name THEN trk.driver ELSE trackers[n]]
          /\ UNCHANGED phase
       \/ phase' = "failed" /\ UNCHANGED <<made, trackers>>
  /\ UNCHANGED <<doc, flow, job, todo, seen, subs, reg, run>>
PrepareTracker ==
  /\ phase = "trackers" /\ made < Len(doc.trackers)
  /\ LET trk == doc.trackers[made + 1] IN
       \/ /\ trk.driver \in {"rpc", "github"}
          /\ made' = made + 1
          /\ trackers' = [n \in DOMAIN trackers \cup {trk.name} |->
                            IF n = trk.name THEN trk.driver ELSE trackers[n]]
          /\ UNCHANGED phase
       \/ phase' = "failed" /\ UNCHANGED <<made, trackers>>
  /\ UNCHANGED <<doc, flow, job, todo, seen, subs, reg, run>>
-----------------------------------------------------------------------------
(* registerTriggers calls s.Trackers[trigger.Tracker].                     *)
Register(n) ==
  /\ phase = "running" /\ n \in DOMAIN doc.triggers \ reg
  /\ reg' = reg \cup {n}
  /\ phase' = IF doc.triggers[n].in \in DOMAIN trackers THEN phase ELSE "panicked"
  /\ UNCHANGED <<doc, flow, job, todo, seen, subs, made, trackers, run>>

(* handleUpdate: ListSubscribedJobs of the trigger, which may be one of an *)
(* earlier configuration, and one of its jobs.                             *)
HandleUpdate(t) ==
  /\ phase = "running" /\ run = <<>>
  /\ t \in DOMAIN subs
  /\ \E k \in DOMAIN subs[t] : run' = flow[subs[t][k]]
  /\ UNCHANGED <<phase, doc, flow, job, todo, seen, subs, made, trackers, reg>>

(* runSequence: an if whose condition holds is gone into, an action calls  *)
(* s.Trackers[trkName]; a step that fails ends the job.                    *)
RunStep ==
  /\ phase = "running" /\ run # <<>>
  /\ LET s == Head(run) IN
       \/ s.do = "if" /\ run' = flow[s.then] \o Tail(run) /\ UNCHANGED phase
       \/ s.do = "if" /\ run' \in {Tail(run), <<>>} /\ UNCHANGED phase
       \/ /\ s.do = "action" /\ run' \in {Tail(run), <<>>}
          /\ phase' = IF Path(s.name).tracker \in DOMAIN trackers THEN phase ELSE "panicked"
  /\ UNCHANGED <<doc, flow, job, todo, seen, subs, made, trackers, reg>>

Next ==
  \/ Read \/ CheckTriggers \/ CheckJob \/ CheckStep \/ Accept \/ Group
  \/ OpenTickets \/ PrepareTracker \/ OpenSubscriptions
  \/ \E n \in 1..Len(doc.triggers) : Register(n)
  \/ \E t \in Triggers : HandleUpdate(t)
  \/ RunStep

Spec == Init /\ [][Next]_vars
-----------------------------------------------------------------------------
Step == [do : {"action"}, name : Seq(Parts)] \cup [do : {"if"}, then : Blocks]

(* Types: what the program keeps has the shape the code gives it, and no    *)
(* tracker is made for a driver it does not know (run.go:131-151).         *)
FlowTypeOK ==
  /\ phase \in Unvalidated \cup Validated \cup Stopped
  /\ doc \in Documents
  /\ Maps(flow, Blocks, Seq(Step))
  /\ job \in 0..Len(doc.jobs) /\ made \in 0..Len(doc.trackers)
  /\ todo \in Seq(Step) /\ run \in Seq(Step)
  /\ seen \subseteq DOMAIN flow
  /\ Maps(subs, Triggers, Seq(Blocks))
  /\ Maps(trackers, Trackers, {"rpc", "github"})
  /\ reg \subseteq DOMAIN doc.triggers

(* A program that has started never calls a tracker that is not there: no  *)
(* registration of a trigger and no step of a job, however deep in ifs,    *)
(* meets the nil interface of a missing key (actor.go:137, 268).           *)
NoPanic == phase # "panicked"

(* What the file has to be, said of the whole of it at once.               *)
Calls(name) ==
  \E t \in Names : \E m \in {SubSeq(name, 2, Len(name))} :
    t # "" /\ name = <<t>> \o m /\ m \notin {<<>>, Nothing}
WellFormed ==
  /\ \A n \in DOMAIN doc.triggers : doc.triggers[n].in \in Names
  /\ \A j \in DOMAIN doc.jobs : doc.jobs[j].on \in TriggerNames
  /\ \A b \in DOMAIN doc.body : \A raw \in RawSteps(doc, b) : raw.if \/ Calls(raw.action)

(* validate (static.go:72-123) walks the file and stops at the first thing *)
(* it dislikes; it refuses a file exactly when there is something wrong    *)
(* anywhere in it.                                                         *)
ValidatedExactly ==
  /\ phase = "refused" => ~WellFormed
  /\ phase \in Validated => WellFormed

(* Of the first n jobs, those on t, and what tells that at lists them in   *)
(* the order of the file.                                                  *)
Mine(n, t) == {i \in 1..n : doc.jobs[i].on = t}
Lists(at, S) ==
  /\ S = {at[k] : k \in DOMAIN at}
  /\ \A k, m \in DOMAIN at : k < m => at[k] < at[m]

Grouped(n) ==
  \A t \in Triggers :
    /\ t \in DOMAIN subs <=> Mine(n, t) # {}
    /\ \E at \in [DOMAIN JobsOn(subs, t) -> Mine(n, t)] :
         /\ Lists(at, Mine(n, t))
         /\ \A k \in DOMAIN at : subs[t][k] = doc.jobs[at[k]].do

(* Every job is found under its trigger, once and in the order of the      *)
(* file, and nothing else is: the map NewStatic fills (static.go:45-47)    *)
(* loses none of the jobs that share a trigger.                            *)
JobsGrouped ==
  phase \in {"trackers", "running"} => Grouped(Len(doc.jobs))
=============================================================================
