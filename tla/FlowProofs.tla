----------------------------- MODULE FlowProofs -----------------------------
(***************************************************************************)
(* A program that has started never calls a tracker that is not there.     *)
(*                                                                         *)
(* validateSequence keeps no record of what it has found right; the        *)
(* invariant does: of every block it was called with, each step is right   *)
(* or among those it has still to look at.  When nothing is left, the      *)
(* blocks it has seen are right and closed under going into ifs, so that   *)
(* a job, which begins in one of them, stays in them.                      *)
(***************************************************************************)
EXTENDS Flow, SequenceTheorems, TLAPS

StepOK(s) == IF s.do = "if" THEN s.then \in seen ELSE Valid(s.name)
Pending(s) == \E i \in DOMAIN todo : todo[i] = s

(* Every if among the steps S goes into a block of the file.               *)
Inside(S) == \A k \in DOMAIN S : S[k].do = "if" => S[k].then \in DOMAIN doc.body

FlowDecoded ==
  /\ phase = "read" => seen = {}
  /\ phase \in Stopped \/ phase = "read" \/ flow = Decoded(doc)
  /\ seen \subseteq DOMAIN doc.body
  /\ Inside(todo)

Checked ==
  phase \notin Stopped =>
    \A b \in seen : \A k \in DOMAIN flow[b] : StepOK(flow[b][k]) \/ Pending(flow[b][k])

Entered ==
  /\ phase \in Unvalidated => \A j \in 1..job : doc.jobs[j].do \in seen
  /\ phase \in Validated => JobBlocks(doc) \subseteq seen
  /\ phase \in Validated => todo = <<>>

TriggersNamed ==
  phase \in {"jobs"} \cup Validated => \A n \in DOMAIN doc.triggers : doc.triggers[n].in \in Names

SubsSeen == \A t \in DOMAIN subs : \A k \in DOMAIN subs[t] : subs[t][k] \in JobBlocks(doc)

TrackersMade ==
  /\ phase = "running" => made = Len(doc.trackers)
  /\ \A n \in 1..made : doc.trackers[n].name \in DOMAIN trackers

RunRight ==
  /\ phase \in {"read", "triggers", "jobs", "group", "trackers"} => run = <<>>
  /\ phase = "running" => \A k \in DOMAIN run : StepOK(run[k])

Inv ==
  /\ FlowTypeOK /\ FlowDecoded /\ Checked /\ Entered /\ TriggersNamed
  /\ SubsSeen /\ TrackersMade /\ RunRight /\ NoPanic
-----------------------------------------------------------------------------
(* What is known of the file. *)
LEMMA DocumentFacts ==
  ASSUME doc \in Documents
  PROVE  /\ IsDocument(doc)
         /\ \A b \in DOMAIN doc.body : Then(doc, b) \subseteq DOMAIN doc.body
         /\ JobBlocks(doc) \subseteq DOMAIN doc.body
BY FlowAssumption DEF Reached

(* What the decoder makes of the file. *)
LEMMA DecodedFacts ==
  ASSUME doc \in Documents
  PROVE  /\ Maps(Decoded(doc), Blocks, Seq(Step))
         /\ DOMAIN Decoded(doc) = DOMAIN doc.body
         /\ \A b \in DOMAIN doc.body : Inside(Decoded(doc)[b])
<1>1. DOMAIN Decoded(doc) = DOMAIN doc.body  BY DEF Decoded
<1>2. ASSUME NEW b \in DOMAIN doc.body
      PROVE  Decoded(doc)[b] \in Seq(Step) /\ Inside(Decoded(doc)[b])
  <2>1. doc.body[b] \in Seq(Raw)  BY DocumentFacts DEF IsDocument, Maps
  <2>2. Decoded(doc)[b] = [k \in DOMAIN doc.body[b] |-> Decode(doc.body[b][k])]
    BY DEF Decoded
  <2>3. ASSUME NEW k \in DOMAIN doc.body[b]
        PROVE  /\ Decode(doc.body[b][k]) \in Step
               /\ Decode(doc.body[b][k]).do = "if"
                    => Decode(doc.body[b][k]).then \in DOMAIN doc.body
    <3>1. doc.body[b][k] \in Raw  BY <2>1
    <3>2. doc.body[b][k] \in RawSteps(doc, b)  BY DEF RawSteps
    <3>3. CASE doc.body[b][k].if
      <4>1. doc.body[b][k].then \in Then(doc, b)  BY <3>2, <3>3 DEF Then
      <4>2. doc.body[b][k].then \in DOMAIN doc.body  BY <4>1, DocumentFacts
      <4> QED  BY <3>1, <3>3, <4>2 DEF Decode, Step, Raw
    <3>4. CASE ~doc.body[b][k].if
      BY <3>1, <3>4 DEF Decode, Step, Raw
    <3> QED  BY <3>3, <3>4
  <2>4. /\ DOMAIN doc.body[b] = 1..Len(doc.body[b])
        /\ Len(doc.body[b]) \in Nat
    BY <2>1
  <2>5. Decoded(doc)[b] \in Seq(Step)  BY <2>2, <2>3, <2>4, IsASeq
  <2>6. Inside(Decoded(doc)[b])  BY <2>2, <2>3 DEF Inside
  <2> QED  BY <2>5, <2>6
<1>3. DOMAIN doc.body \subseteq Blocks  BY DocumentFacts DEF IsDocument, Maps
<1>4. Decoded(doc) = [b \in DOMAIN Decoded(doc) |-> Decoded(doc)[b]]  BY DEF Decoded
<1> QED  BY <1>1, <1>2, <1>3, <1>4 DEF Maps
-----------------------------------------------------------------------------
LEMMA InitInv == Init => Inv
<1> SUFFICES ASSUME Init PROVE Inv  OBVIOUS
<1> USE DEF Init
<1>1. FlowTypeOK
  <2>1. IsDocument(doc)  BY DocumentFacts
  <2>2. Len(doc.jobs) \in Nat /\ Len(doc.trackers) \in Nat  BY <2>1 DEF IsDocument
  <2>3. Maps(flow, Blocks, Seq(Step)) /\ Maps(subs, Triggers, Seq(Blocks))
    BY DEF Maps
  <2>4. Maps(trackers, Trackers, {"rpc", "github"})  BY DEF Maps
  <2> QED  BY <2>2, <2>3, <2>4 DEF FlowTypeOK, Unvalidated
<1>2. FlowDecoded /\ Checked /\ Entered
  BY DEF FlowDecoded, Checked, Entered, Inside, Validated, Unvalidated
<1>3. TriggersNamed /\ SubsSeen /\ TrackersMade /\ RunRight /\ NoPanic
  BY DEF TriggersNamed, SubsSeen, TrackersMade, RunRight, NoPanic, Validated
<1> QED  BY <1>1, <1>2, <1>3 DEF Inv

(* The steps of u are those of s and those of t.                           *)
Joins(u, s, t) ==
  /\ \A i \in DOMAIN u : \/ \E k \in DOMAIN s : u[i] = s[k]
                        \/ \E k \in DOMAIN t : u[i] = t[k]
  /\ \A k \in DOMAIN s : \E i \in DOMAIN u : u[i] = s[k]
  /\ \A k \in DOMAIN t : \E i \in DOMAIN u : u[i] = t[k]

LEMMA Joined ==
  ASSUME NEW S, NEW s \in Seq(S), NEW t \in Seq(S)
  PROVE  s \o t \in Seq(S) /\ Joins(s \o t, s, t)
<1>1. /\ DOMAIN s = 1..Len(s) /\ DOMAIN t = 1..Len(t)
      /\ Len(s) \in Nat /\ Len(t) \in Nat
  OBVIOUS
<1>2. s \o t \in Seq(S) /\ DOMAIN (s \o t) = 1..(Len(s) + Len(t))
  BY ConcatProperties
<1>3. \A i \in 1..(Len(s) + Len(t)) :
        (s \o t)[i] = IF i <= Len(s) THEN s[i] ELSE t[i - Len(s)]
  BY ConcatProperties
<1>4. ASSUME NEW i \in DOMAIN (s \o t)
      PROVE  \/ \E k \in DOMAIN s : (s \o t)[i] = s[k]
             \/ \E k \in DOMAIN t : (s \o t)[i] = t[k]
  <2>1. CASE i <= Len(s)  BY <2>1, <1>1, <1>2, <1>3
  <2>2. CASE ~(i <= Len(s))
    <3>1. i - Len(s) \in DOMAIN t  BY <2>2, <1>1, <1>2
    <3>2. (s \o t)[i] = t[i - Len(s)]  BY <2>2, <1>2, <1>3
    <3> QED  BY <3>1, <3>2
  <2> QED  BY <2>1, <2>2
<1>5. ASSUME NEW k \in DOMAIN s PROVE \E i \in DOMAIN (s \o t) : (s \o t)[i] = s[k]
  <2>1. k \in DOMAIN (s \o t) /\ (s \o t)[k] = s[k]  BY <1>1, <1>2, <1>3
  <2> QED  BY <2>1
<1>6. ASSUME NEW k \in DOMAIN t PROVE \E i \in DOMAIN (s \o t) : (s \o t)[i] = t[k]
  <2>1. k + Len(s) \in 1..(Len(s) + Len(t)) /\ ~(k + Len(s) <= Len(s))
    BY <1>1
  <2>2. (s \o t)[k + Len(s)] = t[(k + Len(s)) - Len(s)]  BY <2>1, <1>3
  <2>3. (k + Len(s)) - Len(s) = k  BY <1>1
  <2>4. (s \o t)[k + Len(s)] = t[k]  BY <2>2, <2>3
  <2> QED  BY <2>1, <2>4, <1>2
<1> QED  BY <1>2, <1>4, <1>5, <1>6 DEF Joins

(* The steps of s are h and those of r.                                    *)
Splits(s, h, r) ==
  /\ \E i \in DOMAIN s : s[i] = h
  /\ \A k \in DOMAIN r : \E i \in DOMAIN s : s[i] = r[k]
  /\ \A i \in DOMAIN s : s[i] = h \/ \E k \in DOMAIN r : r[k] = s[i]

LEMMA Split ==
  ASSUME NEW S, NEW s \in Seq(S), s # <<>>
  PROVE  Head(s) \in S /\ Tail(s) \in Seq(S) /\ Splits(s, Head(s), Tail(s))
<1>1. Len(s) \in Nat /\ Len(s) >= 1 /\ DOMAIN s = 1..Len(s)
  BY EmptySeq
<1>2. /\ Tail(s) \in Seq(S) /\ DOMAIN Tail(s) = 1..(Len(s) - 1)
      /\ \A k \in 1..(Len(s) - 1) : Tail(s)[k] = s[k + 1]
  BY HeadTailProperties, <1>1
<1>3. Head(s) \in S /\ s[1] = Head(s) /\ 1 \in DOMAIN s  BY <1>1
<1>4. ASSUME NEW k \in DOMAIN Tail(s) PROVE \E i \in DOMAIN s : s[i] = Tail(s)[k]
  <2>1. k + 1 \in DOMAIN s /\ Tail(s)[k] = s[k + 1]  BY <1>1, <1>2
  <2> QED  BY <2>1
<1>5. ASSUME NEW i \in DOMAIN s, i # 1
      PROVE  \E k \in DOMAIN Tail(s) : Tail(s)[k] = s[i]
  <2>1. i - 1 \in 1..(Len(s) - 1) /\ (i - 1) + 1 = i  BY <1>1, <1>5
  <2>2. Tail(s)[i - 1] = s[(i - 1) + 1]  BY <1>2, <2>1
  <2>3. Tail(s)[i - 1] = s[i]  BY <2>1, <2>2
  <2> QED  BY <2>1, <2>3, <1>2
<1> QED  BY <1>2, <1>3, <1>4, <1>5 DEF Splits
-----------------------------------------------------------------------------
(* The parts of the invariant an action leaves alone. *)
Checking == <<doc, flow, todo, seen>>
Serving == <<subs, made, trackers, run>>

LEMMA KeepStopped ==
  ASSUME Inv, phase' \in {"refused", "failed"}, UNCHANGED <<doc, subs, trackers>>,
         made' = made, run' = run,
         FlowTypeOK', seen' \subseteq DOMAIN doc.body, Inside(todo)'
  PROVE  Inv'
<1>1. FlowDecoded'  BY DEF FlowDecoded, Stopped
<1>2. Checked' /\ Entered' /\ TriggersNamed'
  BY DEF Checked, Entered, TriggersNamed, Stopped, Validated, Unvalidated
<1>3. SubsSeen' /\ TrackersMade'
  BY DEF Inv, SubsSeen, TrackersMade, JobBlocks
<1>4. RunRight' /\ NoPanic'  BY DEF RunRight, NoPanic
<1> QED  BY <1>1, <1>2, <1>3, <1>4 DEF Inv

LEMMA ReadInv == Inv /\ Read => Inv'
<1> SUFFICES ASSUME Inv, Read PROVE Inv'  OBVIOUS
<1> USE DEF Inv, Read
<1>1. doc' = doc /\ doc \in Documents /\ Maps(Decoded(doc), Blocks, Seq(Step))
  BY DecodedFacts DEF FlowTypeOK
<1>2. seen = {}  BY DEF FlowDecoded
<1>3. FlowTypeOK'
  BY <1>1, <1>2 DEF FlowTypeOK, Unvalidated, Stopped, Maps
<1>4. seen' \subseteq DOMAIN doc.body /\ Inside(todo)'
  BY <1>2 DEF FlowDecoded, Inside
<1>5. CASE phase' = "refused"
  BY <1>3, <1>4, <1>5, KeepStopped
<1>6. CASE phase' = "triggers" /\ flow' = Decoded(doc)
  <2>1. FlowDecoded'  BY <1>4, <1>6 DEF FlowDecoded
  <2>2. Checked' /\ Entered' /\ TriggersNamed'
    BY <1>2, <1>6 DEF Checked, Entered, TriggersNamed, Validated, Unvalidated
  <2>3. SubsSeen' /\ TrackersMade'
    BY <1>6 DEF SubsSeen, TrackersMade, JobBlocks
  <2>4. RunRight' /\ NoPanic'  BY <1>6 DEF RunRight, NoPanic
  <2> QED  BY <1>3, <2>1, <2>2, <2>3, <2>4
<1> QED  BY <1>5, <1>6

LEMMA CheckTriggersInv == Inv /\ CheckTriggers => Inv'
<1> SUFFICES ASSUME Inv, CheckTriggers PROVE Inv'  OBVIOUS
<1> USE DEF Inv, CheckTriggers
<1>1. FlowTypeOK'
  BY DEF FlowTypeOK, Unvalidated, Stopped, Maps
<1>2. seen' \subseteq DOMAIN doc.body /\ Inside(todo)'
  BY DEF FlowDecoded, Inside
<1>3. CASE phase' = "refused"
  BY <1>1, <1>2, <1>3, KeepStopped
<1>4. CASE phase' = "jobs" /\ \A n \in DOMAIN doc.triggers : doc.triggers[n].in \in Names
  <2>1. FlowDecoded'  BY <1>2, <1>4 DEF FlowDecoded, Stopped
  <2>2. Checked'
    BY <1>4 DEF Checked, Stopped, StepOK, Valid, Names, Pending
  <2>3. Entered' /\ TriggersNamed'
    BY <1>4 DEF Entered, TriggersNamed, Validated, Unvalidated, Names
  <2>4. SubsSeen' /\ TrackersMade'
    BY <1>4 DEF SubsSeen, TrackersMade, JobBlocks
  <2>5. RunRight' /\ NoPanic'  BY <1>4 DEF RunRight, NoPanic
  <2> QED  BY <1>1, <2>1, <2>2, <2>3, <2>4, <2>5
<1> QED  BY <1>3, <1>4

(* validateSequence goes into a block: its steps come before the rest.     *)
LEMMA EnterInv ==
  ASSUME Inv, phase = "jobs", NEW b \in DOMAIN doc.body, NEW rest \in Seq(Step),
         Enter(b, rest), Inside(rest),
         UNCHANGED <<phase, doc, flow, Serving, reg>>, job' \in 0..Len(doc.jobs),
         \A c \in seen : \A k \in DOMAIN flow[c] :
            \/ StepOK(flow[c][k])'
            \/ \E i \in DOMAIN rest : rest[i] = flow[c][k],
         \A j \in 1..job' : doc.jobs[j].do \in seen \cup {b}
  PROVE  Inv'
<1> USE DEF Enter, Serving, Inv
<1>1. /\ flow = Decoded(doc) /\ doc \in Documents /\ Inside(flow[b])
      /\ flow[b] \in Seq(Step) /\ DOMAIN flow = DOMAIN doc.body
  BY DecodedFacts DEF FlowDecoded, Stopped, FlowTypeOK, Maps
<1>2. todo' \in Seq(Step) /\ Joins(todo', flow[b], rest)
  <2>1. PICK f \in Seq(Step) : f = flow[b] /\ todo' = f \o rest  BY <1>1
  <2>2. f \o rest \in Seq(Step) /\ Joins(f \o rest, f, rest)  BY Joined
  <2> QED  BY <2>1, <2>2
<1>3. FlowTypeOK'
  <2>1. seen' \subseteq DOMAIN flow  BY <1>1 DEF FlowTypeOK
  <2>2. Maps(flow, Blocks, Seq(Step)) /\ UNCHANGED <<flow, subs, trackers, phase, doc>>
    BY DEF FlowTypeOK
  <2> QED  BY <1>2, <2>1, <2>2 DEF FlowTypeOK
<1>4. FlowDecoded'
  <2>1. Inside(todo)'  BY <1>1, <1>2 DEF Inside, Joins
  <2>2. seen' \subseteq DOMAIN doc.body  BY DEF FlowDecoded
  <2> QED  BY <1>1, <2>1, <2>2 DEF FlowDecoded
<1>5. Checked'
  <2> SUFFICES ASSUME NEW c \in seen', NEW k \in DOMAIN flow[c]
               PROVE  StepOK(flow[c][k])' \/ Pending(flow[c][k])'
    BY DEF Checked
  <2>1. CASE c = b
    BY <2>1, <1>2 DEF Pending, Joins
  <2>2. CASE c \in seen /\ ~StepOK(flow[c][k])'
    <3>1. PICK m \in DOMAIN rest : rest[m] = flow[c][k]  BY <2>2
    <3>2. PICK i \in DOMAIN todo' : todo'[i] = rest[m]  BY <1>2, <3>1 DEF Joins
    <3>3. flow' = flow  OBVIOUS
    <3> QED  BY <3>1, <3>2, <3>3 DEF Pending
  <2> QED  BY <2>1, <2>2
<1>6. Entered' /\ TriggersNamed'
  BY DEF Entered, TriggersNamed, Validated, Unvalidated, Names
<1>7. SubsSeen' /\ TrackersMade'
  BY DEF SubsSeen, TrackersMade, JobBlocks
<1>8. RunRight' /\ NoPanic'  BY DEF RunRight, NoPanic
<1> QED  BY <1>3, <1>4, <1>5, <1>6, <1>7, <1>8

LEMMA CheckJobInv == Inv /\ CheckJob => Inv'
<1> SUFFICES ASSUME Inv, CheckJob PROVE Inv'  OBVIOUS
<1> USE DEF Inv, CheckJob
<1>1. /\ doc \in Documents /\ IsDocument(doc) /\ job \in Nat /\ Len(doc.jobs) \in Nat
      /\ DOMAIN doc.jobs = 1..Len(doc.jobs)
  BY DocumentFacts DEF FlowTypeOK, IsDocument
<1>2. job' \in 0..Len(doc.jobs) /\ job' \in DOMAIN doc.jobs
  BY <1>1
<1>3. CASE phase' = "refused" /\ todo' = todo /\ seen' = seen
  <2>1. FlowTypeOK'  BY <1>2, <1>3 DEF FlowTypeOK, Stopped, Maps
  <2>2. seen' \subseteq DOMAIN doc.body /\ Inside(todo)'
    BY <1>3 DEF FlowDecoded, Inside
  <2> QED  BY <1>3, <2>1, <2>2, KeepStopped
<1>4. CASE Enter(doc.jobs[job'].do, <<>>) /\ phase' = phase
  <2>1. PICK b \in DOMAIN doc.body : b = doc.jobs[job'].do
    BY <1>2, DocumentFacts, <1>1 DEF JobBlocks
  <2>2. \A c \in seen : \A k \in DOMAIN flow[c] : StepOK(flow[c][k])
    BY DEF Checked, Stopped, Pending
  <2>3. \A c \in seen : \A k \in DOMAIN flow[c] : StepOK(flow[c][k])'
    <3> SUFFICES ASSUME NEW c \in seen, NEW k \in DOMAIN flow[c]
                 PROVE  StepOK(flow[c][k])'
      OBVIOUS
    <3>1. StepOK(flow[c][k])  BY <2>2
    <3> QED  BY <3>1, <1>4 DEF StepOK, Enter, Valid, Names
  <2>4. \A j \in 1..job' : doc.jobs[j].do \in seen \cup {b}
    BY <1>1, <2>1 DEF Entered, Unvalidated
  <2>5. <<>> \in Seq(Step) /\ Inside(<<>>)  BY DEF Inside
  <2>6. Enter(b, <<>>)  BY <1>4, <2>1
  <2> QED  BY <1>2, <1>4, <2>3, <2>4, <2>5, <2>6, EnterInv DEF Serving
<1> QED  BY <1>3, <1>4

LEMMA CheckStepInv == Inv /\ CheckStep => Inv'
<1> SUFFICES ASSUME Inv, CheckStep PROVE Inv'  OBVIOUS
<1> USE DEF Inv, CheckStep
<1>1. PICK s \in Step, rest \in Seq(Step) :
        s = Head(todo) /\ rest = Tail(todo) /\ Splits(todo, s, rest)
  <2>1. PICK td \in Seq(Step) : td = todo  BY DEF FlowTypeOK
  <2>2. Head(td) \in Step /\ Tail(td) \in Seq(Step) /\ Splits(td, Head(td), Tail(td))
    BY <2>1, Split
  <2> QED  BY <2>1, <2>2
<1>2. Inside(rest) /\ (s.do = "if" => s.then \in DOMAIN doc.body)
  <2>1. Inside(todo)  BY DEF FlowDecoded
  <2> QED  BY <1>1, <2>1 DEF Inside, Splits
<1>3. \A c \in seen : \A k \in DOMAIN flow[c] :
        \/ StepOK(flow[c][k]) \/ flow[c][k] = s
        \/ \E i \in DOMAIN rest : rest[i] = flow[c][k]
  <2> SUFFICES ASSUME NEW c \in seen, NEW k \in DOMAIN flow[c], ~StepOK(flow[c][k]),
                      flow[c][k] # s
               PROVE  \E i \in DOMAIN rest : rest[i] = flow[c][k]
    OBVIOUS
  <2>1. Pending(flow[c][k])  BY DEF Checked, Stopped
  <2>2. PICK i \in DOMAIN todo : todo[i] = flow[c][k]  BY <2>1 DEF Pending
  <2> QED  BY <1>1, <2>2 DEF Splits
<1>4. CASE s.do = "if"
  <2>1. Enter(s.then, rest) /\ phase' = phase  BY <1>1, <1>4
  <2>2. PICK b \in DOMAIN doc.body : b = s.then  BY <1>2, <1>4
  <2>3. Enter(b, rest) /\ seen' = seen \cup {b}  BY <2>1, <2>2 DEF Enter
  <2>4. \A c \in seen : \A k \in DOMAIN flow[c] :
          \/ StepOK(flow[c][k])'
          \/ \E i \in DOMAIN rest : rest[i] = flow[c][k]
    <3> SUFFICES ASSUME NEW c \in seen, NEW k \in DOMAIN flow[c],
                        StepOK(flow[c][k]) \/ flow[c][k] = s
                 PROVE  StepOK(flow[c][k])'
      BY <1>3
    <3> QED  BY <2>2, <2>3, <1>4 DEF StepOK, Valid, Names
  <2>5. \A j \in 1..job' : doc.jobs[j].do \in seen \cup {b}
    BY DEF Entered, Unvalidated
  <2>6. job' \in 0..Len(doc.jobs)  BY DEF FlowTypeOK
  <2> QED  BY <1>2, <2>1, <2>3, <2>4, <2>5, <2>6, EnterInv DEF Serving
<1>5. CASE s.do # "if"
  <2>1. todo' = rest /\ seen' = seen  BY <1>1, <1>5
  <2>2. phase' = IF Valid(s.name) THEN phase ELSE "refused"  BY <1>1, <1>5
  <2>3. FlowTypeOK'  BY <1>1, <2>1, <2>2 DEF FlowTypeOK, Maps, Stopped
  <2>4. seen' \subseteq DOMAIN doc.body /\ Inside(todo)'
    BY <1>2, <2>1 DEF FlowDecoded, Inside
  <2>5. CASE phase' = "refused"  BY <2>1, <2>3, <2>4, <2>5, KeepStopped
  <2>6. CASE Valid(s.name) /\ phase' = phase
    <3>1. FlowDecoded'  BY <2>4, <2>6 DEF FlowDecoded, Stopped
    <3>2. Checked'
      <4> SUFFICES ASSUME NEW c \in seen', NEW k \in DOMAIN flow[c]
                   PROVE  StepOK(flow[c][k])' \/ Pending(flow[c][k])'
        BY DEF Checked
      <4>1. CASE StepOK(flow[c][k]) \/ flow[c][k] = s
        BY <4>1, <1>5, <2>1, <2>6 DEF StepOK, Valid, Names
      <4>2. CASE \E i \in DOMAIN rest : rest[i] = flow[c][k]
        BY <4>2, <2>1 DEF Pending
      <4> QED  BY <4>1, <4>2, <1>3, <2>1
    <3>3. Entered' /\ TriggersNamed'
      BY <2>1, <2>6 DEF Entered, TriggersNamed, Validated, Unvalidated, Names
    <3>4. SubsSeen' /\ TrackersMade'  BY <2>6 DEF SubsSeen, TrackersMade, JobBlocks
    <3>5. RunRight' /\ NoPanic'  BY <2>6 DEF RunRight, NoPanic
    <3> QED  BY <2>3, <3>1, <3>2, <3>3, <3>4, <3>5
  <2> QED  BY <2>2, <2>5, <2>6
<1> QED  BY <1>4, <1>5

LEMMA AcceptInv == Inv /\ Accept => Inv'
<1> SUFFICES ASSUME Inv, Accept PROVE Inv'  OBVIOUS
<1> USE DEF Inv, Accept
<1>1. IsDocument(doc) /\ Len(doc.jobs) \in Nat /\ DOMAIN doc.jobs = 1..Len(doc.jobs)
  BY DocumentFacts DEF FlowTypeOK, IsDocument
<1>2. FlowTypeOK'  BY <1>1 DEF FlowTypeOK, Maps, Validated
<1>3. FlowDecoded'  BY DEF FlowDecoded, Inside, Stopped
<1>4. Checked'  BY DEF Checked, StepOK, Pending, Valid, Names, Stopped
<1>5. Entered'
  <2>1. \A j \in DOMAIN doc.jobs : doc.jobs[j].do \in seen
    BY <1>1 DEF Entered, Unvalidated
  <2>2. JobBlocks(doc) \subseteq seen  BY <2>1 DEF JobBlocks
  <2> QED  BY <2>2 DEF Entered, Validated, Unvalidated
<1>6. TriggersNamed' /\ SubsSeen' /\ TrackersMade'
  BY DEF TriggersNamed, SubsSeen, TrackersMade, JobBlocks, Validated, Names
<1>7. RunRight' /\ NoPanic'  BY DEF RunRight, NoPanic
<1> QED  BY <1>2, <1>3, <1>4, <1>5, <1>6, <1>7
-----------------------------------------------------------------------------
(* From here on the file, its blocks and what was checked stay the same.   *)
LEMMA KeepChecked ==
  ASSUME Inv, phase \in Validated, phase' \in Validated, UNCHANGED <<Checking, reg>>
  PROVE  FlowDecoded' /\ Checked' /\ Entered' /\ TriggersNamed'
<1> USE DEF Inv, Checking
<1>1. FlowDecoded'  BY DEF FlowDecoded, Inside, Stopped, Validated
<1>2. Checked'  BY DEF Checked, StepOK, Pending, Valid, Names, Stopped, Validated
<1>3. Entered'  BY DEF Entered, JobBlocks, Validated, Unvalidated
<1>4. TriggersNamed'  BY DEF TriggersNamed, Names, Validated
<1> QED  BY <1>1, <1>2, <1>3, <1>4

(* The steps of the blocks that were seen are right when none is pending.  *)
LEMMA SeenRight ==
  ASSUME Inv, phase \in Validated, NEW b \in seen
  PROVE  \A k \in DOMAIN flow[b] : StepOK(flow[b][k])
<1>1. todo = <<>> /\ phase \notin Stopped
  BY DEF Inv, Entered, Validated, Stopped
<1>2. \A k \in DOMAIN flow[b] : ~Pending(flow[b][k])
  BY <1>1 DEF Pending
<1> QED  BY <1>1, <1>2 DEF Inv, Checked

(* Every tracker of the file is made once the program runs.                *)
LEMMA AllMade == Inv /\ phase = "running" => Names \subseteq DOMAIN trackers
<1> SUFFICES ASSUME Inv, phase = "running", NEW n \in DOMAIN doc.trackers
             PROVE  doc.trackers[n].name \in DOMAIN trackers
  BY DEF Names
<1>1. n \in 1..made
  BY DocumentFacts DEF Inv, FlowTypeOK, IsDocument, TrackersMade
<1> QED  BY <1>1 DEF Inv, TrackersMade

LEMMA GroupInv == Inv /\ Group => Inv'
<1> SUFFICES ASSUME Inv, Group PROVE Inv'  OBVIOUS
<1> USE DEF Inv, Group
<1>1. /\ IsDocument(doc) /\ Len(doc.jobs) \in Nat /\ DOMAIN doc.jobs = 1..Len(doc.jobs)
      /\ job' \in DOMAIN doc.jobs
  BY DocumentFacts DEF FlowTypeOK, IsDocument
<1>2. PICK j \in Job : j = doc.jobs[job']
  <2>1. PICK n \in DOMAIN doc.jobs : n = job'  BY <1>1
  <2>2. doc.jobs \in Seq(Job)  BY <1>1 DEF IsDocument
  <2>3. doc.jobs[n] \in Job  BY <2>2, ElementOfSeq
  <2> QED  BY <2>1, <2>3
<1>3. j.do \in JobBlocks(doc)  BY <1>1, <1>2 DEF JobBlocks
<1>4. \A t \in DOMAIN subs : subs[t] \in Seq(Blocks)
  BY DEF FlowTypeOK, Maps
<1>5. JobsOn(subs, j.on) \in Seq(Blocks)
  BY <1>4 DEF JobsOn
<1>6. Append(JobsOn(subs, j.on), j.do) \in Seq(Blocks)
  BY <1>2, <1>5 DEF Job
<1>7. /\ DOMAIN subs' = DOMAIN subs \cup {j.on}
      /\ \A t \in DOMAIN subs' :
           subs'[t] = IF t = j.on THEN Append(JobsOn(subs, j.on), j.do) ELSE subs[t]
      /\ subs' = [t \in DOMAIN subs' |-> subs'[t]]
  BY <1>2 DEF Subscribe
<1>8. Maps(subs', Triggers, Seq(Blocks))
  <2>1. DOMAIN subs' \subseteq Triggers  BY <1>2, <1>7 DEF FlowTypeOK, Maps, Job
  <2>2. \A t \in DOMAIN subs' : subs'[t] \in Seq(Blocks)  BY <1>4, <1>6, <1>7
  <2> QED  BY <1>7, <2>1, <2>2 DEF Maps
<1>9. FlowTypeOK'
  <2>1. job' \in 0..Len(doc.jobs)  BY <1>1
  <2> QED  BY <1>8, <2>1 DEF FlowTypeOK, Maps, Validated
<1>10. SubsSeen'
  <2> SUFFICES ASSUME NEW t \in DOMAIN subs', NEW k \in DOMAIN subs'[t]
               PROVE  subs'[t][k] \in JobBlocks(doc)
    BY DEF SubsSeen, JobBlocks
  <2>1. CASE t = j.on
    <3>1. PICK q \in Seq(Blocks) : q = JobsOn(subs, j.on)  BY <1>5
    <3>2. subs'[t] = Append(q, j.do)  BY <2>1, <3>1, <1>7
    <3>3. subs'[t][k] = j.do \/ (k \in DOMAIN q /\ subs'[t][k] = q[k])
      BY <3>1, <3>2, <1>2 DEF Job
    <3>4. \A m \in DOMAIN q : q[m] \in JobBlocks(doc)
      BY <3>1 DEF JobsOn, SubsSeen
    <3> QED  BY <3>3, <3>4, <1>3
  <2>2. CASE t # j.on
    <3>1. t \in DOMAIN subs /\ subs'[t] = subs[t]  BY <2>2, <1>7
    <3> QED  BY <3>1 DEF SubsSeen
  <2> QED  BY <2>1, <2>2
<1>11. FlowDecoded' /\ Checked' /\ Entered' /\ TriggersNamed'
  BY KeepChecked DEF Validated, Checking
<1>12. TrackersMade' /\ RunRight' /\ NoPanic'
  BY DEF TrackersMade, RunRight, NoPanic
<1> QED  BY <1>9, <1>10, <1>11, <1>12

LEMMA OpenInv == Inv /\ (OpenTickets \/ OpenSubscriptions) => Inv'
<1> SUFFICES ASSUME Inv, OpenTickets \/ OpenSubscriptions PROVE Inv'  OBVIOUS
<1> USE DEF Inv, OpenTickets, OpenSubscriptions
<1>1. /\ phase \in Validated /\ phase' \in {"trackers", "running", "failed"}
      /\ UNCHANGED <<Checking, Serving, job, reg>>
      /\ phase' = "running" => made = Len(doc.trackers)
  BY DEF Validated, Checking, Serving
<1>2. FlowTypeOK'
  BY <1>1 DEF FlowTypeOK, Maps, Validated, Stopped, Checking, Serving
<1>3. CASE phase' = "failed"
  <2>1. seen' \subseteq DOMAIN doc.body /\ Inside(todo)'
    BY <1>1 DEF FlowDecoded, Inside, Checking
  <2> QED  BY <1>1, <1>2, <1>3, <2>1, KeepStopped DEF Checking, Serving
<1>4. CASE phase' \in Validated
  <2>1. FlowDecoded' /\ Checked' /\ Entered' /\ TriggersNamed'
    BY <1>1, <1>4, KeepChecked
  <2>2. SubsSeen' /\ TrackersMade'
    BY <1>1 DEF SubsSeen, TrackersMade, JobBlocks, Checking, Serving
  <2>3. RunRight' /\ NoPanic'
    <3>1. run = <<>>  BY DEF RunRight
    <3> QED  BY <3>1, <1>1 DEF RunRight, NoPanic, Serving
  <2> QED  BY <1>2, <2>1, <2>2, <2>3
<1> QED  BY <1>1, <1>3, <1>4 DEF Validated

LEMMA PrepareTrackerInv == Inv /\ PrepareTracker => Inv'
<1> SUFFICES ASSUME Inv, PrepareTracker PROVE Inv'  OBVIOUS
<1> USE DEF Inv, PrepareTracker
<1>1. /\ doc.trackers \in Seq(Tracker)
      /\ made \in Nat /\ made + 1 \in DOMAIN doc.trackers
      /\ made + 1 <= Len(doc.trackers) /\ Len(doc.trackers) \in Nat
  BY DocumentFacts DEF FlowTypeOK, IsDocument
<1>2. PICK trk \in Tracker : trk = doc.trackers[made + 1]
  BY <1>1, ElementOfSeq
<1>3. CASE phase' = "failed" /\ made' = made /\ trackers' = trackers
  <2>1. FlowTypeOK'  BY <1>3 DEF FlowTypeOK, Maps, Stopped
  <2>2. seen' \subseteq DOMAIN doc.body /\ Inside(todo)'
    BY DEF FlowDecoded, Inside
  <2> QED  BY <1>3, <2>1, <2>2, KeepStopped
<1>4. CASE /\ trk.driver \in {"rpc", "github"} /\ made' = made + 1 /\ phase' = phase
           /\ trackers' = [n \in DOMAIN trackers \cup {trk.name} |->
                             IF n = trk.name THEN trk.driver ELSE trackers[n]]
  <2>1. Maps(trackers', Trackers, {"rpc", "github"})
    <3>1. Maps(trackers, Trackers, {"rpc", "github"})  BY DEF FlowTypeOK
    <3> QED  BY <1>4, <3>1 DEF Maps, Tracker
  <2>2. made' \in 0..Len(doc.trackers)  BY <1>1, <1>4
  <2>3. FlowTypeOK'  BY <1>4, <2>1, <2>2 DEF FlowTypeOK, Maps
  <2>4. FlowDecoded' /\ Checked' /\ Entered' /\ TriggersNamed'
    BY <1>4, KeepChecked DEF Validated, Checking
  <2>5. TrackersMade'
    <3> SUFFICES ASSUME NEW n \in 1..made'
                 PROVE  doc.trackers[n].name \in DOMAIN trackers'
      BY <1>4 DEF TrackersMade
    <3>1. CASE n = made + 1  BY <3>1, <1>2, <1>4
    <3>2. CASE n \in 1..made
      BY <3>2, <1>4 DEF TrackersMade
    <3> QED  BY <3>1, <3>2, <1>1, <1>4
  <2>6. SubsSeen' /\ RunRight' /\ NoPanic'
    BY <1>4 DEF SubsSeen, JobBlocks, RunRight, NoPanic
  <2> QED  BY <2>3, <2>4, <2>5, <2>6
<1> QED  BY <1>2, <1>3, <1>4

LEMMA RegisterInv ==
  ASSUME Inv, NEW n \in 1..Len(doc.triggers), Register(n)
  PROVE  Inv'
<1> USE DEF Inv, Register
<1>1. doc.triggers[n].in \in Names  BY DEF TriggersNamed, Validated
<1>2. phase' = phase  BY <1>1, AllMade
<1>3. FlowTypeOK'  BY <1>2 DEF FlowTypeOK, Maps
<1>4. FlowDecoded' /\ Checked' /\ Entered' /\ TriggersNamed'
  BY <1>2 DEF FlowDecoded, Inside, Checked, StepOK, Pending, Valid, Names, Entered,
     JobBlocks, TriggersNamed
<1>5. SubsSeen' /\ TrackersMade' /\ NoPanic'
  BY <1>2 DEF SubsSeen, JobBlocks, TrackersMade, NoPanic
<1>6. RunRight'
  BY <1>2 DEF RunRight, StepOK, Valid, Names
<1> QED  BY <1>3, <1>4, <1>5, <1>6

(* The steps of a job, taken or gone into, stay right.                     *)
LEMMA RunInv ==
  ASSUME Inv, phase = "running", phase' = phase,
         UNCHANGED <<Checking, subs, made, trackers, job, reg>>,
         NEW r \in Seq(Step), run' = r, \A k \in DOMAIN r : StepOK(r[k])
  PROVE  Inv'
<1> USE DEF Inv, Checking
<1>1. FlowTypeOK'  BY DEF FlowTypeOK, Maps
<1>2. FlowDecoded' /\ Checked' /\ Entered' /\ TriggersNamed'
  BY KeepChecked DEF Validated
<1>3. SubsSeen' /\ TrackersMade' /\ NoPanic'
  BY DEF SubsSeen, JobBlocks, TrackersMade, NoPanic
<1>4. RunRight'  BY DEF RunRight, StepOK, Valid, Names
<1> QED  BY <1>1, <1>2, <1>3, <1>4

LEMMA HandleUpdateInv ==
  ASSUME Inv, NEW t \in Triggers, HandleUpdate(t)
  PROVE  Inv'
<1>1. PICK k \in DOMAIN subs[t] : run' = flow[subs[t][k]]
  BY DEF HandleUpdate
<1>2. PICK b \in seen : b = subs[t][k]
  BY <1>1 DEF HandleUpdate, Inv, SubsSeen, Entered, Validated
<1>3. phase \in Validated  BY DEF HandleUpdate, Validated
<1>4. flow[b] \in Seq(Step)  BY DEF Inv, FlowTypeOK, Maps
<1>5. PICK r \in Seq(Step) : r = flow[b]  BY <1>4
<1>6. \A m \in DOMAIN r : StepOK(r[m])  BY <1>3, <1>5, SeenRight
<1>7. run' = r  BY <1>1, <1>2, <1>5
<1> QED  BY <1>6, <1>7, RunInv DEF HandleUpdate, Checking

LEMMA RunStepInv == Inv /\ RunStep => Inv'
<1> SUFFICES ASSUME Inv, RunStep PROVE Inv'  OBVIOUS
<1>1. PICK s \in Step, rest \in Seq(Step) :
        s = Head(run) /\ rest = Tail(run) /\ Splits(run, s, rest)
  <2>1. PICK r \in Seq(Step) : r = run  BY DEF Inv, FlowTypeOK
  <2>2. Head(r) \in Step /\ Tail(r) \in Seq(Step) /\ Splits(r, Head(r), Tail(r))
    BY <2>1, Split DEF RunStep
  <2> QED  BY <2>1, <2>2
<1>2. StepOK(s) /\ \A k \in DOMAIN rest : StepOK(rest[k])
  <2>1. \A k \in DOMAIN run : StepOK(run[k])  BY DEF RunStep, Inv, RunRight
  <2> QED  BY <1>1, <2>1 DEF Splits
<1>3. phase = "running" /\ phase \in Validated /\ UNCHANGED <<Checking, subs, made, trackers, job, reg>>
  BY DEF RunStep, Validated, Checking
<1>4. CASE run' \in {rest, <<>>} /\ phase' = phase
  <2>1. PICK r \in Seq(Step) : r = run' /\ \A k \in DOMAIN r : StepOK(r[k])
    <3>1. CASE run' = rest  BY <3>1, <1>2
    <3>2. CASE run' = <<>>
      <4>1. <<>> \in Seq(Step) /\ DOMAIN <<>> = {}  OBVIOUS
      <4> QED  BY <3>2, <4>1
    <3> QED  BY <1>4, <3>1, <3>2
  <2> QED  BY <1>3, <1>4, <2>1, RunInv
<1>5. CASE s.do = "if" /\ run' = flow[s.then] \o rest /\ phase' = phase
  <2>1. PICK b \in seen : b = s.then  BY <1>2, <1>5 DEF StepOK
  <2>2. PICK f \in Seq(Step) : f = flow[b]
    BY DEF Inv, FlowTypeOK, Maps
  <2>3. \A k \in DOMAIN f : StepOK(f[k])  BY <1>3, <2>2, SeenRight
  <2>4. f \o rest \in Seq(Step) /\ Joins(f \o rest, f, rest)  BY Joined
  <2>5. PICK r \in Seq(Step) : r = f \o rest  BY <2>4
  <2>6. \A k \in DOMAIN r : StepOK(r[k])  BY <1>2, <2>3, <2>4, <2>5 DEF Joins
  <2>7. run' = r  BY <1>5, <2>1, <2>2, <2>5
  <2> QED  BY <1>3, <1>5, <2>6, <2>7, RunInv
<1>6. CASE /\ s.do = "action" /\ run' \in {rest, <<>>}
           /\ phase' = IF Path(s.name).tracker \in DOMAIN trackers THEN phase ELSE "panicked"
  <2>1. Path(s.name).tracker \in Names  BY <1>2, <1>6 DEF StepOK, Valid
  <2>2. phase' = phase  BY <1>3, <1>6, <2>1, AllMade
  <2> QED  BY <1>4, <1>6, <2>2
<1> QED  BY <1>1, <1>4, <1>5, <1>6 DEF RunStep

LEMMA NextInv == Inv /\ [Next]_vars => Inv'
<1> SUFFICES ASSUME Inv, [Next]_vars PROVE Inv'  OBVIOUS
<1>1. CASE Read \/ CheckTriggers \/ CheckJob \/ CheckStep
  BY <1>1, ReadInv, CheckTriggersInv, CheckJobInv, CheckStepInv
<1>2. CASE Accept \/ Group \/ OpenTickets \/ OpenSubscriptions \/ PrepareTracker
  BY <1>2, AcceptInv, GroupInv, OpenInv, PrepareTrackerInv
<1>3. ASSUME NEW n \in 1..Len(doc.triggers), Register(n) PROVE Inv'
  BY <1>3, RegisterInv
<1>4. ASSUME NEW t \in Triggers, HandleUpdate(t) PROVE Inv'
  BY <1>4, HandleUpdateInv
<1>5. CASE RunStep  BY <1>5, RunStepInv
<1>6. CASE UNCHANGED vars
  <2> USE <1>6 DEF vars, Inv
  <2>1. FlowTypeOK'  BY DEF FlowTypeOK, Maps
  <2>2. FlowDecoded' /\ Checked' /\ Entered' /\ TriggersNamed'
    BY DEF FlowDecoded, Inside, Checked, StepOK, Pending, Valid, Names, Entered,
       JobBlocks, TriggersNamed
  <2>3. SubsSeen' /\ TrackersMade' /\ RunRight' /\ NoPanic'
    BY DEF SubsSeen, JobBlocks, TrackersMade, RunRight, StepOK, Valid, Names, NoPanic
  <2> QED  BY <2>1, <2>2, <2>3
<1> QED  BY <1>1, <1>2, <1>3, <1>4, <1>5, <1>6 DEF Next
-----------------------------------------------------------------------------
(* Path finds a tracker and a method exactly where the name has both.      *)
LEMMA ValidCalls ==
  ASSUME NEW name \in Seq(Parts)
  PROVE  Valid(name) <=> Calls(name)
<1>1. CASE name = <<>>
  <2>1. ~Valid(name)  BY <1>1 DEF Valid, Path
  <2>2. \A t, m : name # <<t>> \o m  BY <1>1
  <2> QED  BY <2>1, <2>2 DEF Calls
<1>2. CASE name # <<>>
  <2>1. PICK h \in Parts, m \in Seq(Parts) :
          /\ h = Head(name) /\ m = Tail(name) /\ m = SubSeq(name, 2, Len(name))
          /\ Len(m) = Len(name) - 1 /\ Len(name) \in Nat \ {0}
    BY <1>2, TailIsSubSeq, HeadTailProperties, EmptySeq
  <2>2. name = <<h>> \o m  BY <1>2, <2>1
  <2>3. \A t : name = <<t>> \o m => t = h  BY <2>1
  <2>4. Calls(name) <=> h \in Names /\ h # "" /\ m \notin {<<>>, Nothing}
    BY <2>1, <2>2, <2>3 DEF Calls
  <2>5. Len(name) < 2 <=> m = <<>>  BY <2>1
  <2>6. Valid(name) <=> ~(Len(name) < 2) /\ h # "" /\ m # Nothing /\ h \in Names
    BY <2>1 DEF Valid, Path, NoPath
  <2> QED  BY <2>4, <2>5, <2>6
<1> QED  BY <1>1, <1>2

(* What a file has to be is said of the file alone.                        *)
LEMMA SameFile ==
  ASSUME UNCHANGED doc
  PROVE  WellFormed' <=> WellFormed
<1>1. Names' = Names /\ TriggerNames' = TriggerNames  BY DEF Names, TriggerNames
<1>2. \A name : Calls(name)' <=> Calls(name)  BY <1>1 DEF Calls
<1>3. \A b \in DOMAIN doc.body : RawSteps(doc, b)' = RawSteps(doc, b)  BY DEF RawSteps
<1> QED  BY <1>1, <1>2, <1>3 DEF WellFormed

(* What validation has found so far: what is to be looked at is of the     *)
(* file, what was looked at is right, and a refusal has a reason.          *)
FromFile(s) == \E b \in DOMAIN doc.body : \E raw \in RawSteps(doc, b) : s = Decode(raw)

Exact ==
  /\ phase \in {"read", "triggers"} => job = 0 /\ todo = <<>>
  /\ phase = "jobs" => /\ \A j \in 1..job : doc.jobs[j].on \in TriggerNames
                       /\ \A i \in DOMAIN todo : FromFile(todo[i])
  /\ ValidatedExactly

(* An action of the file that is not valid makes the file ill formed.      *)
LEMMA BadAction ==
  ASSUME Inv, NEW s, FromFile(s), s.do # "if", ~Valid(s.name)
  PROVE  ~WellFormed
<1>1. PICK b \in DOMAIN doc.body : \E raw \in RawSteps(doc, b) : s = Decode(raw)
  BY DEF FromFile
<1>2. PICK raw \in Raw : raw \in RawSteps(doc, b) /\ s = Decode(raw)
  <2>1. doc.body[b] \in Seq(Raw)
    BY DocumentFacts DEF Inv, FlowTypeOK, IsDocument, Maps
  <2> QED  BY <1>1, <2>1 DEF RawSteps
<1>3. ~raw.if /\ s.name = raw.action /\ raw.action \in Seq(Parts)
  BY <1>1, <1>2 DEF Decode, Raw
<1>4. ~Calls(raw.action)  BY <1>3, ValidCalls
<1> QED  BY <1>2, <1>3, <1>4 DEF WellFormed

(* The steps of a decoded block are of the file.                           *)
LEMMA FlowOfFile ==
  ASSUME Inv, phase \in {"triggers", "jobs"}, NEW b \in DOMAIN doc.body
  PROVE  /\ flow[b] \in Seq(Step)
         /\ \A k \in DOMAIN doc.body[b] :
              k \in DOMAIN flow[b] /\ flow[b][k] = Decode(doc.body[b][k])
         /\ \A k \in DOMAIN flow[b] : FromFile(flow[b][k])
<1>1. flow = Decoded(doc) /\ doc \in Documents
  BY DEF Inv, FlowDecoded, FlowTypeOK, Stopped
<1>2. flow[b] = [k \in DOMAIN doc.body[b] |-> Decode(doc.body[b][k])]
  BY <1>1 DEF Decoded
<1>3. flow[b] \in Seq(Step)  BY <1>1, DecodedFacts DEF Maps
<1> QED  BY <1>2, <1>3 DEF FromFile, RawSteps

LEMMA ExactRead == Inv /\ Exact /\ Read => Exact'
<1> SUFFICES ASSUME Inv, Exact, Read PROVE Exact'  OBVIOUS
<1> USE DEF Read, Exact, ValidatedExactly
<1>1. CASE phase' = "triggers"  BY <1>1 DEF Validated
<1>2. CASE phase' = "refused" /\ \E b \in DOMAIN doc.body :
             \E raw \in RawSteps(doc, b) : Undecodable(raw)
  <2>1. PICK b \in DOMAIN doc.body : \E raw \in RawSteps(doc, b) : Undecodable(raw)
    BY <1>2
  <2>2. PICK raw \in Raw : raw \in RawSteps(doc, b) /\ Undecodable(raw)
    <3>1. doc.body[b] \in Seq(Raw)
      BY DocumentFacts DEF Inv, FlowTypeOK, IsDocument, Maps
    <3> QED  BY <2>1, <3>1 DEF RawSteps
  <2>3. ~raw.if /\ raw.action \in Seq(Parts) /\ raw.action = <<"">>
    BY <2>2 DEF Undecodable, Nothing, Raw
  <2>4. ~Valid(raw.action)
    <3>1. Len(<<"">>) < 2  OBVIOUS
    <3> QED  BY <2>3, <3>1 DEF Valid, Path
  <2>5. ~Calls(raw.action)  BY <2>3, <2>4, ValidCalls
  <2>6. ~WellFormed  BY <2>2, <2>3, <2>5 DEF WellFormed
  <2> QED  BY <1>2, <2>6, SameFile DEF Validated
<1> QED  BY <1>1, <1>2

LEMMA ExactCheckTriggers == Inv /\ Exact /\ CheckTriggers => Exact'
<1> SUFFICES ASSUME Inv, Exact, CheckTriggers PROVE Exact'  OBVIOUS
<1> USE DEF CheckTriggers, Exact, ValidatedExactly
<1>1. WellFormed' <=> WellFormed
  BY SameFile
<1>2. CASE phase' = "refused"
  BY <1>1, <1>2 DEF WellFormed, Validated
<1>3. CASE phase' = "jobs"
  BY <1>3 DEF Validated, FromFile
<1> QED  BY <1>2, <1>3

LEMMA ExactCheckJob == Inv /\ Exact /\ CheckJob => Exact'
<1> SUFFICES ASSUME Inv, Exact, CheckJob PROVE Exact'  OBVIOUS
<1> USE DEF CheckJob, Exact, ValidatedExactly
<1>1. WellFormed' <=> WellFormed
  BY SameFile
<1>2. /\ job' \in DOMAIN doc.jobs /\ job' = job + 1 /\ job \in Nat
      /\ doc \in Documents
  BY DocumentFacts DEF Inv, FlowTypeOK, IsDocument
<1>3. CASE doc.jobs[job'].on \notin TriggerNames /\ phase' = "refused"
  <2>1. ~WellFormed  BY <1>2, <1>3 DEF WellFormed
  <2> QED  BY <1>1, <1>3, <2>1 DEF Validated
<1>4. CASE /\ doc.jobs[job'].on \in TriggerNames /\ phase' = phase
           /\ Enter(doc.jobs[job'].do, <<>>)
  <2>1. PICK b \in DOMAIN doc.body : b = doc.jobs[job'].do
    BY <1>2, DocumentFacts DEF JobBlocks
  <2>2. flow[b] \in Seq(Step) /\ \A k \in DOMAIN flow[b] : FromFile(flow[b][k])
    BY <2>1, FlowOfFile
  <2>3. PICK f \in Seq(Step) : f = flow[b]  BY <2>2
  <2>4. todo' = f  BY <1>4, <2>1, <2>3, ConcatEmptySeq DEF Enter
  <2>5. \A i \in DOMAIN todo' : FromFile(todo'[i])  BY <2>2, <2>3, <2>4
  <2>6. \A j \in 1..job' : doc.jobs[j].on \in TriggerNames
    BY <1>2, <1>4
  <2>7. phase' = "jobs" /\ UNCHANGED doc  BY <1>4
  <2> QED  BY <2>5, <2>6, <2>7 DEF Validated, TriggerNames, FromFile
<1> QED  BY <1>3, <1>4

LEMMA ExactCheckStep == Inv /\ Exact /\ CheckStep => Exact'
<1> SUFFICES ASSUME Inv, Exact, CheckStep PROVE Exact'  OBVIOUS
<1> USE DEF CheckStep, Exact, ValidatedExactly
<1>1. WellFormed' <=> WellFormed
  BY SameFile
<1>2. PICK s \in Step, rest \in Seq(Step) :
        s = Head(todo) /\ rest = Tail(todo) /\ Splits(todo, s, rest)
  <2>1. PICK td \in Seq(Step) : td = todo  BY DEF Inv, FlowTypeOK
  <2>2. Head(td) \in Step /\ Tail(td) \in Seq(Step) /\ Splits(td, Head(td), Tail(td))
    BY <2>1, Split
  <2> QED  BY <2>1, <2>2
<1>3. FromFile(s) /\ \A i \in DOMAIN rest : FromFile(rest[i])
  BY <1>2 DEF Splits
<1>4. CASE s.do = "if"
  <2>1. PICK b \in DOMAIN doc.body : b = s.then
    BY <1>2, <1>4 DEF Inv, FlowDecoded, Inside, Splits
  <2>2. flow[b] \in Seq(Step) /\ \A k \in DOMAIN flow[b] : FromFile(flow[b][k])
    BY <2>1, FlowOfFile
  <2>3. PICK f \in Seq(Step) : f = flow[b]  BY <2>2
  <2>4. f \o rest \in Seq(Step) /\ Joins(f \o rest, f, rest)  BY Joined
  <2>5. todo' = f \o rest /\ phase' = "jobs"  BY <1>2, <1>4, <2>1, <2>3 DEF Enter
  <2>6. \A i \in DOMAIN todo' : FromFile(todo'[i])
    BY <1>3, <2>2, <2>3, <2>4, <2>5 DEF Joins
  <2> QED  BY <2>5, <2>6 DEF Validated, TriggerNames, FromFile
<1>5. CASE s.do # "if"
  <2>1. todo' = rest  BY <1>2, <1>5
  <2>2. CASE Valid(s.name)
    <3>1. phase' = "jobs"  BY <1>2, <1>5, <2>2
    <3> QED  BY <1>3, <2>1, <3>1 DEF Validated, TriggerNames, FromFile
  <2>3. CASE ~Valid(s.name)
    <3>1. phase' = "refused"  BY <1>2, <1>5, <2>3
    <3>2. ~WellFormed  BY <1>3, <1>5, <2>3, BadAction
    <3> QED  BY <1>1, <3>1, <3>2 DEF Validated
  <2> QED  BY <2>2, <2>3
<1> QED  BY <1>4, <1>5

(* When nothing is left, the blocks that were seen are reached from the    *)
(* jobs, hence all blocks of the file, and every step of them is right.    *)
LEMMA ExactAccept == Inv /\ Exact /\ Accept => Exact'
<1> SUFFICES ASSUME Inv, Exact, Accept PROVE Exact'  OBVIOUS
<1> USE DEF Accept, Exact, ValidatedExactly
<1>1. WellFormed' <=> WellFormed
  BY SameFile
<1>2. doc \in Documents /\ IsDocument(doc) /\ DOMAIN doc.jobs = 1..Len(doc.jobs)
  BY DocumentFacts DEF Inv, FlowTypeOK, IsDocument
<1>3. seen \subseteq DOMAIN doc.body  BY DEF Inv, FlowDecoded
<1>4. ASSUME NEW b \in seen, NEW k \in DOMAIN doc.body[b]
      PROVE  /\ doc.body[b][k] \in Raw
             /\ doc.body[b][k].if => doc.body[b][k].then \in seen
             /\ ~doc.body[b][k].if => Calls(doc.body[b][k].action)
  <2>1. doc.body[b] \in Seq(Raw)  BY <1>2, <1>3 DEF IsDocument, Maps
  <2>2. PICK raw \in Raw : raw = doc.body[b][k]  BY <2>1
  <2>3. k \in DOMAIN flow[b] /\ flow[b][k] = Decode(raw)
    BY <1>3, <2>2, FlowOfFile
  <2>4. StepOK(Decode(raw))
    BY <2>3 DEF Inv, Checked, Stopped, Pending
  <2> QED  BY <2>2, <2>4, ValidCalls DEF StepOK, Decode, Raw
<1>5. Reached(doc, seen)
  <2>1. JobBlocks(doc) \subseteq seen
    BY <1>2 DEF Inv, Entered, Unvalidated, JobBlocks
  <2>2. \A b \in seen : Then(doc, b) \subseteq seen  BY <1>4 DEF Then, RawSteps
  <2> QED  BY <2>1, <2>2 DEF Reached
<1>6. seen = DOMAIN doc.body  BY <1>2, <1>3, <1>5, FlowAssumption
<1>7. WellFormed
  <2>1. \A n \in DOMAIN doc.triggers : doc.triggers[n].in \in Names
    BY DEF Inv, TriggersNamed
  <2>2. \A j \in DOMAIN doc.jobs : doc.jobs[j].on \in TriggerNames  BY <1>2
  <2>3. \A b \in DOMAIN doc.body : \A raw \in RawSteps(doc, b) : raw.if \/ Calls(raw.action)
    BY <1>4, <1>6 DEF RawSteps
  <2> QED  BY <2>1, <2>2, <2>3 DEF WellFormed
<1> QED  BY <1>1, <1>7 DEF Validated

LEMMA ExactNext == Inv /\ Exact /\ [Next]_vars => Exact'
<1> SUFFICES ASSUME Inv, Exact, [Next]_vars PROVE Exact'  OBVIOUS
<1>1. CASE Read \/ CheckTriggers \/ CheckJob \/ CheckStep \/ Accept
  BY <1>1, ExactRead, ExactCheckTriggers, ExactCheckJob, ExactCheckStep, ExactAccept
<1>2. CASE /\ phase \in Validated /\ phase' \in Validated \cup {"failed", "panicked"}
           /\ UNCHANGED doc
  <2>1. WellFormed' <=> WellFormed
    BY <1>2, SameFile
  <2> QED  BY <1>2, <2>1 DEF Exact, ValidatedExactly, Validated
<1>3. ASSUME \/ Group \/ OpenTickets \/ PrepareTracker \/ OpenSubscriptions \/ RunStep
             \/ \E n \in 1..Len(doc.triggers) : Register(n)
             \/ \E t \in Triggers : HandleUpdate(t)
      PROVE  /\ phase \in Validated /\ phase' \in Validated \cup {"failed", "panicked"}
             /\ UNCHANGED doc
  BY <1>3 DEF Group, OpenTickets, PrepareTracker, OpenSubscriptions, RunStep, Register,
     HandleUpdate, Validated
<1>4. CASE UNCHANGED vars
  BY <1>4, SameFile DEF vars, Exact, ValidatedExactly, TriggerNames, FromFile
<1> QED  BY <1>1, <1>2, <1>3, <1>4 DEF Next

(* What NewStatic has grouped so far.                                      *)
Grouping ==
  /\ phase \in Unvalidated => DOMAIN subs = {}
  /\ phase = "group" => Grouped(job)
  /\ JobsGrouped

LEMMA NoneGrouped == DOMAIN subs = {} => Grouped(0)
<1> SUFFICES ASSUME DOMAIN subs = {}, NEW t \in Triggers
             PROVE  /\ t \in DOMAIN subs <=> Mine(0, t) # {}
                    /\ \E at \in [DOMAIN JobsOn(subs, t) -> Mine(0, t)] :
                         /\ Lists(at, Mine(0, t))
                         /\ \A k \in DOMAIN at : subs[t][k] = doc.jobs[at[k]].do
  BY DEF Grouped
<1>1. Mine(0, t) = {}  BY DEF Mine
<1>2. JobsOn(subs, t) = <<>> /\ DOMAIN <<>> = {}  BY DEF JobsOn
<1>3. [k \in {} |-> 0] \in [DOMAIN JobsOn(subs, t) -> Mine(0, t)]  BY <1>1, <1>2
<1>4. Lists([k \in {} |-> 0], Mine(0, t))  BY <1>1 DEF Lists
<1> QED  BY <1>1, <1>3, <1>4

LEMMA SameGroups ==
  ASSUME UNCHANGED <<doc, subs, job>>
  PROVE  /\ Grouped(job) => Grouped(job)'
         /\ Grouped(Len(doc.jobs)) => Grouped(Len(doc.jobs))'
<1>1. \A t : JobsOn(subs, t)' = JobsOn(subs, t)  BY DEF JobsOn
<1>2. ASSUME Grouped(job) PROVE Grouped(job)'
  <2>1. \A t : Mine(job, t)' = Mine(job, t)  BY DEF Mine
  <2> QED  BY <1>1, <1>2, <2>1 DEF Grouped
<1>3. ASSUME Grouped(Len(doc.jobs)) PROVE Grouped(Len(doc.jobs))'
  <2>1. \A t : Mine(Len(doc.jobs), t)' = Mine(Len(doc.jobs), t)  BY DEF Mine
  <2> QED  BY <1>1, <1>3, <2>1 DEF Grouped
<1> QED  BY <1>2, <1>3

(* The next job is appended to those of its trigger, and its index to the  *)
(* list of theirs.                                                         *)
LEMMA GroupNext == Inv /\ Grouped(job) /\ Group => Grouped(job)'
<1> SUFFICES ASSUME Inv, Grouped(job), Group, NEW t \in Triggers
             PROVE  /\ t \in DOMAIN subs' <=> Mine(job, t)' # {}
                    /\ \E at \in [DOMAIN JobsOn(subs, t)' -> Mine(job, t)'] :
                         /\ Lists(at, Mine(job, t)')
                         /\ \A k \in DOMAIN at : subs'[t][k] = doc.jobs[at[k]].do
  BY DEF Grouped, Lists, Group
<1> USE DEF Group
<1>1. /\ job \in Nat /\ job' = job + 1 /\ job' \in DOMAIN doc.jobs
      /\ doc.jobs \in Seq(Job)
  BY DocumentFacts DEF Inv, FlowTypeOK, IsDocument
<1>2. PICK j \in Job : j = doc.jobs[job']
  BY <1>1, ElementOfSeq
<1>3. /\ DOMAIN subs' = DOMAIN subs \cup {j.on}
      /\ \A u \in DOMAIN subs' :
           subs'[u] = IF u = j.on THEN Append(JobsOn(subs, j.on), j.do) ELSE subs[u]
  BY <1>2 DEF Subscribe
<1>4. Mine(job, t)' = Mine(job, t) \cup (IF t = j.on THEN {job'} ELSE {})
  BY <1>1, <1>2 DEF Mine
<1>5. Mine(job, t) \subseteq 1..job  BY DEF Mine
<1>6. PICK at \in [DOMAIN JobsOn(subs, t) -> Mine(job, t)] :
        /\ Lists(at, Mine(job, t))
        /\ \A k \in DOMAIN at : subs[t][k] = doc.jobs[at[k]].do
  BY DEF Grouped
<1>7. t \in DOMAIN subs <=> Mine(job, t) # {}  BY DEF Grouped
<1>8. CASE t # j.on
  <2>1. JobsOn(subs, t)' = JobsOn(subs, t) /\ Mine(job, t)' = Mine(job, t)
    BY <1>3, <1>4, <1>8 DEF JobsOn
  <2>2. \A k \in DOMAIN at : subs'[t][k] = subs[t][k]
    <3>1. t \notin DOMAIN subs => DOMAIN at = {}  BY <1>6, <1>7 DEF Lists
    <3> QED  BY <1>3, <1>8, <3>1
  <2>3. at \in [DOMAIN JobsOn(subs, t)' -> Mine(job, t)'] /\ Lists(at, Mine(job, t)')
    BY <1>6, <2>1
  <2>4. t \in DOMAIN subs' <=> t \in DOMAIN subs  BY <1>3, <1>8
  <2> QED  BY <1>6, <1>7, <2>1, <2>2, <2>3, <2>4
<1>9. CASE t = j.on
  <2>1. PICK q \in Seq(Blocks) : q = JobsOn(subs, t)
    BY DEF JobsOn, Inv, FlowTypeOK, Maps
  <2>2. PICK n \in Nat : n = Len(q)  BY <2>1
  <2>3. subs'[t] = Append(q, j.do) /\ JobsOn(subs, t)' = Append(q, j.do)
    BY <1>3, <1>9, <2>1 DEF JobsOn
  <2>4. /\ DOMAIN JobsOn(subs, t)' = 1..(n + 1)
        /\ \A k \in 1..n : subs'[t][k] = q[k]
        /\ subs'[t][n + 1] = j.do
    BY <1>2, <2>1, <2>2, <2>3 DEF Job
  <2>5. DOMAIN at = 1..n  BY <1>6, <2>1, <2>2
  <2> DEFINE to == [k \in 1..(n + 1) |-> IF k = n + 1 THEN job' ELSE at[k]]
  <2>6. to \in [DOMAIN JobsOn(subs, t)' -> Mine(job, t)']
    BY <1>4, <1>6, <1>9, <2>2, <2>4, <2>5
  <2>7. Lists(to, Mine(job, t)')
    <3>1. \A k, m \in 1..n : k < m => at[k] < at[m]  BY <1>6, <2>5 DEF Lists
    <3>2. \A k \in 1..n : at[k] \in 1..job  BY <1>5, <1>6, <2>5
    <3>3. \A k, m \in DOMAIN to : k < m => to[k] < to[m]
      <4> SUFFICES ASSUME NEW k \in 1..(n + 1), NEW m \in 1..(n + 1), k < m
                   PROVE  to[k] < to[m]
        OBVIOUS
      <4>1. k \in 1..n /\ to[k] = at[k]  BY <2>2
      <4>2. CASE m = n + 1  BY <1>1, <3>2, <4>1, <4>2
      <4>3. CASE m # n + 1
        <5>1. m \in 1..n /\ to[m] = at[m]  BY <2>2, <4>3
        <5> QED  BY <3>1, <4>1, <5>1
      <4> QED  BY <4>2, <4>3
    <3>4. Mine(job, t) = {at[k] : k \in 1..n}  BY <1>6, <2>5 DEF Lists
    <3>5. {to[k] : k \in 1..(n + 1)} = {at[k] : k \in 1..n} \cup {job'}
      <4>1. \A k \in 1..n : to[k] = at[k]  BY <2>2
      <4>2. to[n + 1] = job'  BY <2>2
      <4>3. 1..(n + 1) = 1..n \cup {n + 1}  BY <2>2
      <4> HIDE DEF to
      <4> QED  BY <4>1, <4>2, <4>3
    <3>6. DOMAIN to = 1..(n + 1)  OBVIOUS
    <3> HIDE DEF to
    <3> QED  BY <1>4, <1>9, <3>3, <3>4, <3>5, <3>6 DEF Lists
  <2>8. \A k \in DOMAIN to : subs'[t][k] = doc.jobs[to[k]].do
    <3> SUFFICES ASSUME NEW k \in 1..(n + 1)
                 PROVE  subs'[t][k] = doc.jobs[to[k]].do
      OBVIOUS
    <3>1. CASE k = n + 1  BY <1>2, <2>4, <3>1
    <3>2. CASE k # n + 1
      <4>1. k \in 1..n  BY <2>2, <3>2
      <4>2. t \in DOMAIN subs /\ q = subs[t]
        <5>1. q # <<>>  BY <2>1, <2>2, <4>1
        <5> QED  BY <5>1, <2>1 DEF JobsOn
      <4>3. subs[t][k] = doc.jobs[at[k]].do  BY <1>6, <2>5, <4>1
      <4> QED  BY <2>4, <3>2, <4>1, <4>2, <4>3
    <3> QED  BY <3>1, <3>2
  <2>9. t \in DOMAIN subs' /\ Mine(job, t)' # {}  BY <1>3, <1>4, <1>9
  <2> HIDE DEF to
  <2> QED  BY <2>6, <2>7, <2>8, <2>9
<1> QED  BY <1>8, <1>9

LEMMA GroupingNext == Inv /\ Grouping /\ [Next]_vars => Grouping'
<1> SUFFICES ASSUME Inv, Grouping, [Next]_vars PROVE Grouping'  OBVIOUS
<1>1. CASE Read \/ CheckTriggers \/ CheckJob \/ CheckStep
  <2>1. /\ phase \in Unvalidated /\ phase' \in Unvalidated \cup {"refused"}
        /\ subs' = subs
    BY <1>1 DEF Read, CheckTriggers, CheckJob, CheckStep, Unvalidated
  <2> QED  BY <2>1 DEF Grouping, JobsGrouped, Unvalidated
<1>2. CASE Accept
  <2>1. DOMAIN subs' = {} /\ job' = 0 /\ phase' = "group"
    BY <1>2 DEF Accept, Grouping, Unvalidated
  <2>2. Grouped(0)'
    <3>1. Grouped(0)  BY <1>2, NoneGrouped DEF Accept, Grouping, Unvalidated
    <3>2. \A t : Mine(0, t)' = Mine(0, t)  BY <1>2 DEF Accept, Mine
    <3>3. \A t : JobsOn(subs, t)' = JobsOn(subs, t)  BY <1>2 DEF Accept, JobsOn
    <3> QED  BY <1>2, <3>1, <3>2, <3>3 DEF Accept, Grouped
  <2>3. Grouped(job)'  BY <2>1, <2>2 DEF Grouped, Mine
  <2> QED  BY <2>1, <2>3 DEF Grouping, JobsGrouped, Unvalidated
<1>3. CASE Group
  <2>1. phase' = "group" /\ Grouped(job)'  BY <1>3, GroupNext DEF Group, Grouping
  <2> QED  BY <2>1 DEF Grouping, JobsGrouped, Unvalidated
<1>4. CASE OpenTickets
  <2>1. Grouped(Len(doc.jobs))  BY <1>4 DEF OpenTickets, Grouping
  <2>2. Grouped(Len(doc.jobs))' /\ phase' \in {"trackers", "failed"}
    BY <1>4, <2>1, SameGroups DEF OpenTickets
  <2> QED  BY <2>2 DEF Grouping, JobsGrouped, Unvalidated
<1>5. CASE /\ phase \in {"trackers", "running"}
           /\ phase' \in {"trackers", "running", "failed", "panicked"}
           /\ UNCHANGED <<doc, subs, job>>
  <2>1. Grouped(Len(doc.jobs))  BY <1>5 DEF Grouping, JobsGrouped
  <2>2. Grouped(Len(doc.jobs))'  BY <1>5, <2>1, SameGroups
  <2> QED  BY <1>5, <2>2 DEF Grouping, JobsGrouped, Unvalidated
<1>6. ASSUME \/ PrepareTracker \/ OpenSubscriptions \/ RunStep
             \/ \E n \in 1..Len(doc.triggers) : Register(n)
             \/ \E t \in Triggers : HandleUpdate(t)
      PROVE  /\ phase \in {"trackers", "running"}
             /\ phase' \in {"trackers", "running", "failed", "panicked"}
             /\ UNCHANGED <<doc, subs, job>>
  BY <1>6 DEF PrepareTracker, OpenSubscriptions, RunStep, Register, HandleUpdate
<1>7. CASE UNCHANGED vars
  BY <1>7, SameGroups DEF vars, Grouping, JobsGrouped
<1> QED  BY <1>1, <1>2, <1>3, <1>4, <1>5, <1>6, <1>7 DEF Next
-----------------------------------------------------------------------------
(* The invariant holds of every file and of every way the start may go.    *)
THEOREM FlowAlwaysInv == Spec => []Inv
<1>1. Init => Inv  BY InitInv
<1>2. Inv /\ [Next]_vars => Inv'  BY NextInv
<1> QED  BY <1>1, <1>2, PTL DEF Spec

(* Types (FlowTypeOK): no tracker is made for a driver the program does    *)
(* not know (run.go:131-151).                                              *)
THEOREM FlowTyping == Spec => []FlowTypeOK
<1>1. Inv => FlowTypeOK  BY DEF Inv
<1> QED  BY <1>1, FlowAlwaysInv, PTL

(* Whatever the file, a program that has started calls no tracker that is  *)
(* not there (actor.go:137, 268): validation (static.go:72-123) covers     *)
(* every step a job can come to.                                           *)
THEOREM NeverPanics == Spec => []NoPanic
<1>1. Inv => NoPanic  BY DEF Inv
<1> QED  BY <1>1, FlowAlwaysInv, PTL

(* A file is refused exactly when something is wrong anywhere in it        *)
(* (static.go:72-123): the walk leaves no sequence out, and stops for      *)
(* nothing that is right.                                                  *)
THEOREM ExactlyValidated == Spec => []ValidatedExactly
<1>1. Init => Exact
  BY DEF Init, Exact, ValidatedExactly, Validated, FromFile
<1>2. Inv /\ Exact /\ [Next]_vars => Exact'  BY ExactNext
<1>3. Exact => ValidatedExactly  BY DEF Exact
<1> QED  BY <1>1, <1>2, <1>3, FlowAlwaysInv, PTL DEF Spec

(* Every job is found under its trigger, once and in the order of the file *)
(* (static.go:45-47): a job never takes the place of an earlier one.       *)
THEOREM JobsAreGrouped == Spec => []JobsGrouped
<1>1. Init => Grouping
  BY DEF Init, Grouping, JobsGrouped, Unvalidated
<1>2. Inv /\ Grouping /\ [Next]_vars => Grouping'  BY GroupingNext
<1>3. Grouping => JobsGrouped  BY DEF Grouping
<1> QED  BY <1>1, <1>2, <1>3, FlowAlwaysInv, PTL DEF Spec
=============================================================================
