---------------------------- MODULE RoutingProofs ----------------------------
(***************************************************************************)
(* Proofs about Routing, and about Health, which says what is in service.  *)
(*                                                                         *)
(* Health: its types, that a second scheduling loop runs only where two    *)
(* ensure_running tasks have met, and that a step takes one back end out   *)
(* of service or brings one back, which is what Routing's action Polling   *)
(* takes for granted.                                                      *)
(*                                                                         *)
(* Routing: what its operators give (ByLimit, Resolve, Place) for all      *)
(* tables, rule sets and prompts, its types, and its four properties.      *)
(* TriedInv and SaveInv are the inductive invariants of the last two.      *)
(***************************************************************************)
EXTENDS Routing, Health, FiniteSetTheorems, SequenceTheorems, TLAPS

(***************************************************************************)
(*                                 Health                                  *)
(***************************************************************************)

-----------------------------------------------------------------------------
(* Types *)

Steps == {"none", "collect", "list", "pick", "probe", "recheck", "record", "exit"}

\* The frame of a scheduling loop
Frame == [step : Steps, todo : SUBSET Backends, id : Backends \cup {None},
          limits : Thresholds, ok : BOOLEAN]

Starting == {"none", "check", "look", "spawn", "store"}

\* A frame that probes, or has, knows which back end
ProbeOK(f) == f.step \in {"probe", "recheck", "record"} => f.id \in Backends

LoopTypes == loop \in [Loops -> Frame] /\ \A l \in Loops : ProbeOK(loop[l])

StartTypes == starter \in [Starters -> Starting] /\ handle \in BOOLEAN /\ crowded \in BOOLEAN

TableTypes ==
    /\ stored \in SUBSET Backends
    /\ configs \in [Backends -> PollConfig \cup {NoConfig}]
    /\ states \in [Backends -> ProviderState]
    /\ put \in [Puts -> [step : {"none", "set", "clear"}, id : Backends \cup {None}]]
    /\ \A p \in Puts : put[p].step # "none" => put[p].id \in Backends
    /\ erase \in [Backends -> {"none", "state", "config"}]
    /\ up \in [Backends -> BOOLEAN]

LEMMA TypeParts ==
    /\ TypeOK <=> LoopTypes /\ StartTypes /\ TableTypes
    /\ TypeOK' <=> LoopTypes' /\ StartTypes' /\ TableTypes'
BY DEF TypeOK, LoopTypes, StartTypes, TableTypes, Frame, Steps, Starting, ProbeOK

LEMMA FrameTyped ==
    ASSUME NEW f \in Frame
    PROVE  /\ \A x \in Steps : [f EXCEPT !.step = x] \in Frame
           /\ \A x \in SUBSET Backends : [f EXCEPT !.todo = x] \in Frame
           /\ \A x \in Backends \cup {None} : [f EXCEPT !.id = x] \in Frame
           /\ \A x \in Thresholds : [f EXCEPT !.limits = x] \in Frame
           /\ \A x \in BOOLEAN : [f EXCEPT !.ok = x] \in Frame
<1>1. \A x \in Steps : [f EXCEPT !.step = x] \in Frame
  BY DEF Frame
<1>2. \A x \in SUBSET Backends : [f EXCEPT !.todo = x] \in Frame
  BY DEF Frame
<1>3. \A x \in Backends \cup {None} : [f EXCEPT !.id = x] \in Frame
  BY DEF Frame
<1>4. \A x \in Thresholds : [f EXCEPT !.limits = x] \in Frame
  BY DEF Frame
<1>5. \A x \in BOOLEAN : [f EXCEPT !.ok = x] \in Frame
  BY DEF Frame
<1> QED
  BY <1>1, <1>2, <1>3, <1>4, <1>5

\* The step of a frame after an assignment to one field
LEMMA FrameSteps ==
    ASSUME NEW f \in Frame
    PROVE  /\ f.step \in Steps
           /\ \A x : [f EXCEPT !.step = x].step = x
           /\ \A x : [f EXCEPT !.todo = x].step = f.step
           /\ \A x : [f EXCEPT !.id = x].step = f.step
           /\ \A x : [f EXCEPT !.limits = x].step = f.step
           /\ \A x : [f EXCEPT !.ok = x].step = f.step
BY DEF Frame

LEMMA FrameId ==
    ASSUME NEW f \in Frame
    PROVE  /\ \A x : [f EXCEPT !.step = x].id = f.id
           /\ \A x : [f EXCEPT !.todo = x].id = f.id
           /\ \A x : [f EXCEPT !.id = x].id = x
           /\ \A x : [f EXCEPT !.limits = x].id = f.id
           /\ \A x : [f EXCEPT !.ok = x].id = f.id
BY DEF Frame

\* The configuration of a back end has thresholds
LEMMA ConfigTyped ==
    ASSUME TypeOK, NEW b \in Backends PROVE Config(b).limits \in Thresholds
<1>1. configs[b] \in PollConfig \cup {NoConfig}
  BY DEF TypeOK
<1> QED
  BY <1>1, HealthConstants DEF Config, PollConfig

\* What the level of a back end becomes
LEMMA ObserveTyped ==
    ASSUME NEW s \in ProviderState, NEW ok \in BOOLEAN, NEW limits \in Thresholds
    PROVE  Observe(s, ok, limits) \in ProviderState
<1> DEFINE n == IF ok THEN 0 ELSE IF s.failures < MaxFailures THEN s.failures + 1 ELSE MaxFailures
<1>1. s.failures \in 0..MaxFailures
  BY DEF ProviderState
<1>2. n \in 0..MaxFailures
  BY <1>1, HealthConstants
<1>3. limits.remove \in Nat /\ limits.fail \in Nat
  BY HealthConstants
<1> HIDE DEF n
<1>4. Level(n, limits) \in Levels
  BY <1>2, <1>3, HealthConstants DEF Level, Levels
<1>5. Observe(s, ok, limits) = [level |-> IF ok THEN "ok" ELSE Level(n, limits), failures |-> n]
  BY DEF Observe, n
<1> QED
  BY <1>2, <1>4, <1>5 DEF ProviderState, Levels

LEMMA IdleTyped == Idle \in Frame /\ Idle.step = "none"
BY HealthConstants DEF Idle, Frame, Steps

LEMMA InitTyped == Init => TypeOK
<1> SUFFICES ASSUME Init PROVE TypeOK
  OBVIOUS
<1>1. LoopTypes
  BY IdleTyped DEF Init, LoopTypes, ProbeOK
<1>2. StartTypes
  BY DEF Init, StartTypes, Starting
<1>3. Untested \in ProviderState
  BY HealthConstants DEF Untested, ProviderState
<1>4. TableTypes
  BY <1>3 DEF Init, TableTypes
<1> QED
  BY <1>1, <1>2, <1>4, TypeParts

-----------------------------------------------------------------------------
(* A step of a loop moves one frame, which is not idle *)

Moves(l) ==
    /\ loop[l].step # "none"
    /\ \E k \in Frame : ProbeOK(k) /\ loop' = [loop EXCEPT ![l] = k]

LEMMA PlaceMoves ==
    ASSUME TypeOK, NEW l \in Loops, loop[l].step # "none", NEW p \in Steps,
           NEW t \in SUBSET Backends, p \notin {"probe", "recheck", "record"},
           loop' = [loop EXCEPT ![l].step = p, ![l].todo = t]
    PROVE  Moves(l)
<1> DEFINE k1 == [loop[l] EXCEPT !.step = p]
           k == [k1 EXCEPT !.todo = t]
<1>1. loop[l] \in Frame
  BY TypeParts DEF LoopTypes
<1>2. k1 \in Frame
  BY <1>1, FrameTyped
<1>3. loop' = [loop EXCEPT ![l] = k]
  BY TypeParts DEF LoopTypes
<1> HIDE DEF k1
<1>4. k \in Frame /\ k.step = k1.step
  BY <1>2, FrameTyped, FrameSteps
<1>5. k1.step = p
  BY <1>1, FrameSteps DEF k1
<1> QED
  BY <1>3, <1>4, <1>5 DEF Moves, ProbeOK

LEMMA StepMoves ==
    ASSUME TypeOK, NEW l \in Loops, loop[l].step # "none", NEW p \in Steps,
           p \in {"probe", "recheck", "record"} => loop[l].id \in Backends,
           loop' = [loop EXCEPT ![l].step = p]
    PROVE  Moves(l)
<1>1. loop[l] \in Frame
  BY TypeParts DEF LoopTypes
<1>2. [loop[l] EXCEPT !.step = p] \in Frame /\ ProbeOK([loop[l] EXCEPT !.step = p])
  BY <1>1, FrameTyped, FrameSteps, FrameId DEF ProbeOK
<1>3. loop' = [loop EXCEPT ![l] = [loop[l] EXCEPT !.step = p]]
  BY TypeParts DEF LoopTypes
<1> QED
  BY <1>2, <1>3 DEF Moves

\* Resume: the frame without its probe
LEMMA ResumeTyped ==
    ASSUME NEW f \in Frame, NEW p \in Steps PROVE Resume(f, p) \in Frame /\ Resume(f, p).step = p
<1> DEFINE k1 == [f EXCEPT !.step = p]
           k2 == [k1 EXCEPT !.id = None]
           k3 == [k2 EXCEPT !.limits = Default]
           k4 == [k3 EXCEPT !.ok = TRUE]
<1>1. Resume(f, p) = k4 /\ k4.step = p
  BY DEF Resume, Frame
<1>2. k1 \in Frame
  BY FrameTyped
<1> HIDE DEF k1
<1>3. k2 \in Frame
  BY <1>2, FrameTyped
<1> HIDE DEF k2
<1>4. k3 \in Frame
  BY <1>3, FrameTyped, HealthConstants
<1> HIDE DEF k3
<1>5. k4 \in Frame
  BY <1>4, FrameTyped
<1> QED
  BY <1>1, <1>5

LEMMA CollectMoves == ASSUME TypeOK, NEW l \in Loops, Collect(l) PROVE Moves(l)
<1>1. Enabled \in SUBSET Backends /\ "exit" \in Steps /\ "list" \in Steps
  BY DEF Enabled, TypeOK, Steps
<1>2. PICK p \in {"exit", "list"} : loop' = [loop EXCEPT ![l].step = p, ![l].todo = Enabled]
  BY DEF Collect
<1> QED
  BY <1>1, <1>2, PlaceMoves DEF Collect

LEMMA ListMoves == ASSUME TypeOK, NEW l \in Loops, ListEntries(l) PROVE Moves(l)
<1>1. loop[l].todo \cap stored \in SUBSET Backends /\ "pick" \in Steps
  BY DEF TypeOK, Steps
<1>2. loop' = [loop EXCEPT ![l].step = "pick", ![l].todo = loop[l].todo \cap stored]
  BY DEF ListEntries, TypeOK
<1> QED
  BY <1>1, <1>2, PlaceMoves DEF ListEntries

LEMMA NotDueMoves == ASSUME TypeOK, NEW l \in Loops, NotDue(l) PROVE Moves(l)
<1>1. loop[l] \in Frame /\ loop[l].todo \in SUBSET Backends
  BY TypeParts DEF LoopTypes, Frame
<1>2. PICK b \in loop[l].todo : loop' = [loop EXCEPT ![l].todo = loop[l].todo \ {b}]
  BY DEF NotDue, TypeOK
<1>3. /\ [loop[l] EXCEPT !.todo = loop[l].todo \ {b}] \in Frame
      /\ [loop[l] EXCEPT !.todo = loop[l].todo \ {b}].step = "pick"
  BY <1>1, FrameTyped, FrameSteps DEF NotDue
<1>4. loop' = [loop EXCEPT ![l] = [loop[l] EXCEPT !.todo = loop[l].todo \ {b}]]
  BY <1>2, TypeParts DEF LoopTypes
<1> QED
  BY <1>3, <1>4 DEF Moves, NotDue, ProbeOK

LEMMA ProbeMoves ==
    ASSUME TypeOK, NEW l \in Loops, NEW b \in Backends, Probe(l, b) PROVE Moves(l)
<1> DEFINE t == loop[l].todo \ {b}
           c == Config(b).limits
           k1 == [loop[l] EXCEPT !.step = "probe"]
           k2 == [k1 EXCEPT !.id = b]
           k3 == [k2 EXCEPT !.limits = c]
           k4 == [k3 EXCEPT !.todo = t]
<1>1. loop[l] \in Frame /\ t \in SUBSET Backends /\ c \in Thresholds /\ "probe" \in Steps
  BY ConfigTyped, TypeParts DEF LoopTypes, Frame, Steps
<1>2. loop' = [loop EXCEPT ![l] = k4]
  BY TypeParts DEF Probe, LoopTypes
<1>7. k4.id = b
  BY <1>1 DEF Frame
<1> HIDE DEF t, c
<1>3. k1 \in Frame
  BY <1>1, FrameTyped
<1> HIDE DEF k1
<1>4. k2 \in Frame
  BY <1>3, FrameTyped
<1> HIDE DEF k2
<1>5. k3 \in Frame
  BY <1>1, <1>4, FrameTyped
<1> HIDE DEF k3
<1>6. k4 \in Frame
  BY <1>1, <1>5, FrameTyped
<1> QED
  BY <1>2, <1>6, <1>7 DEF Moves, Probe, ProbeOK

LEMMA AnswerMoves == ASSUME TypeOK, NEW l \in Loops, Answer(l) PROVE Moves(l)
<1> DEFINE a == up[loop[l].id]
           k1 == [loop[l] EXCEPT !.step = "recheck"]
           k2 == [k1 EXCEPT !.ok = a]
<1>1. loop[l] \in Frame /\ "recheck" \in Steps /\ loop[l].id \in Backends
  BY TypeParts DEF LoopTypes, Steps, ProbeOK, Answer, Outcome
<1>2. a \in BOOLEAN
  BY <1>1 DEF TypeOK
<1>3. loop' = [loop EXCEPT ![l] = k2]
  BY TypeParts DEF Answer, Outcome, LoopTypes
<1> HIDE DEF a
<1>4. k1 \in Frame /\ k1.id = loop[l].id
  BY <1>1, FrameTyped, FrameId
<1> HIDE DEF k1
<1>5. k2 \in Frame /\ k2.id = loop[l].id
  BY <1>2, <1>4, FrameTyped, FrameId
<1> HIDE DEF k2
<1> QED
  BY <1>1, <1>3, <1>5 DEF Moves, Answer, Outcome, ProbeOK

LEMMA RecheckMoves == ASSUME TypeOK, NEW l \in Loops, Recheck(l) PROVE Moves(l)
<1> DEFINE k == [loop[l] EXCEPT !.step = "record"]
           r == Resume(loop[l], "pick")
<1>1. /\ loop[l] \in Frame /\ "record" \in Steps /\ "pick" \in Steps
      /\ loop[l].id \in Backends /\ loop[l].step # "none"
  BY TypeParts DEF LoopTypes, Steps, ProbeOK, Recheck
<1>2. k \in Frame /\ k.id = loop[l].id /\ r \in Frame /\ r.step = "pick"
  BY <1>1, FrameTyped, FrameId, ResumeTyped
<1>3. loop' = [loop EXCEPT ![l] = k] \/ loop' = [loop EXCEPT ![l] = r]
  BY DEF Recheck
<1> HIDE DEF k, r
<1> QED
  BY <1>1, <1>2, <1>3 DEF Moves, ProbeOK

LEMMA RecordMoves ==
    ASSUME TypeOK, NEW l \in Loops, Record(l)
    PROVE  Moves(l) /\ states' \in [Backends -> ProviderState]
<1>1. /\ loop[l] \in Frame /\ loop[l].id \in Backends /\ loop[l].ok \in BOOLEAN
      /\ loop[l].limits \in Thresholds /\ "pick" \in Steps /\ loop[l].step # "none"
  BY TypeParts DEF LoopTypes, Frame, Steps, ProbeOK, Record
<1>2. Resume(loop[l], "pick") \in Frame /\ Resume(loop[l], "pick").step = "pick"
  BY <1>1, ResumeTyped
<1>3. loop' = [loop EXCEPT ![l] = Resume(loop[l], "pick")]
  BY DEF Record, TypeOK
<1>4. states[loop[l].id] \in ProviderState
  BY <1>1 DEF TypeOK
<1>5. Observe(states[loop[l].id], loop[l].ok, loop[l].limits) \in ProviderState
  BY <1>1, <1>4, ObserveTyped
<1>6. states' \in [Backends -> ProviderState]
  BY <1>5 DEF Record, TypeOK
<1> QED
  BY <1>1, <1>2, <1>3, <1>6 DEF Moves, ProbeOK

LEMMA SleepMoves == ASSUME TypeOK, NEW l \in Loops, Sleep(l) PROVE Moves(l)
BY StepMoves DEF Sleep, Steps

-----------------------------------------------------------------------------
(* One loop, unless two ensure_running have met *)

\* One task at most is between its look at the handle and the storing of its own,
\* nobody is about to spawn beside a loop, and a loop is known: by its handle, or to
\* the task that is about to store it
LoopOK ==
    /\ \A k, l \in Loops : Alive(k) /\ Alive(l) => k = l
    /\ \A r, s \in Starters : Launching(r) /\ Launching(s) => r = s
    /\ \A s \in Starters : starter[s] \in {"look", "spawn"} => \A l \in Loops : ~Alive(l)
    /\ (\E l \in Loops : Alive(l)) => handle = TRUE \/ \E s \in Starters : starter[s] = "store"

IInv == TypeOK /\ (crowded = FALSE => LoopOK)

LEMMA InitInv == Init => IInv
<1> SUFFICES ASSUME Init PROVE IInv
  OBVIOUS
<1>1. \A l \in Loops : ~Alive(l)
  BY IdleTyped DEF Init, Alive
<1>2. \A s \in Starters : ~Launching(s)
  BY DEF Init, Launching
<1> QED
  BY <1>1, <1>2, InitTyped DEF IInv, LoopOK, Launching

\* The loops, the starters and the handle stay
LEMMA LoopFrame ==
    ASSUME IInv, TypeOK', UNCHANGED <<loop, starter, handle, crowded>> PROVE IInv'
BY DEF IInv, LoopOK, Launching, Alive

LEMMA MovesInv ==
    ASSUME IInv, NEW l \in Loops, Moves(l), states' \in [Backends -> ProviderState],
           UNCHANGED Local
    PROVE  IInv'
<1>1. PICK k \in Frame : ProbeOK(k) /\ loop' = [loop EXCEPT ![l] = k]
  BY DEF Moves
<1>2. LoopTypes'
  <2>1. loop \in [Loops -> Frame] /\ \A x \in Loops : ProbeOK(loop[x])
    BY TypeParts DEF IInv, LoopTypes
  <2>2. loop' \in [Loops -> Frame]
    BY <1>1, <2>1
  <2>3. \A x \in Loops : loop'[x] = IF x = l THEN k ELSE loop[x]
    BY <1>1, <2>1
  <2> QED
    BY <1>1, <2>1, <2>2, <2>3 DEF LoopTypes, ProbeOK
<1>3. StartTypes' /\ TableTypes'
  BY TypeParts DEF IInv, StartTypes, TableTypes, Local
<1>4. TypeOK'
  BY <1>2, <1>3, TypeParts
<1>5. \A x \in Loops : Alive(x)' => Alive(x)
  BY <1>1, TypeParts DEF IInv, LoopTypes, Alive, Moves
<1>6. UNCHANGED <<starter, handle, crowded>>
  BY DEF Local
<1>7. ASSUME crowded' = FALSE PROVE LoopOK'
  <2>1. LoopOK
    BY <1>6, <1>7 DEF IInv
  <2> QED
    BY <1>5, <1>6, <2>1 DEF LoopOK, Launching
<1> QED
  BY <1>4, <1>7 DEF IInv

LEMMA RunInv == ASSUME IInv, NEW l \in Loops, Run(l), ~Exit(l) PROVE IInv'
<1>1. TypeOK
  BY DEF IInv
<1>2. CASE Record(l)
  BY <1>1, <1>2, RecordMoves, MovesInv DEF Record
<1>3. CASE ~Record(l)
  <2>1. Moves(l)
    <3>1. ASSUME NEW b \in Backends, Probe(l, b) PROVE Moves(l)
      BY <1>1, <3>1, ProbeMoves
    <3> QED
      BY <1>1, <1>3, <3>1, CollectMoves, ListMoves, NotDueMoves, AnswerMoves, RecheckMoves,
         SleepMoves DEF Run
  <2>2. UNCHANGED <<states, Local>>
    BY <1>3 DEF Run, Collect, ListEntries, NotDue, Probe, Answer, Recheck, Sleep
  <2> QED
    BY <1>1, <2>1, <2>2, MovesInv DEF TypeOK
<1> QED
  BY <1>2, <1>3

\* The loop that ends is the only one
LEMMA ExitInv == ASSUME IInv, NEW l \in Loops, Exit(l) PROVE IInv'
<1>1. loop \in [Loops -> Frame] /\ \A x \in Loops : ProbeOK(loop[x])
  BY TypeParts DEF IInv, LoopTypes
<1>2. loop' = [loop EXCEPT ![l] = Idle] /\ handle' = FALSE
      /\ UNCHANGED <<stored, configs, states, starter, put, erase, up, crowded>> /\ Alive(l)
  BY DEF Exit, Alive
<1>3. LoopTypes'
  <2>1. \A x \in Loops : loop'[x] = IF x = l THEN Idle ELSE loop[x]
    BY <1>1, <1>2
  <2>2. loop' \in [Loops -> Frame]
    BY <1>1, <1>2, IdleTyped
  <2> QED
    BY <1>1, <2>1, <2>2, IdleTyped DEF LoopTypes, ProbeOK
<1>4. StartTypes' /\ TableTypes'
  BY <1>2, TypeParts DEF IInv, StartTypes, TableTypes
<1>5. ~Alive(l)' /\ \A x \in Loops : Alive(x)' => Alive(x)
  BY <1>1, <1>2, IdleTyped DEF Alive
<1>6. ASSUME crowded' = FALSE PROVE LoopOK'
  <2>1. LoopOK
    BY <1>2, <1>6 DEF IInv
  <2>2. \A x \in Loops : ~Alive(x)'
    BY <1>2, <1>5, <2>1 DEF LoopOK
  <2> QED
    BY <1>2, <2>1, <2>2 DEF LoopOK, Launching
<1> QED
  BY <1>3, <1>4, <1>6, TypeParts DEF IInv

\* A starter goes on
LEMMA StartTyped ==
    ASSUME TypeOK, NEW s \in Starters, NEW p, NEW q \in Starting, Start(s, p, q)
    PROVE  /\ starter' \in [Starters -> Starting]
           /\ starter[s] = p /\ starter'[s] = q
           /\ \A r \in Starters : r # s => starter'[r] = starter[r]
BY TypeParts DEF Start, StartTypes

\* A task that comes while there is no handle meets no other, and no loop that is
\* known to nobody; or the loops are marked as crowded
LEMMA CheckInv == ASSUME IInv, NEW s \in Starters, CheckHandle(s) PROVE IInv'
<1>1. PICK q \in {"none", "look"} :
        /\ Start(s, "check", q) /\ (q = "look" <=> handle # TRUE)
        /\ crowded' = IF handle = TRUE THEN crowded ELSE Crowded
  BY DEF CheckHandle, IInv, TypeOK
<1>2. UNCHANGED <<stored, configs, states, handle, loop, put, erase, up>>
  BY DEF CheckHandle
<1>3. /\ starter' \in [Starters -> Starting] /\ starter[s] = "check" /\ starter'[s] = q
      /\ \A r \in Starters : r # s => starter'[r] = starter[r]
  BY <1>1, StartTyped DEF IInv, Starting
<1>4. TypeOK'
  <2>1. crowded' \in BOOLEAN
    BY <1>1 DEF Crowded, IInv, TypeOK
  <2> QED
    BY <1>2, <1>3, <2>1, TypeParts DEF IInv, LoopTypes, StartTypes, TableTypes, ProbeOK
<1>5. \A l \in Loops : Alive(l)' <=> Alive(l)
  BY <1>2 DEF Alive
<1>6. \A r \in Starters : r # s => (Launching(r)' <=> Launching(r))
  BY <1>3 DEF Launching
<1>7. ASSUME crowded' = FALSE, handle = TRUE PROVE LoopOK'
  <2>1. LoopOK /\ q = "none"
    BY <1>1, <1>7 DEF IInv
  <2>2. ~Launching(s)'
    BY <1>3, <2>1 DEF Launching
  <2> QED
    BY <1>2, <1>3, <1>5, <1>6, <1>7, <2>1, <2>2 DEF LoopOK
<1>8. ASSUME crowded' = FALSE, handle # TRUE PROVE LoopOK'
  <2>1. \A r \in Starters : ~Launching(r)
    BY <1>1, <1>8 DEF Crowded
  <2>2. \A l \in Loops : ~Alive(l)
    <3>1. CASE crowded = FALSE
      BY <1>8, <2>1, <3>1 DEF IInv, LoopOK, Launching
    <3>2. CASE crowded # FALSE
      BY <1>1, <1>8, <3>2 DEF Crowded, IInv, TypeOK
    <3> QED
      BY <3>1, <3>2
  <2>3. \A r \in Starters : Launching(r)' => r = s
    BY <1>6, <2>1
  <2> QED
    BY <1>5, <2>2, <2>3 DEF LoopOK
<1> QED
  BY <1>4, <1>7, <1>8 DEF IInv

LEMMA LookInv == ASSUME IInv, NEW s \in Starters, HasEnabled(s) PROVE IInv'
<1>1. PICK q \in {"none", "spawn"} : Start(s, "look", q)
  BY DEF HasEnabled
<1>2. UNCHANGED <<stored, configs, states, handle, loop, put, erase, up, crowded>>
  BY DEF HasEnabled
<1>3. /\ starter' \in [Starters -> Starting] /\ starter[s] = "look" /\ starter'[s] = q
      /\ \A r \in Starters : r # s => starter'[r] = starter[r]
  BY <1>1, StartTyped DEF IInv, Starting
<1>4. TypeOK'
  BY <1>2, <1>3, TypeParts DEF IInv, LoopTypes, StartTypes, TableTypes, ProbeOK
<1>5. ASSUME crowded' = FALSE PROVE LoopOK'
  <2>1. LoopOK
    BY <1>2, <1>5 DEF IInv
  <2>2. \A l \in Loops : ~Alive(l)
    BY <1>3, <2>1 DEF LoopOK
  <2>3. \A l \in Loops : ~Alive(l)'
    BY <1>2, <2>2 DEF Alive
  <2>4. \A r \in Starters : Launching(r)' => Launching(r)
    BY <1>3 DEF Launching
  <2> QED
    BY <2>1, <2>3, <2>4 DEF LoopOK
<1> QED
  BY <1>4, <1>5 DEF IInv

LEMMA SpawnInv == ASSUME IInv, NEW s \in Starters, Spawn(s) PROVE IInv'
<1>1. Start(s, "spawn", "store") /\ UNCHANGED <<stored, configs, states, handle, put, erase, up, crowded>>
  BY DEF Spawn
<1>2. PICK l \in Loops : loop[l].step = "none" /\ loop' = [loop EXCEPT ![l].step = "collect"]
  BY DEF Spawn
<1>3. /\ starter' \in [Starters -> Starting] /\ starter[s] = "spawn" /\ starter'[s] = "store"
      /\ \A r \in Starters : r # s => starter'[r] = starter[r]
  BY <1>1, StartTyped DEF IInv, Starting
<1> DEFINE k == [loop[l] EXCEPT !.step = "collect"]
<1>4. loop \in [Loops -> Frame] /\ \A x \in Loops : ProbeOK(loop[x])
  BY TypeParts DEF IInv, LoopTypes
<1>5. k \in Frame /\ k.step = "collect"
  BY <1>4, FrameTyped, FrameSteps DEF Steps
<1>6. loop' = [loop EXCEPT ![l] = k]
  BY <1>2, <1>4
<1> HIDE DEF k
<1>7. loop' \in [Loops -> Frame] /\ \A x \in Loops : loop'[x] = IF x = l THEN k ELSE loop[x]
  BY <1>4, <1>5, <1>6
<1>8. LoopTypes'
  BY <1>4, <1>5, <1>7 DEF LoopTypes, ProbeOK
<1>9. TypeOK'
  BY <1>1, <1>3, <1>8, TypeParts DEF IInv, StartTypes, TableTypes
<1>10. ASSUME crowded' = FALSE PROVE LoopOK'
  <2>1. LoopOK /\ Launching(s)
    BY <1>1, <1>3, <1>10 DEF IInv, Launching
  <2>2. \A x \in Loops : ~Alive(x)
    BY <1>3, <2>1 DEF LoopOK
  <2>3. \A x \in Loops : Alive(x)' => x = l
    BY <1>7, <2>2 DEF Alive
  <2>4. \A r \in Starters : Launching(r)' => r = s
    BY <1>3, <2>1 DEF LoopOK, Launching
  <2> QED
    BY <1>3, <2>3, <2>4 DEF LoopOK, Launching
<1> QED
  BY <1>9, <1>10 DEF IInv

LEMMA StoreHandleInv == ASSUME IInv, NEW s \in Starters, StoreHandle(s) PROVE IInv'
<1>1. Start(s, "store", "none") /\ handle' = TRUE
      /\ UNCHANGED <<stored, configs, states, loop, put, erase, up, crowded>>
  BY DEF StoreHandle
<1>2. /\ starter' \in [Starters -> Starting] /\ starter'[s] = "none"
      /\ \A r \in Starters : r # s => starter'[r] = starter[r]
  BY <1>1, StartTyped DEF IInv, Starting
<1>3. TypeOK'
  BY <1>1, <1>2, TypeParts DEF IInv, LoopTypes, StartTypes, TableTypes, ProbeOK
<1>4. ASSUME crowded' = FALSE PROVE LoopOK'
  <2>1. LoopOK /\ Launching(s)
    BY <1>1, <1>4 DEF IInv, Launching, Start
  <2>2. \A l \in Loops : Alive(l)' <=> Alive(l)
    BY <1>1 DEF Alive
  <2>3. \A r \in Starters : ~Launching(r)'
    BY <1>2, <2>1 DEF LoopOK, Launching
  <2> QED
    BY <1>1, <2>1, <2>2, <2>3 DEF LoopOK, Launching
<1> QED
  BY <1>3, <1>4 DEF IInv

-----------------------------------------------------------------------------
(* PUT polling, and the store *)

PutTypes ==
    /\ put \in [Puts -> [step : {"none", "set", "clear"}, id : Backends \cup {None}]]
    /\ \A p \in Puts : put[p].step # "none" => put[p].id \in Backends

LEMMA PutTyped ==
    ASSUME TypeOK, NEW p \in Puts, NEW x, NEW y \in {"none", "set", "clear"},
           NEW b \in Backends \cup {None}, Put(p, x, y, b), y # "none" => b \in Backends
    PROVE  PutTypes'
<1>1. put \in [Puts -> [step : {"none", "set", "clear"}, id : Backends \cup {None}]]
      /\ \A q \in Puts : put[q].step # "none" => put[q].id \in Backends
  BY DEF TypeOK
<1>2. put' = [put EXCEPT ![p] = [step |-> y, id |-> b]]
  BY DEF Put
<1>3. \A q \in Puts : put'[q] = IF q = p THEN [step |-> y, id |-> b] ELSE put[q]
  BY <1>1, <1>2
<1>4. put' \in [Puts -> [step : {"none", "set", "clear"}, id : Backends \cup {None}]]
  BY <1>1, <1>2
<1> QED
  BY <1>1, <1>3, <1>4 DEF PutTypes

LEMMA UntestedTyped == Untested \in ProviderState
BY HealthConstants DEF Untested, ProviderState

LEMMA PutStartInv == ASSUME IInv, NEW p \in Puts, PutStart(p) PROVE IInv'
<1>1. PICK b \in stored : Put(p, "none", "set", b)
  BY DEF PutStart
<1>2. b \in Backends
  BY DEF IInv, TypeOK
<1>3. PutTypes'
  BY <1>1, <1>2, PutTyped DEF IInv
<1>4. UNCHANGED <<stored, configs, states, handle, loop, starter, erase, up, crowded>>
  BY DEF PutStart
<1>5. TypeOK'
  BY <1>3, <1>4 DEF IInv, TypeOK, PutTypes
<1> QED
  BY <1>4, <1>5, LoopFrame

LEMMA PutClearInv == ASSUME IInv, NEW p \in Puts, PutClear(p) PROVE IInv'
<1>1. Put(p, "clear", "none", None)
      /\ UNCHANGED <<stored, configs, handle, loop, starter, erase, up, crowded>>
  BY DEF PutClear
<1>2. PutTypes'
  BY <1>1, PutTyped DEF IInv
<1>3. states' \in [Backends -> ProviderState]
  BY UntestedTyped DEF PutClear, IInv, TypeOK
<1>4. TypeOK'
  BY <1>1, <1>2, <1>3 DEF IInv, TypeOK, PutTypes
<1> QED
  BY <1>1, <1>4, LoopFrame

\* When polling is enabled, a task must be free to start
LEMMA PutSetInv == ASSUME IInv, NEW p \in Puts, PutSet(p) PROVE IInv'
<1>1. PICK cfg \in PollConfig :
        /\ Put(p, "set", "clear", put[p].id)
        /\ configs' = [configs EXCEPT ![put[p].id] = cfg]
        /\ IF cfg.enabled THEN \E s \in Starters : Start(s, "none", "check")
           ELSE UNCHANGED starter
        /\ UNCHANGED <<stored, states, handle, loop, erase, up, crowded>>
  BY DEF PutSet
<1>2. put[p].id \in Backends
  BY <1>1 DEF Put, IInv, TypeOK
<1>3. PutTypes'
  BY <1>1, <1>2, PutTyped DEF IInv
<1>4. configs' \in [Backends -> PollConfig \cup {NoConfig}]
  BY <1>1, <1>2 DEF IInv, TypeOK
<1>5. CASE UNCHANGED starter
  <2>1. TypeOK'
    BY <1>1, <1>3, <1>4, <1>5 DEF IInv, TypeOK, PutTypes
  <2> QED
    BY <1>1, <1>5, <2>1, LoopFrame
<1>6. ASSUME NEW s \in Starters, Start(s, "none", "check") PROVE IInv'
  <2>1. /\ starter' \in [Starters -> Starting] /\ starter[s] = "none" /\ starter'[s] = "check"
        /\ \A r \in Starters : r # s => starter'[r] = starter[r]
    BY <1>6, StartTyped DEF IInv, Starting
  <2>2. LoopTypes' /\ StartTypes'
    BY <1>1, <2>1, TypeParts DEF IInv, LoopTypes, StartTypes, ProbeOK
  <2>3. TableTypes'
    BY <1>1, <1>3, <1>4 DEF IInv, TypeOK, TableTypes, PutTypes
  <2>4. ASSUME crowded' = FALSE PROVE LoopOK'
    <3>1. LoopOK
      BY <1>1, <2>4 DEF IInv
    <3>2. \A l \in Loops : Alive(l)' <=> Alive(l)
      BY <1>1 DEF Alive
    <3>3. \A r \in Starters : Launching(r)' <=> Launching(r)
      BY <2>1 DEF Launching
    <3> QED
      BY <1>1, <2>1, <3>1, <3>2, <3>3 DEF LoopOK, Launching
  <2> QED
    BY <2>2, <2>3, <2>4, TypeParts DEF IInv
<1> QED
  BY <1>1, <1>5, <1>6

LEMMA StoreInv == ASSUME IInv, NEW b \in Backends, StoreStep(b) \/ Flip(b) PROVE IInv'
<1>1. UNCHANGED <<loop, starter, handle, put, crowded>>
  BY DEF StoreStep, SaveBackend, DeleteBackend, RemoveState, RemoveConfig, Flip
<1>2. LoopTypes' /\ StartTypes'
  BY <1>1, TypeParts DEF IInv, LoopTypes, StartTypes, ProbeOK
<1>3. TableTypes'
  <2>1. TableTypes
    BY TypeParts DEF IInv
  <2>2. CASE SaveBackend(b)
    BY <2>1, <2>2 DEF SaveBackend, TableTypes
  <2>3. CASE DeleteBackend(b)
    BY <2>1, <2>3 DEF DeleteBackend, TableTypes
  <2>4. CASE RemoveState(b)
    BY <2>1, <2>4, UntestedTyped DEF RemoveState, TableTypes
  <2>5. CASE RemoveConfig(b)
    BY <2>1, <2>5 DEF RemoveConfig, TableTypes
  <2>6. CASE Flip(b)
    <3>1. up' \in [Backends -> BOOLEAN]
      BY <2>1, <2>6 DEF Flip, TableTypes
    <3> QED
      BY <2>1, <2>6, <3>1 DEF Flip, TableTypes
  <2> QED
    BY <2>2, <2>3, <2>4, <2>5, <2>6 DEF StoreStep
<1> QED
  BY <1>1, <1>2, <1>3, LoopFrame, TypeParts

-----------------------------------------------------------------------------
(* The theorems *)

LEMMA StepInv == ASSUME IInv, [Next]_vars PROVE IInv'
<1>1. CASE UNCHANGED vars
  <2>1. TypeOK'
    BY <1>1 DEF IInv, TypeOK, vars
  <2> QED
    BY <1>1, <2>1, LoopFrame DEF vars
<1>2. CASE Next
  <2>1. ASSUME NEW s \in Starters, EnsureRunning(s) PROVE IInv'
    BY <2>1, CheckInv, LookInv, SpawnInv, StoreHandleInv DEF EnsureRunning
  <2>2. ASSUME NEW l \in Loops, Run(l) PROVE IInv'
    BY <2>2, RunInv, ExitInv
  <2>3. ASSUME NEW p \in Puts, PutStep(p) PROVE IInv'
    BY <2>3, PutStartInv, PutSetInv, PutClearInv DEF PutStep
  <2>4. ASSUME NEW b \in Backends, StoreStep(b) \/ Flip(b) PROVE IInv'
    BY <2>4, StoreInv
  <2> QED
    BY <1>2, <2>1, <2>2, <2>3, <2>4, HealthConstants DEF Next
<1> QED
  BY <1>1, <1>2

LEMMA SpecInv == Spec => []IInv
<1>1. Init => IInv
  BY InitInv
<1>2. IInv /\ [Next]_vars => IInv'
  BY StepInv
<1> QED
  BY <1>1, <1>2, PTL DEF Spec

\* Every step keeps tables, loops, starters and handlers within their types: a probe
\* knows its back end, a level is one of the three, a count within its bound
THEOREM HealthTypes == Spec => []TypeOK
<1>1. IInv => TypeOK
  BY DEF IInv
<1> QED
  BY <1>1, SpecInv, PTL

\* For any number of back ends, PUT calls and ensure_running tasks, however they
\* overlap: a back end is polled by two loops only after two of the tasks have met
\* between the look at the handle and its storing
THEOREM OneLoop == Spec => []AtMostOneLoop
<1>1. TypeOK /\ IInv => AtMostOneLoop
  BY DEF IInv, LoopOK, AtMostOneLoop, TypeOK
<1> QED
  BY <1>1, SpecInv, HealthTypes, PTL

-----------------------------------------------------------------------------
(* What Routing takes from Health: how back ends go out of service *)

\* The back ends that the registry takes for removed
Out == {b \in Backends : states[b].level = "removed"}

\* A step of polling, as Routing has it
OutSteps ==
    \/ Out' = Out
    \/ \E b \in Backends : Out' = IF b \in Out THEN Out \ {b} ELSE Out \cup {b}

\* The last of so many failures takes a back end out of service
OutByFailure ==
    \A b \in Out' \ Out : \E l \in Loops :
        /\ loop[l].step = "record" /\ loop[l].id = b /\ ~loop[l].ok
        /\ states'[b].failures >= loop[l].limits.remove

\* A step that writes one state
LEMMA OneStateOut ==
    ASSUME TypeOK, NEW b \in Backends, NEW s, states' = [states EXCEPT ![b] = s]
    PROVE  OutSteps /\ \A c \in Out' \ Out : c = b /\ s.level = "removed"
<1>1. /\ \A c \in Backends : states'[c] = IF c = b THEN s ELSE states[c]
  BY DEF TypeOK
<1>2. Out' = {c \in Backends : states'[c].level = "removed"}
  BY DEF Out
<1>3. CASE s.level = "removed"
  <2>1. Out' = Out \cup {b}
    BY <1>1, <1>2, <1>3 DEF Out
  <2> QED
    BY <1>3, <2>1 DEF OutSteps
<1>4. CASE s.level # "removed"
  <2>1. Out' = Out \ {b}
    BY <1>1, <1>2, <1>4 DEF Out
  <2> QED
    BY <2>1 DEF OutSteps
<1> QED
  BY <1>3, <1>4

LEMMA OutKept == ASSUME UNCHANGED states PROVE OutSteps /\ OutByFailure
BY DEF Out, OutSteps, OutByFailure

LEMMA RecordOut == ASSUME IInv, NEW l \in Loops, Record(l) PROVE OutSteps /\ OutByFailure
<1> DEFINE f == loop[l]
<1>1. f.id \in Backends /\ f.step = "record" /\ f.limits \in Thresholds /\ f.ok \in BOOLEAN
  BY DEF IInv, TypeOK, Record
<1>2. PICK b \in Backends : b = f.id
  BY <1>1
<1>3. PICK s : s = Observe(states[b], f.ok, f.limits)
  OBVIOUS
<1>4. states' = [states EXCEPT ![b] = s]
  BY <1>2, <1>3 DEF Record
<1>5. ASSUME s.level = "removed" PROVE ~f.ok /\ s.failures >= f.limits.remove
  <2>1. ~f.ok
    BY <1>1, <1>3, <1>5 DEF Observe
  <2>2. s.level = Level(s.failures, f.limits)
    BY <1>3, <2>1 DEF Observe
  <2>3. s.failures \in Nat /\ f.limits.remove \in Nat /\ f.limits.fail \in Nat
    BY <1>1, <1>3, <2>1, HealthConstants DEF Observe, IInv, TypeOK, ProviderState
  <2> QED
    BY <1>5, <2>1, <2>2, <2>3 DEF Level
<1>6. \A c \in Backends : states'[c] = IF c = b THEN s ELSE states[c]
  BY <1>4 DEF IInv, TypeOK
<1>7. OutSteps /\ \A c \in Out' \ Out : c = b /\ s.level = "removed"
  BY <1>4, OneStateOut DEF IInv
<1> QED
  BY <1>1, <1>2, <1>5, <1>6, <1>7 DEF OutByFailure

LEMMA UntestedOut ==
    ASSUME IInv, NEW b \in Backends, states' = [states EXCEPT ![b] = Untested]
    PROVE  OutSteps /\ OutByFailure
<1>1. Untested.level # "removed"
  BY DEF Untested
<1> QED
  BY <1>1, OneStateOut DEF IInv, OutByFailure

LEMMA NextOut == IInv /\ [Next]_vars => [OutSteps /\ OutByFailure]_vars
<1> SUFFICES ASSUME IInv, Next PROVE OutSteps /\ OutByFailure
  OBVIOUS
<1>1. ASSUME NEW s \in Starters, EnsureRunning(s) PROVE UNCHANGED states
  BY <1>1 DEF EnsureRunning, CheckHandle, HasEnabled, Spawn, StoreHandle
<1>2. ASSUME NEW l \in Loops, Run(l) PROVE UNCHANGED states \/ Record(l)
  BY <1>2 DEF Run, Collect, ListEntries, NotDue, Probe, Answer, Recheck, Sleep, Exit
<1>3. ASSUME NEW p \in Puts, PutStep(p)
      PROVE  UNCHANGED states \/ \E b \in Backends : states' = [states EXCEPT ![b] = Untested]
  <2>1. CASE PutClear(p)
    BY <2>1 DEF PutClear, Put, IInv, TypeOK
  <2>2. CASE PutStart(p) \/ PutSet(p)
    BY <2>2 DEF PutStart, PutSet
  <2> QED
    BY <1>3, <2>1, <2>2 DEF PutStep
<1>4. ASSUME NEW b \in Backends, StoreStep(b) \/ Flip(b)
      PROVE  UNCHANGED states \/ states' = [states EXCEPT ![b] = Untested]
  BY <1>4 DEF StoreStep, SaveBackend, DeleteBackend, RemoveState, RemoveConfig, Flip
<1> QED
  BY <1>1, <1>2, <1>3, <1>4, OutKept, RecordOut, UntestedOut, HealthConstants DEF Next

\* The premise of Routing's Polling, for any number of loops, PUTs and deletions: a
\* step takes one back end out of service or brings one back, and it takes one out
\* only by recording a failed probe that fills its limit
THEOREM OneOutAtATime == Spec => [][OutSteps /\ OutByFailure]_vars
BY SpecInv, NextOut, PTL DEF Spec

(***************************************************************************)
(*                                 Routing                                 *)
(***************************************************************************)
LEMMA Least ==
    ASSUME NEW S \in SUBSET Nat, S # {}
    PROVE  \E m \in S : \A n \in S : m <= n
<1>1. IsWellFoundedOn(OpToRel(<, Nat), Nat)
  BY NatLessThanWellFounded
<1>2. PICK m \in S : \A n \in S : ~ (<<n, m>> \in OpToRel(<, Nat))
  BY <1>1, WFMin
<1>3. \A n \in S : ~(n < m)
  BY <1>2 DEF OpToRel
<1> QED
  BY <1>3

-----------------------------------------------------------------------------
(***************************************************************************)
(* ByLimit: the place of a candidate in the sorted sequence is the number  *)
(* of those before it, which is different for every two                    *)
(***************************************************************************)

Fit(s, p) == {k \in DOMAIN s : Fits(s[k], p)}

Before(s, j, k) == s[j].max < s[k].max \/ (s[j].max = s[k].max /\ j < k)

Ahead(s, p, k) == {j \in Fit(s, p) : Before(s, j, k)}

Rank(s, p, k) == Cardinality(Ahead(s, p, k))

At(s, p, n) == CHOOSE k \in Fit(s, p) : Rank(s, p, k) = n - 1

LEMMA ByLimitAt ==
    ASSUME NEW s, NEW p
    PROVE  ByLimit(s, p) = [n \in 1..Cardinality(Fit(s, p)) |-> s[At(s, p, n)]]
BY DEF ByLimit, Fit, Ahead, Rank, At, Before

LEMMA UnlimitedIsNat == Unlimited \in Nat
BY RoutingConstants

LEMMA FitTyped ==
    ASSUME NEW s \in Seq(Candidates), NEW p
    PROVE  /\ IsFiniteSet(Fit(s, p)) /\ Cardinality(Fit(s, p)) \in Nat
           /\ Fit(s, p) \subseteq 1..Len(s)
           /\ \A k \in Fit(s, p) : s[k] \in Candidates /\ s[k].max \in Nat
<1>1. Fit(s, p) \subseteq 1..Len(s) /\ Len(s) \in Nat
  BY DEF Fit
<1>2. IsFiniteSet(1..Len(s))
  BY <1>1, FS_Interval
<1>3. IsFiniteSet(Fit(s, p))
  BY <1>1, <1>2, FS_Subset
<1>4. ASSUME NEW k \in Fit(s, p) PROVE s[k] \in Candidates /\ s[k].max \in Nat
  <2>1. s[k] \in Candidates
    BY <1>1
  <2> QED
    BY <2>1, UnlimitedIsNat DEF Candidates
<1> QED
  BY <1>1, <1>3, <1>4, FS_CardinalityType

\* Of two candidates the one that comes before has the lower rank
LEMMA RankOrders ==
    ASSUME NEW s \in Seq(Candidates), NEW p,
           NEW j \in Fit(s, p), NEW k \in Fit(s, p), Before(s, j, k)
    PROVE  Rank(s, p, j) < Rank(s, p, k)
<1>1. /\ s[j].max \in Nat /\ s[k].max \in Nat /\ j \in Nat /\ k \in Nat
      /\ \A i \in Fit(s, p) : s[i].max \in Nat /\ i \in Nat
  BY FitTyped
<1>2. Ahead(s, p, j) \subseteq Ahead(s, p, k)
  <2> SUFFICES ASSUME NEW i \in Fit(s, p), Before(s, i, j) PROVE Before(s, i, k)
    BY DEF Ahead
  <2>1. s[i].max \in Nat /\ i \in Nat
    BY <1>1
  <2> QED
    BY <1>1, <2>1 DEF Before
<1>3. j \in Ahead(s, p, k) /\ j \notin Ahead(s, p, j)
  BY <1>1 DEF Ahead, Before
<1>4. IsFiniteSet(Ahead(s, p, k))
  BY FitTyped, FS_Subset DEF Ahead
<1>5. /\ Cardinality(Ahead(s, p, j)) <= Cardinality(Ahead(s, p, k))
      /\ Cardinality(Ahead(s, p, j)) # Cardinality(Ahead(s, p, k))
      /\ Cardinality(Ahead(s, p, j)) \in Nat /\ Cardinality(Ahead(s, p, k)) \in Nat
  BY <1>2, <1>3, <1>4, FS_Subset, FS_CardinalityType
<1> QED
  BY <1>5 DEF Rank

LEMMA RankTyped ==
    ASSUME NEW s \in Seq(Candidates), NEW p, NEW k \in Fit(s, p)
    PROVE  Rank(s, p, k) \in 0..(Cardinality(Fit(s, p)) - 1)
<1>1. k \notin Ahead(s, p, k)
  BY FitTyped DEF Ahead, Before
<1>2. /\ Ahead(s, p, k) \in SUBSET Fit(s, p) /\ Ahead(s, p, k) # Fit(s, p)
      /\ IsFiniteSet(Fit(s, p)) /\ Cardinality(Fit(s, p)) \in Nat
  BY <1>1, FitTyped DEF Ahead
<1>3. /\ Cardinality(Ahead(s, p, k)) <= Cardinality(Fit(s, p))
      /\ Cardinality(Ahead(s, p, k)) # Cardinality(Fit(s, p))
      /\ IsFiniteSet(Ahead(s, p, k))
  BY <1>2, FS_Subset
<1>4. Cardinality(Ahead(s, p, k)) \in Nat
  BY <1>3, FS_CardinalityType
<1> QED
  BY <1>2, <1>3, <1>4 DEF Rank

LEMMA RankTellsApart ==
    ASSUME NEW s \in Seq(Candidates), NEW p,
           NEW j \in Fit(s, p), NEW k \in Fit(s, p), Rank(s, p, j) = Rank(s, p, k)
    PROVE  j = k
<1>1. /\ s[j].max \in Nat /\ s[k].max \in Nat /\ j \in Nat /\ k \in Nat
      /\ Rank(s, p, j) \in Int /\ Rank(s, p, k) \in Int
  BY FitTyped, RankTyped
<1>2. ~Before(s, j, k) /\ ~Before(s, k, j)
  BY <1>1, RankOrders
<1> QED
  BY <1>1, <1>2 DEF Before

\* So every place is taken: as many ranks as candidates
LEMMA AtTyped ==
    ASSUME NEW s \in Seq(Candidates), NEW p, NEW n \in 1..Cardinality(Fit(s, p))
    PROVE  At(s, p, n) \in Fit(s, p) /\ Rank(s, p, At(s, p, n)) = n - 1
<1> DEFINE F == Fit(s, p)
           R == 0..(Cardinality(F) - 1)
           f == [k \in F |-> Rank(s, p, k)]
<1>1. IsFiniteSet(F) /\ Cardinality(F) \in Nat
  BY FitTyped
<1>2. f \in Injection(F, R)
  <2>1. f \in [F -> R]
    BY RankTyped
  <2>2. \A j, k \in F : f[j] = f[k] => j = k
    BY RankTellsApart
  <2> HIDE DEF F, R, f
  <2> QED
    BY <2>1, <2>2 DEF Injection, IsInjective
<1>3. IsFiniteSet(R) /\ Cardinality(R) = Cardinality(F)
  <2>1. 0 \in Int /\ Cardinality(F) - 1 \in Int
    BY <1>1
  <2>2. /\ IsFiniteSet(R)
        /\ Cardinality(R) = IF 0 > Cardinality(F) - 1 THEN 0 ELSE Cardinality(F) - 1 - 0 + 1
    BY <2>1, FS_Interval
  <2> HIDE DEF F
  <2> QED
    BY <1>1, <2>2
<1>4. f \in Surjection(F, R)
  <2> HIDE DEF F, R, f
  <2> QED
    BY <1>2, <1>3, FS_Injection
<1>5. n - 1 \in R
  <2> HIDE DEF F
  <2> QED
    BY <1>1 DEF F
<1>6. \E k \in F : f[k] = n - 1
  <2> HIDE DEF F, R, f
  <2> QED
    BY <1>4, <1>5 DEF Surjection
<1>7. \E k \in F : Rank(s, p, k) = n - 1
  BY <1>6
<1> QED
  BY <1>7 DEF At

LEMMA ByLimitTyped ==
    ASSUME NEW s \in Seq(Candidates), NEW p
    PROVE  /\ ByLimit(s, p) \in Seq(Candidates)
           /\ Len(ByLimit(s, p)) = Cardinality(Fit(s, p))
           /\ \A n \in 1..Cardinality(Fit(s, p)) : ByLimit(s, p)[n] = s[At(s, p, n)]
<1>1. Cardinality(Fit(s, p)) \in Nat
  BY FitTyped
<1>2. \A n \in 1..Cardinality(Fit(s, p)) : s[At(s, p, n)] \in Candidates
  BY AtTyped, FitTyped
<1> QED
  BY <1>1, <1>2, ByLimitAt

\* What token_tier's retain and sort_by_key make of any candidates and any prompt
\* (rules.rs, resolve): each candidate that holds the prompt once and no other, by
\* rising limit, and of two with the same limit the one that is configured first
THEOREM ByLimitIsStableSort ==
    ASSUME NEW s \in Seq(Candidates), NEW p
    PROVE  \E at \in [1..Len(ByLimit(s, p)) -> {k \in DOMAIN s : Fits(s[k], p)}] :
               /\ \A n \in DOMAIN at : ByLimit(s, p)[n] = s[at[n]]
               /\ \A k \in DOMAIN s : Fits(s[k], p) => \E n \in DOMAIN at : at[n] = k
               /\ \A m, n \in DOMAIN at : m < n =>
                      \/ s[at[m]].max < s[at[n]].max
                      \/ s[at[m]].max = s[at[n]].max /\ at[m] < at[n]
<1> DEFINE N == 1..Cardinality(Fit(s, p))
           at == [n \in N |-> At(s, p, n)]
<1>1. Cardinality(Fit(s, p)) \in Nat /\ Len(ByLimit(s, p)) = Cardinality(Fit(s, p))
  BY FitTyped, ByLimitTyped
<1>2. at \in [1..Len(ByLimit(s, p)) -> {k \in DOMAIN s : Fits(s[k], p)}]
  BY <1>1, AtTyped DEF Fit
<1>3. \A n \in N : ByLimit(s, p)[n] = s[at[n]]
  BY ByLimitTyped
<1>4. ASSUME NEW k \in Fit(s, p) PROVE \E n \in N : at[n] = k
  <2>1. Rank(s, p, k) \in 0..(Cardinality(Fit(s, p)) - 1)
    BY RankTyped
  <2>2. PICK n \in N : n - 1 = Rank(s, p, k)
    <3>1. Rank(s, p, k) + 1 \in N /\ (Rank(s, p, k) + 1) - 1 = Rank(s, p, k)
      BY <1>1, <2>1
    <3> QED
      BY <3>1
  <2>3. At(s, p, n) = k
    BY <2>2, AtTyped, RankTellsApart
  <2> QED
    BY <2>3
<1>5. ASSUME NEW m \in N, NEW n \in N, m < n PROVE Before(s, at[m], at[n])
  <2>1. /\ at[m] \in Fit(s, p) /\ Rank(s, p, at[m]) = m - 1
        /\ at[n] \in Fit(s, p) /\ Rank(s, p, at[n]) = n - 1
    BY AtTyped
  <2>2. Rank(s, p, at[m]) < Rank(s, p, at[n])
    BY <1>1, <1>5, <2>1
  <2> HIDE DEF at
  <2>3. ~(Rank(s, p, at[n]) < Rank(s, p, at[m])) /\ at[m] # at[n]
    BY <1>1, <2>1, <2>2
  <2>4. ~Before(s, at[n], at[m])
    BY <2>1, <2>3, RankOrders
  <2>5. /\ s[at[m]].max \in Nat /\ s[at[n]].max \in Nat
        /\ at[m] \in Nat /\ at[n] \in Nat
    BY <2>1, FitTyped
  <2> QED
    BY <2>3, <2>4, <2>5 DEF Before
<1>6. DOMAIN at = N
  OBVIOUS
<1> HIDE DEF at, N
<1>7. \A k \in DOMAIN s : Fits(s[k], p) => \E n \in N : at[n] = k
  BY <1>4 DEF Fit
<1>8. \A m, n \in N : m < n => \/ s[at[m]].max < s[at[n]].max
                               \/ s[at[m]].max = s[at[n]].max /\ at[m] < at[n]
  BY <1>5 DEF Before
<1> QED
  BY <1>2, <1>3, <1>6, <1>7, <1>8

-----------------------------------------------------------------------------
(***************************************************************************)
(* resolve                                                                 *)
(***************************************************************************)

LEMMA RulesTyped ==
    ASSUME RoutingTypeOK, NEW name \in DOMAIN sets
    PROVE  sets[name] \in Seq(Rules)
<1>1. CASE sets \in RuleSets
  BY <1>1, RoutingConstants
<1>2. CASE sets = NoRules
  BY <1>2 DEF NoRules
<1> QED
  BY <1>1, <1>2 DEF RoutingTypeOK

\* The rule that counts most, of those the first: there is one
Outweighs(rules, name, i, j) ==
    \/ Weight(rules[i], name) < Weight(rules[j], name)
    \/ Weight(rules[i], name) = Weight(rules[j], name) /\ i <= j

LEMMA ChosenAt ==
    ASSUME NEW rules \in Seq(Rules), rules # <<>>, NEW name
    PROVE  \E i \in DOMAIN rules :
               /\ Chosen(rules, name) = rules[i]
               /\ \A j \in DOMAIN rules : Outweighs(rules, name, i, j)
<1> DEFINE w(i) == Weight(rules[i], name)
           W == {w(i) : i \in DOMAIN rules}
<1>1. /\ DOMAIN rules = 1..Len(rules) /\ Len(rules) \in Nat /\ 1 \in DOMAIN rules
      /\ \A i \in DOMAIN rules : rules[i] \in Rules
  OBVIOUS
<1>2. \A i \in DOMAIN rules : w(i) \in Nat
  BY <1>1 DEF Weight, Rules
<1>3. PICK least \in W : \A n \in W : least <= n
  <2>1. W \in SUBSET Nat /\ W # {}
    BY <1>1, <1>2
  <2> HIDE DEF W
  <2> QED
    BY <2>1, Least
<1> DEFINE I == {i \in DOMAIN rules : w(i) = least}
<1>4. PICK k \in I : \A i \in I : k <= i
  <2>1. I \in SUBSET Nat /\ I # {}
    BY <1>1
  <2> HIDE DEF I
  <2> QED
    BY <2>1, Least
<1>5. \E i \in DOMAIN rules : \A j \in DOMAIN rules :
         w(i) < w(j) \/ (w(i) = w(j) /\ i <= j)
  <2>1. k \in DOMAIN rules /\ w(k) = least
    BY <1>4
  <2>2. ASSUME NEW j \in DOMAIN rules PROVE w(k) < w(j) \/ (w(k) = w(j) /\ k <= j)
    <3>1. w(j) \in Nat /\ w(k) \in Nat /\ w(k) <= w(j)
      BY <1>2, <1>3, <2>1
    <3>2. w(j) = w(k) => k <= j
      BY <1>4, <2>1
    <3> HIDE DEF w
    <3> QED
      BY <3>1, <3>2
  <2> HIDE DEF w
  <2> QED
    BY <2>1, <2>2
<1>6. Chosen(rules, name) = rules[CHOOSE i \in DOMAIN rules : \A j \in DOMAIN rules :
         w(i) < w(j) \/ (w(i) = w(j) /\ i <= j)]
  BY DEF Chosen
<1>7. \A i, j \in DOMAIN rules :
         (w(i) < w(j) \/ (w(i) = w(j) /\ i <= j)) => Outweighs(rules, name, i, j)
  BY DEF Outweighs
<1> HIDE DEF w
<1> QED
  BY <1>5, <1>6, <1>7

LEMMA ChosenTyped ==
    ASSUME NEW rules \in Seq(Rules), rules # <<>>, NEW name
    PROVE  Chosen(rules, name) \in Rules
BY ChosenAt

IsFirst(i, I) == i \in I /\ \A j \in I : i <= j

\* The rule that resolve applies, whatever the rules and whatever they are sorted
\* by: the first one for every name; only if there is none, the first one for the
\* name asked for; only if there is neither, the one of the least order, of
\* several the first (rules.rs find, find, min_by_key)
THEOREM RuleChosen ==
    ASSUME NEW rules \in Seq(Rules), rules # <<>>, NEW name
    PROVE  LET star  == {i \in DOMAIN rules : rules[i].match = "*"}
               exact == {i \in DOMAIN rules : rules[i].match = name}
           IN \E i \in DOMAIN rules :
                  /\ Chosen(rules, name) = rules[i]
                  /\ \/ IsFirst(i, star)
                     \/ star = {} /\ IsFirst(i, exact)
                     \/ /\ star = {} /\ exact = {}
                        /\ \A j \in DOMAIN rules :
                               \/ rules[i].order < rules[j].order
                               \/ rules[i].order = rules[j].order /\ i <= j
<1> DEFINE star  == {i \in DOMAIN rules : rules[i].match = "*"}
           exact == {i \in DOMAIN rules : rules[i].match = name}
<1>1. PICK i \in DOMAIN rules :
          /\ Chosen(rules, name) = rules[i]
          /\ \A j \in DOMAIN rules : Outweighs(rules, name, i, j)
  BY ChosenAt
<1>2. \A j \in DOMAIN rules : rules[j].order \in Nat /\ j \in Nat
  <2>1. \A j \in DOMAIN rules : rules[j] \in Rules /\ j \in Nat
    OBVIOUS
  <2>2. \A r \in Rules : r.order \in Nat
    BY DEF Rules
  <2> QED
    BY <2>1, <2>2
<1>3. CASE star # {}
  <2>1. PICK j \in star : TRUE
    BY <1>3
  <2>2. rules[i].match = "*"
    BY <1>1, <1>2, <2>1 DEF Outweighs, Weight
  <2>3. IsFirst(i, star)
    BY <1>1, <1>2, <2>2 DEF Outweighs, Weight, IsFirst
  <2> QED
    BY <1>1, <2>3
<1>4. CASE star = {} /\ exact # {}
  <2>1. PICK j \in exact : TRUE
    BY <1>4
  <2>2. \A k \in DOMAIN rules : rules[k].match # "*"
    BY <1>4
  <2>3. rules[i].match = name
    BY <1>1, <1>2, <2>1, <2>2 DEF Outweighs, Weight
  <2>4. IsFirst(i, exact)
    BY <1>1, <1>2, <2>2, <2>3 DEF Outweighs, Weight, IsFirst
  <2> QED
    BY <1>1, <1>4, <2>4
<1>5. CASE star = {} /\ exact = {}
  <2>1. \A k \in DOMAIN rules : Weight(rules[k], name) = 2 + rules[k].order
    BY <1>5 DEF Weight
  <2>2. \A j \in DOMAIN rules :
            \/ rules[i].order < rules[j].order
            \/ rules[i].order = rules[j].order /\ i <= j
    <3> SUFFICES ASSUME NEW j \in DOMAIN rules
                 PROVE  \/ rules[i].order < rules[j].order
                        \/ rules[i].order = rules[j].order /\ i <= j
      OBVIOUS
    <3> DEFINE a == rules[i].order
               b == rules[j].order
    <3>1. a \in Nat /\ b \in Nat /\ Weight(rules[i], name) = 2 + a
                               /\ Weight(rules[j], name) = 2 + b
      BY <1>2, <2>1
    <3>2. 2 + a < 2 + b \/ (2 + a = 2 + b /\ i <= j)
      BY <1>1, <3>1 DEF Outweighs
    <3> HIDE DEF a, b
    <3>3. a < b \/ (a = b /\ i <= j)
      BY <3>1, <3>2
    <3> QED
      BY <3>3 DEF a, b
  <2> QED
    BY <1>1, <1>5, <2>2
<1> QED
  BY <1>3, <1>4, <1>5

LEMMA SelectedTyped ==
    ASSUME NEW rule \in Rules, NEW prompt
    PROVE  Selected(rule, prompt) \in Seq(Candidates)
BY ByLimitTyped DEF Selected, Rules

LEMMA Joined ==
    ASSUME NEW S, NEW a \in Seq(S), NEW b \in Seq(S)
    PROVE  /\ a \o b \in Seq(S) /\ Len(a \o b) = Len(a) + Len(b)
           /\ \A n \in 1..Len(a) : (a \o b)[n] = a[n]
           /\ \A n \in 1..Len(b) : (a \o b)[Len(a) + n] = b[n]
<1>1. Len(a) \in Nat /\ Len(b) \in Nat
  OBVIOUS
<1>2. /\ a \o b \in Seq(S) /\ Len(a \o b) = Len(a) + Len(b)
      /\ \A i \in 1..(Len(a) + Len(b)) : (a \o b)[i] =
            IF i <= Len(a) THEN a[i] ELSE b[i - Len(a)]
  BY ConcatProperties
<1>3. ASSUME NEW n \in 1..Len(b) PROVE (a \o b)[Len(a) + n] = b[n]
  <2>1. /\ Len(a) + n \in 1..(Len(a) + Len(b)) /\ ~(Len(a) + n <= Len(a))
        /\ Len(a) + n - Len(a) = n
    BY <1>1
  <2> QED
    BY <1>2, <2>1
<1>4. ASSUME NEW n \in 1..Len(a) PROVE (a \o b)[n] = a[n]
  BY <1>1, <1>2
<1> QED
  BY <1>2, <1>3, <1>4

\* The names of the candidates selected, and then the fallback
LEMMA ResolveParts ==
    ASSUME RoutingTypeOK, NEW name \in DOMAIN sets, sets[name] # <<>>, NEW prompt
    PROVE  LET rule == Chosen(sets[name], name)
               s    == Selected(rule, prompt)
               r    == Resolve(name, prompt)
           IN /\ rule \in Rules /\ s \in Seq(Candidates) /\ r \in Seq(Models)
              /\ Len(r) = Len(s) + Len(rule.fallback)
              /\ \A n \in 1..Len(s) : r[n] = s[n].model
              /\ \A n \in 1..Len(rule.fallback) : r[Len(s) + n] = rule.fallback[n]
<1> DEFINE rule == Chosen(sets[name], name)
           s    == Selected(rule, prompt)
           m    == [k \in DOMAIN s |-> s[k].model]
<1>1. rule \in Rules /\ s \in Seq(Candidates)
  BY RulesTyped, ChosenTyped, SelectedTyped
<1>2. Resolve(name, prompt) = m \o rule.fallback
  BY DEF Resolve
<1>3. m \in Seq(Models) /\ Len(m) = Len(s) /\ \A n \in 1..Len(s) : m[n] = s[n].model
  <2>1. \A k \in 1..Len(s) : s[k].model \in Models
    <3> HIDE DEF s
    <3>1. \A k \in 1..Len(s) : s[k] \in Candidates
      BY <1>1
    <3> QED
      BY <3>1 DEF Candidates
  <2>2. DOMAIN s = 1..Len(s) /\ Len(s) \in Nat
    BY <1>1
  <2> HIDE DEF s
  <2> QED
    BY <2>1, <2>2
<1>4. rule.fallback \in Seq(Models)
  BY <1>1 DEF Rules
<1> HIDE DEF m, s, rule
<1>5. /\ m \o rule.fallback \in Seq(Models)
      /\ Len(m \o rule.fallback) = Len(m) + Len(rule.fallback)
      /\ \A n \in 1..Len(m) : (m \o rule.fallback)[n] = m[n]
      /\ \A n \in 1..Len(rule.fallback) : (m \o rule.fallback)[Len(m) + n] = rule.fallback[n]
  <2>1. PICK a \in Seq(Models), b \in Seq(Models) : a = m /\ b = rule.fallback
    BY <1>3, <1>4
  <2>2. /\ a \o b \in Seq(Models) /\ Len(a \o b) = Len(a) + Len(b)
        /\ \A n \in 1..Len(a) : (a \o b)[n] = a[n]
        /\ \A n \in 1..Len(b) : (a \o b)[Len(a) + n] = b[n]
    BY Joined
  <2> QED
    BY <2>1, <2>2, Zenon
<1> QED
  BY <1>1, <1>2, <1>3, <1>5 DEF rule, s

LEMMA ResolveTyped ==
    ASSUME RoutingTypeOK, NEW name, NEW prompt
    PROVE  Resolve(name, prompt) \in Seq(Models)
<1>1. CASE name \notin DOMAIN sets \/ sets[name] = <<>>
  BY <1>1 DEF Resolve
<1>2. CASE name \in DOMAIN sets /\ sets[name] # <<>>
  BY <1>2, ResolveParts
<1> QED
  BY <1>1, <1>2

-----------------------------------------------------------------------------
(***************************************************************************)
(* TiersInOrder                                                            *)
(***************************************************************************)

\* The first of the sorted candidates has the least limit
LEMMA FirstIsLeast ==
    ASSUME NEW s \in Seq(Candidates), NEW p, Fit(s, p) # {}
    PROVE  /\ 1 \in 1..Cardinality(Fit(s, p))
           /\ At(s, p, 1) \in Fit(s, p)
           /\ \A j \in Fit(s, p) : s[At(s, p, 1)].max <= s[j].max
<1>1. IsFiniteSet(Fit(s, p)) /\ Cardinality(Fit(s, p)) \in Nat
  BY FitTyped
<1>2. Cardinality(Fit(s, p)) # 0
  BY <1>1, FS_EmptySet
<1>3. 1 \in 1..Cardinality(Fit(s, p))
  BY <1>1, <1>2
<1> DEFINE k == At(s, p, 1)
<1>4. k \in Fit(s, p) /\ Rank(s, p, k) = 0
  BY <1>3, AtTyped
<1> HIDE DEF k
<1>5. IsFiniteSet(Ahead(s, p, k))
  BY <1>1, FS_Subset DEF Ahead
<1>6. Ahead(s, p, k) = {}
  BY <1>4, <1>5, FS_EmptySet DEF Rank
<1>7. ASSUME NEW j \in Fit(s, p) PROVE s[k].max <= s[j].max
  <2>1. ~Before(s, j, k)
    BY <1>6 DEF Ahead
  <2>2. s[j].max \in Nat /\ s[k].max \in Nat
    BY <1>4, FitTyped
  <2> QED
    BY <2>1, <2>2 DEF Before
<1> QED
  BY <1>3, <1>4, <1>7 DEF k

\* The candidates that hold the shorter prompt only come before all the others
LEMMA LongerIsEnd ==
    ASSUME NEW s \in Seq(Candidates), NEW p \in Nat, NEW q \in Nat, q <= p
    PROVE  \E d \in Nat :
              /\ Cardinality(Fit(s, q)) = Cardinality(Fit(s, p)) + d
              /\ \A n \in 1..Cardinality(Fit(s, p)) : At(s, p, n) = At(s, q, n + d)
<1> DEFINE P == Fit(s, p)
           Q == Fit(s, q)
           D == Q \ P
           d == Cardinality(D)
<1>1. /\ IsFiniteSet(P) /\ Cardinality(P) \in Nat
      /\ IsFiniteSet(Q) /\ Cardinality(Q) \in Nat
      /\ P \subseteq 1..Len(s) /\ Q \subseteq 1..Len(s)
      /\ \A k \in P \cup Q : s[k].max \in Nat
  BY FitTyped
<1>2. P \subseteq Q
  <2> SUFFICES ASSUME NEW k \in P PROVE k \in Q
    OBVIOUS
  <2>1. k \in DOMAIN s /\ s[k].max >= p /\ s[k].max \in Nat
    BY <1>1 DEF Fit, Fits
  <2> QED
    BY <2>1 DEF Fit, Fits
<1>3. IsFiniteSet(D) /\ d \in Nat
  BY <1>1, FS_Subset, FS_CardinalityType
<1>4. Cardinality(Q) = Cardinality(P) + d
  <2>1. Q = P \cup D /\ P \cap D = {}
    BY <1>2
  <2>2. Cardinality(P \cap D) = 0
    BY <2>1, FS_EmptySet
  <2>3. Cardinality(P \cup D) = Cardinality(P) + Cardinality(D) - Cardinality(P \cap D)
    BY <1>1, <1>3, FS_Union
  <2> HIDE DEF P, Q, D
  <2> QED
    BY <1>1, <1>3, <2>1, <2>2, <2>3
<1>5. ASSUME NEW k \in P PROVE Rank(s, q, k) = Rank(s, p, k) + d
  <2>1. Ahead(s, q, k) = Ahead(s, p, k) \cup D
    <3>1. \A j \in D : Before(s, j, k)
      <4> SUFFICES ASSUME NEW j \in D PROVE Before(s, j, k)
        OBVIOUS
      <4>1. s[j].max \in Nat /\ s[k].max \in Nat
        BY <1>1
      <4>2. ~(s[j].max >= p) /\ s[k].max >= p
        BY DEF Fit, Fits
      <4> QED
        BY <4>1, <4>2 DEF Before
    <3> HIDE DEF P, Q
    <3> QED
      BY <1>2, <3>1 DEF Ahead, P, Q
  <2>2. Ahead(s, p, k) \cap D = {}
    BY DEF Ahead
  <2>3. Cardinality(Ahead(s, p, k) \cap D) = 0
    BY <2>2, FS_EmptySet
  <2>4. IsFiniteSet(Ahead(s, p, k)) /\ Cardinality(Ahead(s, p, k)) \in Nat
    BY <1>1, FS_Subset, FS_CardinalityType DEF Ahead
  <2>5. Cardinality(Ahead(s, p, k) \cup D)
          = Cardinality(Ahead(s, p, k)) + Cardinality(D) - Cardinality(Ahead(s, p, k) \cap D)
    BY <1>3, <2>4, FS_Union
  <2> HIDE DEF P, Q, D
  <2> QED
    BY <1>3, <2>1, <2>3, <2>4, <2>5 DEF Rank
<1>6. ASSUME NEW n \in 1..Cardinality(P) PROVE At(s, p, n) = At(s, q, n + d)
  <2>1. At(s, p, n) \in P /\ Rank(s, p, At(s, p, n)) = n - 1
    BY AtTyped
  <2>2. n + d \in 1..Cardinality(Q)
    <3> HIDE DEF P, Q, D
    <3> QED
      BY <1>1, <1>3, <1>4
  <2>3. At(s, q, n + d) \in Q /\ Rank(s, q, At(s, q, n + d)) = n + d - 1
    <3> HIDE DEF D, d
    <3>1. PICK m \in 1..Cardinality(Q) : m = n + d
      BY <2>2
    <3>2. At(s, q, m) \in Q /\ Rank(s, q, At(s, q, m)) = m - 1
      BY AtTyped
    <3>3. m - 1 = n + d - 1
      BY <1>3, <3>1
    <3> QED
      BY <3>1, <3>2, <3>3, Zenon
  <2>4. Rank(s, q, At(s, p, n)) = n - 1 + d /\ At(s, p, n) \in Q
    BY <1>2, <1>5, <2>1
  <2>5. n - 1 + d = n + d - 1
    BY <1>3
  <2> QED
    BY <2>3, <2>4, <2>5, RankTellsApart
<1> HIDE DEF P, Q, D
<1> QED
  BY <1>3, <1>4, <1>6 DEF P, Q

LEMMA SuffixByIndex ==
    ASSUME NEW S, NEW s \in Seq(S), NEW t \in Seq(S), NEW d \in Nat,
           Len(t) = Len(s) + d, \A n \in 1..Len(s) : s[n] = t[n + d]
    PROVE  IsSuffix(s, t)
<1> DEFINE L == Len(s)
           u == Reverse(s)
           v == Reverse(t)
<1>1. L \in Nat /\ Len(t) \in Nat
  OBVIOUS
<1>2. /\ u \in Seq(S) /\ Len(u) = L /\ \A n \in 1..L : u[n] = s[L - n + 1]
  <2>1. \A n \in 1..L : s[L - n + 1] \in S
    BY <1>1
  <2> QED
    BY <1>1, <2>1 DEF Reverse
<1>3. /\ v \in Seq(S) /\ Len(v) = L + d
      /\ \A n \in 1..(L + d) : v[n] = t[L + d - n + 1]
  <2>1. \A n \in 1..Len(t) : t[Len(t) - n + 1] \in S
    BY <1>1
  <2> QED
    BY <1>1, <2>1 DEF Reverse
<1>4. ASSUME NEW n \in 1..L PROVE u[n] = v[n]
  <2>1. /\ L - n + 1 \in 1..L /\ n \in 1..(L + d)
        /\ L - n + 1 + d = L + d - n + 1
    BY <1>1
  <2> QED
    BY <1>2, <1>3, <2>1
<1> HIDE DEF u, v, L
<1>5. SubSeq(u, 1, L) = [n \in 1..L |-> u[n]] /\ SubSeq(v, 1, L) = [n \in 1..L |-> v[n]]
  <2>1. /\ \A n \in 1..L : u[n] \in S
        /\ \A n \in 1..L : v[n] \in S
    BY <1>1, <1>2, <1>3
  <2>2. /\ SubSeq(u, 1, L) \in Seq(S) /\ SubSeq(v, 1, L) \in Seq(S)
        /\ Len(SubSeq(u, 1, L)) = L /\ Len(SubSeq(v, 1, L)) = L
        /\ \A n \in 1..L : SubSeq(u, 1, L)[n] = u[n] /\ SubSeq(v, 1, L)[n] = v[n]
    BY <1>1, <1>2, <1>3
  <2> QED
    BY <2>2
<1>6. SubSeq(u, 1, L) = SubSeq(v, 1, L)
  BY <1>4, <1>5
<1> QED
  BY <1>1, <1>2, <1>3, <1>6 DEF IsSuffix, IsPrefix, u, v

LEMMA PromptsAreNat == Prompts \subseteq Nat
BY RoutingConstants

LEMMA TiersSorted == RoutingTypeOK => TiersInOrder
<1> SUFFICES ASSUME RoutingTypeOK, NEW name \in DOMAIN sets \cap Models,
                    sets[name] # <<>>, Chosen(sets[name], name).strategy = "token_tier",
                    NEW p \in Prompts
             PROVE  LET rule   == Chosen(sets[name], name)
                        fit(x) == {k \in DOMAIN rule.candidates :
                                     x <= rule.candidates[k].max}
                    IN /\ fit(p) # {} => \E k \in fit(p) :
                             /\ rule.candidates[k].model = Head(Resolve(name, p))
                             /\ \A j \in fit(p) :
                                  rule.candidates[k].max <= rule.candidates[j].max
                       /\ \A q \in Prompts : q <= p =>
                             IsSuffix(Resolve(name, p), Resolve(name, q))
  BY DEF TiersInOrder
<1> DEFINE rule == Chosen(sets[name], name)
           s    == rule.candidates
           F    == rule.fallback
           fit(x) == {k \in DOMAIN s : x <= s[k].max}
<1>1. rule \in Rules /\ rule.strategy = "token_tier"
  BY ResolveParts
<1>2. s \in Seq(Candidates) /\ F \in Seq(Models)
  BY <1>1 DEF Rules
<1>3. ASSUME NEW x \in Prompts
      PROVE  /\ Resolve(name, x) \in Seq(Models)
             /\ Len(Resolve(name, x)) = Cardinality(Fit(s, x)) + Len(F)
             /\ \A n \in 1..Cardinality(Fit(s, x)) :
                   Resolve(name, x)[n] = s[At(s, x, n)].model
             /\ \A n \in 1..Len(F) :
                   Resolve(name, x)[Cardinality(Fit(s, x)) + n] = F[n]
  <2>1. Selected(rule, x) = ByLimit(s, x)
    BY <1>1 DEF Selected
  <2>2. /\ Len(Selected(rule, x)) = Cardinality(Fit(s, x))
        /\ \A n \in 1..Cardinality(Fit(s, x)) : Selected(rule, x)[n] = s[At(s, x, n)]
    <3> HIDE DEF s, rule
    <3> QED
      BY <1>2, <2>1, ByLimitTyped
  <2>3. /\ Resolve(name, x) \in Seq(Models)
        /\ Len(Resolve(name, x)) = Len(Selected(rule, x)) + Len(F)
        /\ \A n \in 1..Len(Selected(rule, x)) :
              Resolve(name, x)[n] = Selected(rule, x)[n].model
        /\ \A n \in 1..Len(F) : Resolve(name, x)[Len(Selected(rule, x)) + n] = F[n]
    BY ResolveParts
  <2> HIDE DEF rule, s, F
  <2> QED
    BY <2>2, <2>3
<1>4. ASSUME NEW x \in Prompts PROVE Fit(s, x) = fit(x)
  <2>1. x \in Nat /\ \A k \in DOMAIN s : s[k].max \in Nat
    <3>1. \A k \in DOMAIN s : s[k] \in Candidates
      BY <1>2
    <3> QED
      BY <3>1, PromptsAreNat, UnlimitedIsNat DEF Candidates
  <2> HIDE DEF s
  <2> QED
    BY <2>1 DEF Fit, Fits
<1> HIDE DEF rule, s, F
<1>5. ASSUME fit(p) # {}
      PROVE  \E k \in fit(p) : /\ s[k].model = Head(Resolve(name, p))
                               /\ \A j \in fit(p) : s[k].max <= s[j].max
  <2>1. Fit(s, p) # {}
    BY <1>4, <1>5
  <2>2. /\ 1 \in 1..Cardinality(Fit(s, p)) /\ At(s, p, 1) \in Fit(s, p)
        /\ \A j \in Fit(s, p) : s[At(s, p, 1)].max <= s[j].max
    BY <1>2, <2>1, FirstIsLeast
  <2>3. Resolve(name, p)[1] = s[At(s, p, 1)].model
    BY <1>3, <2>2
  <2>4. Cardinality(Fit(s, p)) \in Nat /\ Len(F) \in Nat
    BY <1>2, FitTyped
  <2>5. Resolve(name, p) \in Seq(Models) /\ Len(Resolve(name, p)) # 0
    BY <1>3, <2>2, <2>4
  <2>6. Head(Resolve(name, p)) = Resolve(name, p)[1]
    BY <2>5
  <2> QED
    BY <1>4, <2>2, <2>3, <2>6
<1>6. ASSUME NEW q \in Prompts, q <= p
      PROVE  IsSuffix(Resolve(name, p), Resolve(name, q))
  <2>1. p \in Nat /\ q \in Nat
    BY PromptsAreNat
  <2>2. PICK d \in Nat :
           /\ Cardinality(Fit(s, q)) = Cardinality(Fit(s, p)) + d
           /\ \A n \in 1..Cardinality(Fit(s, p)) : At(s, p, n) = At(s, q, n + d)
    BY <1>2, <1>6, <2>1, LongerIsEnd
  <2>3. /\ Cardinality(Fit(s, p)) \in Nat /\ Cardinality(Fit(s, q)) \in Nat
        /\ Len(F) \in Nat
    BY <1>2, FitTyped
  <2>4. ASSUME NEW n \in 1..Len(Resolve(name, p))
        PROVE  Resolve(name, p)[n] = Resolve(name, q)[n + d]
    <3>1. n \in 1..(Cardinality(Fit(s, p)) + Len(F))
      BY <1>3
    <3>2. CASE n <= Cardinality(Fit(s, p))
      <4>1. n \in 1..Cardinality(Fit(s, p)) /\ n + d \in 1..Cardinality(Fit(s, q))
        BY <2>2, <2>3, <3>1, <3>2
      <4>2. Resolve(name, p)[n] = s[At(s, p, n)].model
        BY <1>3, <4>1
      <4>3. Resolve(name, q)[n + d] = s[At(s, q, n + d)].model
        BY <1>3, <4>1
      <4> QED
        BY <2>2, <4>1, <4>2, <4>3
    <3>3. CASE ~(n <= Cardinality(Fit(s, p)))
      <4>1. PICK m \in 1..Len(F) : n = Cardinality(Fit(s, p)) + m
        <5>1. n - Cardinality(Fit(s, p)) \in 1..Len(F)
          BY <2>3, <3>1, <3>3
        <5>2. n = Cardinality(Fit(s, p)) + (n - Cardinality(Fit(s, p)))
          BY <2>3, <3>1
        <5> QED
          BY <5>1, <5>2
      <4>2. n + d = Cardinality(Fit(s, q)) + m
        BY <2>2, <2>3, <4>1
      <4>3. Resolve(name, p)[n] = F[m] /\ Resolve(name, q)[n + d] = F[m]
        BY <1>3, <4>1, <4>2
      <4> QED
        BY <4>3
    <3> QED
      BY <3>2, <3>3
  <2>5. /\ Resolve(name, p) \in Seq(Models) /\ Resolve(name, q) \in Seq(Models)
        /\ Len(Resolve(name, q)) = Len(Resolve(name, p)) + d
    BY <1>3, <2>2, <2>3
  <2> QED
    BY <2>4, <2>5, SuffixByIndex
<1> QED
  BY <1>5, <1>6 DEF rule, s

-----------------------------------------------------------------------------
(***************************************************************************)
(* route                                                                   *)
(***************************************************************************)

LEMMA TablesTyped ==
    ASSUME NEW t \in Tables
    PROVE  /\ t \in Seq(Entries) /\ Len(t) \in Nat /\ DOMAIN t = 1..Len(t)
           /\ \A i \in DOMAIN t : t[i].id \in Ids
<1>1. t \in Seq(Entries)
  BY RoutingConstants
<1>2. Len(t) \in Nat /\ DOMAIN t = 1..Len(t) /\ \A i \in DOMAIN t : t[i] \in Entries
  BY <1>1
<1> QED
  BY <1>1, <1>2 DEF Entries

LEMMA LatestOf ==
    ASSUME NEW n \in Nat, NEW I \in SUBSET (1..n), I # {}
    PROVE  Latest(I) \in I /\ \A j \in I : j <= Latest(I)
<1> DEFINE N == {n - i : i \in I}
<1>1. PICK m \in N : \A k \in N : m <= k
  <2>1. \A i \in I : n - i \in Nat
    <3>1. \A i \in I : i \in 1..n
      OBVIOUS
    <3>2. \A i \in 1..n : n - i \in Nat
      OBVIOUS
    <3> QED
      BY <3>1, <3>2
  <2>2. N \in SUBSET Nat /\ N # {}
    BY <2>1
  <2> HIDE DEF N
  <2> QED
    BY <2>2, Least
<1>2. PICK i \in I : m = n - i
  BY <1>1
<1>3. ASSUME NEW j \in I PROVE j <= i
  <2>1. n - i <= n - j
    BY <1>1, <1>2
  <2>2. i \in Nat /\ j \in Nat
    OBVIOUS
  <2> QED
    BY <2>1, <2>2
<1> QED
  BY <1>3 DEF Latest

\* What route gives, by cases: the last one that has the model, if it is in
\* service; where none has it, one that is in service
LEMMA PlaceIs ==
    ASSUME NEW t \in Tables, NEW m
    PROVE  /\ Serving(t, m) # {} =>
                 /\ Latest(Serving(t, m)) \in Serving(t, m)
                 /\ Place(t, m) = IF Removed(t, Latest(Serving(t, m))) THEN 0
                                  ELSE Latest(Serving(t, m))
           /\ Serving(t, m) = {} /\ Place(t, m) # 0 =>
                 Place(t, m) \in DOMAIN t /\ ~Removed(t, Place(t, m))
<1>1. Len(t) \in Nat /\ DOMAIN t = 1..Len(t)
  BY TablesTyped
<1> DEFINE prefixed == {i \in Prefixed(t, m) : /\ i = Latest(Prefixed(t, m))
                                               /\ ~Removed(t, i)}
           alone    == {i \in DOMAIN t : Len(t) = 1}
<1>2. CASE Serving(t, m) # {}
  <2>1. Serving(t, m) \in SUBSET (1..Len(t))
    BY <1>1 DEF Serving
  <2>2. Latest(Serving(t, m)) \in Serving(t, m)
    BY <1>1, <1>2, <2>1, LatestOf
  <2> DEFINE l == Latest(Serving(t, m))
  <2>3. Place(t, m) = IF \E i \in {l} : ~Removed(t, i)
                      THEN CHOOSE i \in {l} : TRUE ELSE 0
    BY <1>2 DEF Place
  <2>4. (CHOOSE i \in {l} : TRUE) = l
    OBVIOUS
  <2> HIDE DEF l
  <2>5. Place(t, m) = IF Removed(t, l) THEN 0 ELSE l
    BY <2>3, <2>4
  <2> QED
    BY <1>2, <2>2, <2>5 DEF l
<1>3. CASE Serving(t, m) = {}
  <2> DEFINE found == IF prefixed # {} THEN prefixed ELSE alone
  <2>1. Place(t, m) = IF \E i \in found : ~Removed(t, i)
                      THEN CHOOSE i \in found : TRUE ELSE 0
    BY <1>3 DEF Place
  <2>2. found \subseteq DOMAIN t
    BY DEF Prefixed
  <2>3. ASSUME \E i \in found : ~Removed(t, i) PROVE \A i \in found : ~Removed(t, i)
    <3>1. CASE prefixed # {}
      BY <3>1
    <3>2. CASE prefixed = {}
      <4>1. ASSUME NEW i \in alone, NEW j \in alone PROVE i = j
        <5>1. Len(t) = 1 /\ i \in 1..Len(t) /\ j \in 1..Len(t)
          BY <1>1
        <5>2. i \in 1..1 /\ j \in 1..1
          BY <5>1
        <5> QED
          BY <5>2
      <4> QED
        BY <2>3, <3>2, <4>1
    <3> QED
      BY <3>1, <3>2
  <2> HIDE DEF found, prefixed, alone
  <2> QED
    BY <1>3, <2>1, <2>2, <2>3
<1> QED
  BY <1>2, <1>3

\* The only back end that has a model, and is in service, is chosen for it
LEMMA OneServer ==
    ASSUME NEW t \in Tables, NEW m, NEW x, Serving(t, m) = {x}, ~Removed(t, x)
    PROVE  Place(t, m) = x /\ x # 0 /\ x \in DOMAIN t
<1>1. Latest(Serving(t, m)) = x
  BY PlaceIs
<1>2. Place(t, m) = x
  BY <1>1, PlaceIs
<1>3. x \in DOMAIN t
  BY DEF Serving
<1> QED
  BY <1>2, <1>3, TablesTyped

LEMMA RoutesSound == RoutingTypeOK => RouteIsSound
<1> SUFFICES ASSUME RoutingTypeOK, NEW m \in Models
             PROVE  /\ Place(table, m) # 0 =>
                          /\ ~Removed(table, Place(table, m))
                          /\ Serving(table, m) # {} => Place(table, m) \in Serving(table, m)
                    /\ m \in Catalog(table) /\ Cardinality(Serving(table, m)) = 1 =>
                          Serving(table, m) = {Place(table, m)}
  BY DEF RouteIsSound
<1>1. table \in Tables
  BY DEF RoutingTypeOK
<1>2. ASSUME Place(table, m) # 0
      PROVE  /\ ~Removed(table, Place(table, m))
             /\ Serving(table, m) # {} => Place(table, m) \in Serving(table, m)
  <2>1. CASE Serving(table, m) # {}
    BY <1>1, <1>2, <2>1, PlaceIs
  <2>2. CASE Serving(table, m) = {}
    BY <1>1, <1>2, <2>2, PlaceIs
  <2> QED
    BY <2>1, <2>2
<1>3. ASSUME m \in Catalog(table), Cardinality(Serving(table, m)) = 1
      PROVE  Serving(table, m) = {Place(table, m)}
  <2>1. IsFiniteSet(Serving(table, m))
    <3>1. IsFiniteSet(DOMAIN table)
      BY <1>1, TablesTyped, FS_Interval
    <3> QED
      BY <3>1, FS_Subset DEF Serving
  <2>2. PICK x : Serving(table, m) = {x}
    BY <1>3, <2>1, FS_Singleton
  <2>3. PICK j \in DOMAIN table : ~Removed(table, j) /\ m \in table[j].models
    BY <1>3 DEF Catalog
  <2>4. j = x
    BY <2>2, <2>3 DEF Serving
  <2> QED
    BY <1>1, <2>2, <2>3, <2>4, OneServer
<1> QED
  BY <1>2, <1>3

LEMMA ReachablePlaced ==
    ASSUME RoutingTypeOK, NEW m \in Reachable
    PROVE  Place(table, m) # 0
<1>1. table \in Tables
  BY DEF RoutingTypeOK
<1>2. IsFiniteSet(Serving(table, m))
  <2>1. IsFiniteSet(DOMAIN table)
    BY <1>1, TablesTyped, FS_Interval
  <2> QED
    BY <2>1, FS_Subset DEF Serving
<1>3. PICK x : Serving(table, m) = {x}
  BY <1>2, FS_Singleton DEF Reachable
<1>4. ~Removed(table, x)
  BY <1>3 DEF Reachable
<1> QED
  BY <1>1, <1>3, <1>4, OneServer

-----------------------------------------------------------------------------
(***************************************************************************)
(* The types of Routing                                                    *)
(***************************************************************************)

\* A save that is under way has rule sets to save
SetterOK(k) == k \in Setter /\ (k.step # "idle" => k.new \in RuleSets)

CallOK(k) == k \in Call /\ (k.step = "chat" => k.server \in Ids)

RoutingTyped == RoutingTypeOK /\ \A s \in Setters : SetterOK(setter[s])

LEMMA IdleOK == CallOK(NoCall) /\ SetterOK(NoSetter)
BY DEF CallOK, NoCall, Call, SetterOK, NoSetter, Setter

LEMMA RoutingInitTyped == RoutingInit => RoutingTyped
<1> SUFFICES ASSUME RoutingInit PROVE RoutingTyped
  OBVIOUS
<1>1. call \in [Clients -> Call] /\ \A c \in Clients : CallOK(call[c])
  BY IdleOK DEF RoutingInit, CallOK
<1>2. setter \in [Setters -> Setter] /\ \A s \in Setters : SetterOK(setter[s])
  BY IdleOK DEF RoutingInit, SetterOK
<1> QED
  BY <1>1, <1>2 DEF RoutingInit, RoutingTyped, RoutingTypeOK, CallOK

\* A step of one request
LEMMA CallTyped ==
    ASSUME RoutingTyped, NEW c \in Clients, NEW k, CallOK(k), NEW S \in SUBSET Models,
           call' = [call EXCEPT ![c] = k],
           reach' = [reach EXCEPT ![c] = S] \/ reach' = reach, UNCHANGED Others
    PROVE  RoutingTyped'
<1>1. call' \in [Clients -> Call] /\ \A d \in Clients : CallOK(call'[d])
  BY DEF RoutingTyped, RoutingTypeOK, CallOK
<1>2. reach' \in [Clients -> SUBSET Models]
  BY DEF RoutingTyped, RoutingTypeOK
<1> QED
  BY <1>1, <1>2 DEF RoutingTyped, RoutingTypeOK, CallOK, Others, SetterOK

LEMMA TodoParts ==
    ASSUME NEW s \in Seq(Models), s # <<>>
    PROVE  /\ Head(s) \in Models /\ Tail(s) \in Seq(Models)
           /\ ToSet(s) \subseteq {Head(s)} \cup ToSet(Tail(s))
<1>1. /\ Head(s) \in Models /\ Tail(s) \in Seq(Models) /\ Len(Tail(s)) = Len(s) - 1
      /\ \A i \in 1..Len(Tail(s)) : Tail(s)[i] = s[i + 1]
  BY HeadTailProperties
<1>2. ASSUME NEW i \in DOMAIN s PROVE s[i] \in {Head(s)} \cup ToSet(Tail(s))
  <2>1. i \in 1..Len(s) /\ Len(s) \in Nat
    OBVIOUS
  <2>2. CASE i = 1
    BY <2>2
  <2>3. CASE i # 1
    <3>1. i - 1 \in 1..Len(Tail(s)) /\ i - 1 + 1 = i
      BY <1>1, <2>1, <2>3
    <3>2. Tail(s)[i - 1] = s[i]
      BY <1>1, <3>1
    <3>3. i - 1 \in DOMAIN Tail(s)
      BY <1>1, <3>1
    <3> QED
      BY <3>2, <3>3 DEF ToSet
  <2> QED
    BY <2>2, <2>3
<1> QED
  BY <1>1, <1>2 DEF ToSet

\* A request starts with candidates that are models
LEMMA RequestTodo ==
    ASSUME RoutingTypeOK, NEW name \in Models, NEW prompt, NEW one \in BOOLEAN
    PROVE  LET found == Resolve(name, prompt)
               all   == IF found = <<>> THEN <<name>> ELSE found
           IN (IF one THEN <<Head(all)>> ELSE all) \in Seq(Models)
<1> DEFINE found == Resolve(name, prompt)
           all   == IF found = <<>> THEN <<name>> ELSE found
<1>1. found \in Seq(Models)
  BY ResolveTyped
<1> HIDE DEF found
<1>2. all \in Seq(Models) /\ all # <<>>
  BY <1>1
<1>3. Head(all) \in Models
  BY <1>2, TodoParts
<1> HIDE DEF all
<1>4. <<Head(all)>> \in Seq(Models)
  BY <1>3
<1> QED
  BY <1>2, <1>4 DEF all, found

LEMMA ServeTyped ==
    ASSUME RoutingTyped, NEW c \in Clients, Serve(c)
    PROVE  RoutingTyped'
<1> DEFINE k == call[c]
<1>0. CallOK(k) /\ k \in Call /\ k.todo \in Seq(Models)
  BY DEF RoutingTyped, RoutingTypeOK, CallOK, Call
<1>1. CASE Request(c)
  <2>1. PICK name \in Models, prompt \in Prompts, one \in BOOLEAN :
          LET found  == Resolve(name, prompt)
              all    == IF found = <<>> THEN <<name>> ELSE found
              wanted == IF one THEN <<Head(all)>> ELSE all
          IN /\ call' = [call EXCEPT ![c] = [NoCall EXCEPT !.step = "route",
                                       !.todo = wanted, !.byRule = found # <<>>]]
             /\ reach' = [reach EXCEPT ![c] = Reachable \cap ToSet(wanted)]
             /\ UNCHANGED Others
    BY <1>1 DEF Request
  <2> DEFINE found  == Resolve(name, prompt)
             all    == IF found = <<>> THEN <<name>> ELSE found
             wanted == IF one THEN <<Head(all)>> ELSE all
  <2>2. wanted \in Seq(Models)
    BY RequestTodo DEF RoutingTyped
  <2>3. CallOK([NoCall EXCEPT !.step = "route", !.todo = wanted, !.byRule = found # <<>>])
    <3> HIDE DEF wanted, found
    <3> QED
      BY <2>2, IdleOK DEF CallOK, Call, NoCall
  <2>4. Reachable \cap ToSet(wanted) \in SUBSET Models
    BY DEF Reachable
  <2>5. /\ call' = [call EXCEPT ![c] = [NoCall EXCEPT !.step = "route",
                                       !.todo = wanted, !.byRule = found # <<>>]]
        /\ reach' = [reach EXCEPT ![c] = Reachable \cap ToSet(wanted)]
        /\ UNCHANGED Others
    BY <2>1
  <2> HIDE DEF wanted, found
  <2> QED
    BY <2>3, <2>4, <2>5, CallTyped
<1>2. CASE Ask(c)
  <2> DEFINE m == Head(k.todo)
             i == Place(table, m)
  <2>1. m \in Models /\ Tail(k.todo) \in Seq(Models)
    BY <1>0, <1>2, TodoParts DEF Ask
  <2>2. table[i].id \in Ids
    <3>1. table \in Tables /\ i # 0
      BY <1>2 DEF RoutingTyped, RoutingTypeOK, Ask
    <3>2. i \in DOMAIN table
      <4>1. CASE Serving(table, m) # {}
        BY <3>1, <4>1, PlaceIs DEF Serving
      <4>2. CASE Serving(table, m) = {}
        BY <3>1, <4>2, PlaceIs
      <4> QED
        BY <4>1, <4>2
    <3> QED
      BY <3>1, <3>2, TablesTyped
  <2> DEFINE r == [k EXCEPT !.step = "chat", !.todo = Tail(k.todo),
                            !.server = table[i].id, !.tried = k.tried \cup {m}]
  <2>3. CallOK(r)
    <3> HIDE DEF m, i
    <3> QED
      BY <1>0, <2>1, <2>2 DEF CallOK, Call
  <2>4. call' = [call EXCEPT ![c] = r] /\ reach' = reach /\ UNCHANGED Others
    BY <1>2, Zenon DEF Ask
  <2> HIDE DEF r
  <2> QED
    BY <2>3, <2>4, CallTyped
<1>3. CASE Skip(c)
  <2>1. Tail(k.todo) \in Seq(Models)
    BY <1>0, <1>3, TodoParts DEF Skip
  <2>2. CallOK([k EXCEPT !.todo = Tail(k.todo)])
    BY <1>0, <2>1 DEF CallOK, Call
  <2>3. call' = [call EXCEPT ![c] = [k EXCEPT !.todo = Tail(k.todo)]]
    BY <1>3, Zenon DEF Skip
  <2> QED
    BY <1>3, <2>2, <2>3, CallTyped DEF Skip
<1>4. CASE NotAvailable(c) \/ ChatEnds(c) \/ Reply(c)
  BY <1>4, IdleOK, CallTyped DEF NotAvailable, ChatEnds, Reply, End
<1>5. CASE ChatFails(c)
  <2>1. CallOK([k EXCEPT !.step = "route", !.server = Nothing])
    BY <1>0 DEF CallOK, Call
  <2>2. call' = [call EXCEPT ![c] = [k EXCEPT !.step = "route", !.server = Nothing]]
    BY <1>5, Zenon DEF ChatFails
  <2> QED
    BY <1>5, <2>1, <2>2, CallTyped DEF ChatFails
<1>6. CASE GiveUp(c)
  <2>1. CallOK([k EXCEPT !.step = "failed"])
    BY <1>0 DEF CallOK, Call
  <2>2. call' = [call EXCEPT ![c] = [k EXCEPT !.step = "failed"]]
    BY <1>6, Zenon DEF GiveUp
  <2> QED
    BY <1>6, <2>1, <2>2, CallTyped DEF GiveUp
<1> QED
  BY <1>1, <1>2, <1>3, <1>4, <1>5, <1>6 DEF Serve

\* A step of one save
LEMMA SetterTyped ==
    ASSUME RoutingTyped, NEW s \in Setters, NEW k, SetterOK(k),
           setter' = [setter EXCEPT ![s] = k], UNCHANGED Rest,
           sets' \in RuleSets \cup {NoRules}, file' \in RuleSets \cup {Nothing},
           tmp' \in RuleSets \cup {Nothing}, mixed' \in BOOLEAN
    PROVE  RoutingTyped'
<1>1. setter' \in [Setters -> Setter] /\ \A o \in Setters : SetterOK(setter'[o])
  BY DEF RoutingTyped, RoutingTypeOK, SetterOK
<1>2. /\ table' \in Tables /\ removed' \subseteq Ids
      /\ call' \in [Clients -> Call]
      /\ \A c \in Clients : call'[c].step = "chat" => call'[c].server \in Ids
      /\ reach' \in [Clients -> SUBSET Models]
  BY DEF RoutingTyped, RoutingTypeOK, Rest
<1> QED
  BY <1>1, <1>2 DEF RoutingTyped, RoutingTypeOK

\* What a step of a save does to its own frame
LEMMA SetterStep ==
    ASSUME RoutingTyped, NEW s \in Setters
    PROVE  /\ setter[s] \in Setter
           /\ setter[s].step # "idle" => setter[s].new \in RuleSets
           /\ \A x \in {"remove", "rename", "load"} : setter[s].step # "idle" =>
                 SetterOK([setter[s] EXCEPT !.step = x])
BY DEF RoutingTyped, RoutingTypeOK, SetterOK, Setter

LEMMA SaveTyped ==
    ASSUME RoutingTyped, NEW s \in Setters, Save(s)
    PROVE  RoutingTyped'
<1> DEFINE k == setter[s]
<1>0. /\ sets \in RuleSets \cup {NoRules} /\ file \in RuleSets \cup {Nothing}
      /\ tmp \in RuleSets \cup {Nothing} /\ mixed \in BOOLEAN
  BY DEF RoutingTyped, RoutingTypeOK
<1>1. CASE BeginSave(s)
  <2>1. PICK new \in RuleSets :
           /\ setter' = [setter EXCEPT ![s] = [step |-> "write", new |-> new]]
           /\ mixed' = (mixed \/ ~Alone(s))
           /\ UNCHANGED <<sets, file, tmp, Rest>>
    BY <1>1 DEF BeginSave
  <2>2. SetterOK([step |-> "write", new |-> new])
    BY DEF SetterOK, Setter
  <2>3. mixed' \in BOOLEAN
    BY <2>1
  <2> QED
    BY <1>0, <2>1, <2>2, <2>3, SetterTyped
<1>2. CASE WriteTmp(s)
  <2>1. setter' = [setter EXCEPT ![s] = [k EXCEPT !.step = "remove"]]
    BY <1>2, Zenon DEF WriteTmp
  <2> QED
    BY <1>0, <1>2, <2>1, SetterStep, SetterTyped DEF WriteTmp
<1>3. CASE WriteFails(s)
  <2>1. setter' = [setter EXCEPT ![s] = [k EXCEPT !.step = "load"]]
    BY <1>3, Zenon DEF WriteFails
  <2> QED
    BY <1>0, <1>3, <2>1, SetterStep, SetterTyped DEF WriteFails
<1>4. CASE RemoveFile(s)
  <2>1. setter' = [setter EXCEPT ![s] = [k EXCEPT !.step = "rename"]]
    BY <1>4, Zenon DEF RemoveFile
  <2> QED
    BY <1>0, <1>4, <2>1, SetterStep, SetterTyped DEF RemoveFile
<1>5. CASE RenameTmp(s)
  <2>1. setter' = [setter EXCEPT ![s] = [k EXCEPT !.step = "load"]]
    BY <1>5, Zenon DEF RenameTmp
  <2>2. /\ mixed' \in BOOLEAN /\ UNCHANGED <<sets, Rest>> /\ tmp' = Nothing
        /\ file' \in RuleSets \cup {Nothing} /\ k.step = "rename"
    BY <1>0, <1>5 DEF RenameTmp
  <2> QED
    BY <1>0, <2>1, <2>2, SetterStep, SetterTyped
<1>6. CASE RenameFails(s)
  <2>1. setter' = [setter EXCEPT ![s] = [k EXCEPT !.step = "load"]]
    BY <1>6, Zenon DEF RenameFails
  <2> QED
    BY <1>0, <1>6, <2>1, SetterStep, SetterTyped DEF RenameFails
<1>7. CASE Load(s)
  BY <1>0, <1>7, IdleOK, SetterStep, SetterTyped DEF Load
<1> QED
  BY <1>1, <1>2, <1>3, <1>4, <1>5, <1>6, <1>7 DEF Save

LEMMA OthersTyped ==
    ASSUME RoutingTyped, Replace \/ Polling \/ Restart
    PROVE  RoutingTyped'
<1>1. CASE Replace \/ Polling
  <2>1. /\ table' \in Tables /\ removed' \subseteq Ids
        /\ UNCHANGED <<sets, file, tmp, setter, call, mixed>>
    BY <1>1 DEF Replace, Polling, RoutingTyped, RoutingTypeOK
  <2>2. reach' \in [Clients -> SUBSET Models]
    BY <1>1 DEF Replace, Polling, StillReached, RoutingTyped, RoutingTypeOK
  <2> QED
    BY <2>1, <2>2 DEF RoutingTyped, RoutingTypeOK
<1>2. CASE Restart
  <2>1. call' \in [Clients -> Call] /\ \A c \in Clients : CallOK(call'[c])
    BY <1>2, IdleOK DEF Restart, CallOK
  <2>2. setter' \in [Setters -> Setter] /\ \A s \in Setters : SetterOK(setter'[s])
    BY <1>2, IdleOK DEF Restart, SetterOK
  <2>3. reach' \in [Clients -> SUBSET Models] /\ sets' \in RuleSets \cup {NoRules}
    BY <1>2 DEF Restart, RoutingTyped, RoutingTypeOK
  <2> QED
    BY <1>2, <2>1, <2>2, <2>3 DEF Restart, RoutingTyped, RoutingTypeOK, CallOK
<1> QED
  BY <1>1, <1>2

LEMMA RoutingStepTyped == RoutingTyped /\ [RoutingNext]_routingVars => RoutingTyped'
<1> SUFFICES ASSUME RoutingTyped, [RoutingNext]_routingVars PROVE RoutingTyped'
  OBVIOUS
<1>1. CASE UNCHANGED routingVars
  BY <1>1 DEF routingVars, RoutingTyped, RoutingTypeOK, SetterOK
<1> QED
  BY <1>1, ServeTyped, SaveTyped, OthersTyped DEF RoutingNext

\* The types hold in every state
THEOREM RoutingTypes == RoutingSpec => []RoutingTypeOK
<1>1. RoutingTyped => RoutingTypeOK
  BY DEF RoutingTyped
<1> QED
  BY <1>1, RoutingInitTyped, RoutingStepTyped, PTL DEF RoutingSpec

\* Whatever a table of back ends is replaced by and polling takes out: no model goes
\* to a back end that is out of service, or, where some back end has it, to one that
\* has it not, and the only back end of a model in the catalog gets it
THEOREM RoutesAreSound == RoutingSpec => []RouteIsSound
<1>1. RoutingTyped => RouteIsSound
  BY RoutesSound DEF RoutingTyped
<1> QED
  BY <1>1, RoutingInitTyped, RoutingStepTyped, PTL DEF RoutingSpec

\* For all rule sets, limits and prompts: token_tier gives the least tier that holds
\* the prompt first, and to a longer prompt an end of what a shorter one gets
THEOREM TiersAreSorted == RoutingSpec => []TiersInOrder
<1>1. RoutingTyped => TiersInOrder
  BY TiersSorted DEF RoutingTyped
<1> QED
  BY <1>1, RoutingInitTyped, RoutingStepTyped, PTL DEF RoutingSpec

-----------------------------------------------------------------------------
(***************************************************************************)
(* The candidates of a request: what could be reached all the time was     *)
(* asked for, or is still to come                                          *)
(***************************************************************************)

Pursued(k, S) == /\ S \subseteq k.tried \cup ToSet(k.todo)
                 /\ k.step = "failed" => k.todo = <<>>

TriedInv == \A c \in Clients : reach[c] \subseteq Reachable /\ Pursued(call[c], reach[c])

LEMMA ToSetOfNone == ToSet(<<>>) = {}
BY DEF ToSet

LEMMA PursuedNothing == Pursued(NoCall, {})
BY DEF Pursued, NoCall

\* A step of one request
LEMMA PursuedAt ==
    ASSUME RoutingTyped, TriedInv, NEW c \in Clients, NEW k, NEW S,
           call' = [call EXCEPT ![c] = k], reach' = [reach EXCEPT ![c] = S],
           UNCHANGED Others, S \subseteq Reachable, Pursued(k, S)
    PROVE  TriedInv'
<1>1. Reachable' = Reachable
  BY DEF Others, Reachable, Serving, Removed
<1>2. ASSUME NEW d \in Clients
      PROVE  reach'[d] \subseteq Reachable /\ Pursued(call'[d], reach'[d])
  <2>1. /\ call'[d] = IF d = c THEN k ELSE call[d]
        /\ reach'[d] = IF d = c THEN S ELSE reach[d]
    BY DEF RoutingTyped, RoutingTypeOK
  <2> QED
    BY <2>1 DEF TriedInv
<1>3. \A d \in Clients : Pursued(call[d], reach[d])' <=> Pursued(call'[d], reach'[d])
  BY DEF Pursued
<1> QED
  BY <1>1, <1>2, <1>3 DEF TriedInv

LEMMA ServeTried == ASSUME RoutingTyped, TriedInv, NEW c \in Clients, Serve(c) PROVE TriedInv'
<1> DEFINE k == call[c]
<1>0. /\ k \in Call /\ k.todo \in Seq(Models)
      /\ reach[c] \subseteq Reachable /\ Pursued(k, reach[c])
      /\ [reach EXCEPT ![c] = reach[c]] = reach
  BY DEF RoutingTyped, RoutingTypeOK, Call, TriedInv
<1>1. CASE Request(c)
  <2>1. PICK name \in Models, prompt \in Prompts, one \in BOOLEAN :
          LET found  == Resolve(name, prompt)
              all    == IF found = <<>> THEN <<name>> ELSE found
              wanted == IF one THEN <<Head(all)>> ELSE all
          IN /\ call' = [call EXCEPT ![c] = [NoCall EXCEPT !.step = "route",
                                       !.todo = wanted, !.byRule = found # <<>>]]
             /\ reach' = [reach EXCEPT ![c] = Reachable \cap ToSet(wanted)]
             /\ UNCHANGED Others
    BY <1>1 DEF Request
  <2> DEFINE found  == Resolve(name, prompt)
             all    == IF found = <<>> THEN <<name>> ELSE found
             wanted == IF one THEN <<Head(all)>> ELSE all
             r      == [NoCall EXCEPT !.step = "route", !.todo = wanted,
                                      !.byRule = found # <<>>]
             S      == Reachable \cap ToSet(wanted)
  <2>2. call' = [call EXCEPT ![c] = r] /\ reach' = [reach EXCEPT ![c] = S]
        /\ UNCHANGED Others
    BY <2>1
  <2>3. r.todo = wanted /\ r.step = "route" /\ r.tried = {}
    <3> HIDE DEF wanted, found
    <3> QED
      BY DEF NoCall
  <2>4. Pursued(r, S) /\ S \subseteq Reachable
    <3> HIDE DEF wanted, r
    <3> QED
      BY <2>3 DEF Pursued
  <2> HIDE DEF r, S
  <2> QED
    BY <2>2, <2>4, PursuedAt
<1>2. CASE Ask(c)
  <2> DEFINE i == Place(table, Head(k.todo))
             r == [k EXCEPT !.step = "chat", !.todo = Tail(k.todo),
                            !.server = table[i].id, !.tried = k.tried \cup {Head(k.todo)}]
  <2>1. call' = [call EXCEPT ![c] = r] /\ reach' = reach /\ UNCHANGED Others
    BY <1>2, Zenon DEF Ask
  <2>2. /\ r.todo = Tail(k.todo) /\ r.step = "chat"
        /\ r.tried = k.tried \cup {Head(k.todo)}
    <3> HIDE DEF i
    <3> QED
      BY <1>0 DEF Call
  <2>3. ToSet(k.todo) \subseteq {Head(k.todo)} \cup ToSet(Tail(k.todo))
    BY <1>0, <1>2, TodoParts DEF Ask
  <2>4. Pursued(r, reach[c])
    <3> HIDE DEF r
    <3> QED
      BY <1>0, <2>2, <2>3 DEF Pursued
  <2> HIDE DEF r
  <2> QED
    BY <1>0, <2>1, <2>4, PursuedAt
<1>3. CASE Skip(c)
  <2> DEFINE r == [k EXCEPT !.todo = Tail(k.todo)]
  <2>1. call' = [call EXCEPT ![c] = r] /\ reach' = reach /\ UNCHANGED Others
    BY <1>3, Zenon DEF Skip
  <2>2. r.todo = Tail(k.todo) /\ r.step = "route" /\ r.tried = k.tried
    BY <1>0, <1>3 DEF Call, Skip
  <2>3. ToSet(k.todo) \subseteq {Head(k.todo)} \cup ToSet(Tail(k.todo))
    BY <1>0, <1>3, TodoParts DEF Skip
  <2>4. Head(k.todo) \notin Reachable
    BY <1>3, ReachablePlaced DEF Skip, RoutingTyped
  <2>5. Pursued(r, reach[c])
    <3> HIDE DEF r
    <3> QED
      BY <1>0, <2>2, <2>3, <2>4 DEF Pursued
  <2> HIDE DEF r
  <2> QED
    BY <1>0, <2>1, <2>5, PursuedAt
<1>4. CASE NotAvailable(c) \/ ChatEnds(c) \/ Reply(c)
  <2>1. End(c)
    BY <1>4 DEF NotAvailable, ChatEnds, Reply
  <2> QED
    BY <2>1, PursuedNothing, PursuedAt DEF End
<1>5. CASE ChatFails(c)
  <2> DEFINE r == [k EXCEPT !.step = "route", !.server = Nothing]
  <2>1. call' = [call EXCEPT ![c] = r] /\ reach' = reach /\ UNCHANGED Others
    BY <1>5, Zenon DEF ChatFails
  <2>2. Pursued(r, reach[c])
    BY <1>0 DEF Call, Pursued
  <2> HIDE DEF r
  <2> QED
    BY <1>0, <2>1, <2>2, PursuedAt
<1>6. CASE GiveUp(c)
  <2> DEFINE r == [k EXCEPT !.step = "failed"]
  <2>1. call' = [call EXCEPT ![c] = r] /\ reach' = reach /\ UNCHANGED Others
    BY <1>6, Zenon DEF GiveUp
  <2>2. Pursued(r, reach[c])
    BY <1>0, <1>6 DEF Call, Pursued, GiveUp
  <2> HIDE DEF r
  <2> QED
    BY <1>0, <2>1, <2>2, PursuedAt
<1> QED
  BY <1>1, <1>2, <1>3, <1>4, <1>5, <1>6 DEF Serve

LEMMA OthersTried ==
    ASSUME RoutingTyped, TriedInv,
           (\E s \in Setters : Save(s)) \/ Replace \/ Polling \/ Restart
    PROVE  TriedInv'
<1>1. CASE \E s \in Setters : Save(s)
  <2>1. UNCHANGED Rest
    BY <1>1 DEF Save, BeginSave, WriteTmp, WriteFails, RemoveFile, RenameTmp,
                RenameFails, Load
  <2>2. Reachable' = Reachable
    BY <2>1 DEF Rest, Reachable, Serving, Removed
  <2> QED
    BY <2>1, <2>2 DEF Rest, TriedInv, Pursued
<1>2. CASE Replace \/ Polling
  <2>1. /\ reach' = [c \in Clients |-> reach[c] \cap Reachable']
        /\ call' = call
    BY <1>2 DEF Replace, Polling, StillReached
  <2> QED
    BY <2>1 DEF TriedInv, Pursued
<1>3. CASE Restart
  <2>1. \A c \in Clients : call'[c] = NoCall /\ reach'[c] = {}
    BY <1>3 DEF Restart
  <2> QED
    BY <2>1, PursuedNothing DEF TriedInv, Pursued
<1> QED
  BY <1>1, <1>2, <1>3

LEMMA TriedKept ==
    RoutingTyped /\ TriedInv /\ [RoutingNext]_routingVars => TriedInv'
<1> SUFFICES ASSUME RoutingTyped, TriedInv, [RoutingNext]_routingVars PROVE TriedInv'
  OBVIOUS
<1>1. CASE UNCHANGED routingVars
  <2>1. Reachable' = Reachable
    BY <1>1 DEF routingVars, Reachable, Serving, Removed
  <2> QED
    BY <1>1, <2>1 DEF routingVars, TriedInv, Pursued
<1> QED
  BY <1>1, ServeTried, OthersTried DEF RoutingNext

\* However tables, health states and rule sets change while a request goes from one
\* candidate to the next: when it fails it has asked for every candidate that one
\* back end had, in service, all the time
THEOREM AllCandidatesTried == RoutingSpec => []CandidatesTried
<1>1. RoutingInit => TriedInv
  <2> SUFFICES ASSUME RoutingInit PROVE TriedInv
    OBVIOUS
  <2>1. \A c \in Clients : call[c] = NoCall /\ reach[c] = {}
    BY DEF RoutingInit
  <2> QED
    BY <2>1, PursuedNothing DEF TriedInv
<1>2. TriedInv => CandidatesTried
  BY ToSetOfNone DEF TriedInv, Pursued, CandidatesTried
<1> QED
  BY <1>1, <1>2, RoutingInitTyped, RoutingStepTyped, TriedKept, PTL DEF RoutingSpec

-----------------------------------------------------------------------------
(***************************************************************************)
(* POST /api/rules, and what a crash leaves of it                          *)
(***************************************************************************)

\* What a start would load now
Loaded == IF file = Nothing THEN NoRules ELSE file

\* How far a save has come
SavedSoFar(k) ==
    /\ k.step = "write" => Loaded = sets
    /\ k.step = "remove" => Loaded = sets /\ tmp = k.new
    /\ k.step = "rename" => tmp = k.new
    /\ k.step = "load" => Loaded = k.new

Busy(k) == k.step # "idle"

\* As long as no save failed or met another one
SaveInv ==
    ~mixed => /\ \A s, o \in Setters : Busy(setter[s]) /\ Busy(setter[o]) => s = o
              /\ (\A s \in Setters : ~Busy(setter[s])) => Loaded = sets
              /\ \A s \in Setters : SavedSoFar(setter[s])

\* A step of one save
LEMMA SavedAt ==
    ASSUME RoutingTyped, NEW s \in Setters, NEW k,
           setter' = [setter EXCEPT ![s] = k],
           ~mixed' => /\ Alone(s)
                      /\ Busy(k) => SavedSoFar(k)'
                      /\ ~Busy(k) => Loaded' = sets'
    PROVE  SaveInv'
<1> SUFFICES ASSUME ~mixed'
             PROVE  /\ \A o, x \in Setters : Busy(setter'[o]) /\ Busy(setter'[x]) => o = x
                    /\ (\A o \in Setters : ~Busy(setter'[o])) => Loaded' = sets'
                    /\ \A o \in Setters : SavedSoFar(setter[o])'
  BY DEF SaveInv, Busy
<1>1. \A o \in Setters : setter'[o] = IF o = s THEN k ELSE setter[o]
  BY DEF RoutingTyped, RoutingTypeOK
<1>2. \A o \in Setters : Busy(setter'[o]) => o = s
  BY <1>1 DEF Alone, Busy
<1>3. \A o \in Setters : SavedSoFar(setter[o])'
  <2>1. \A o \in Setters : setter'[o].step = "idle" => SavedSoFar(setter[o])'
    BY DEF SavedSoFar
  <2>2. Busy(k) => SavedSoFar(setter[s])'
    BY <1>1 DEF SavedSoFar
  <2> QED
    BY <1>1, <1>2, <2>1, <2>2 DEF Busy
<1> QED
  BY <1>1, <1>2, <1>3

LEMMA SaveAlone ==
    ASSUME SaveInv, ~mixed, NEW s \in Setters, Busy(setter[s])
    PROVE  Alone(s) /\ SavedSoFar(setter[s])
BY DEF SaveInv, Alone, Busy

LEMMA SaveKept == ASSUME RoutingTyped, SaveInv, NEW s \in Setters, Save(s) PROVE SaveInv'
<1> DEFINE k == setter[s]
<1>0. /\ k \in Setter /\ (Busy(k) => k.new \in RuleSets) /\ mixed \in BOOLEAN
      /\ Nothing \notin RuleSets
  BY RoutingConstants DEF RoutingTyped, RoutingTypeOK, SetterOK, Busy
<1>1. CASE BeginSave(s)
  <2>1. PICK new \in RuleSets :
           /\ setter' = [setter EXCEPT ![s] = [step |-> "write", new |-> new]]
           /\ mixed' = (mixed \/ ~Alone(s))
           /\ UNCHANGED <<sets, file, tmp, Rest>>
    BY <1>1 DEF BeginSave
  <2> DEFINE r == [step |-> "write", new |-> new]
  <2>2. ASSUME ~mixed' PROVE Alone(s) /\ SavedSoFar(r)'
    <3>1. ~mixed /\ Alone(s)
      BY <2>1, <2>2
    <3>2. \A o \in Setters : ~Busy(setter[o])
      BY <1>1, <3>1 DEF Alone, Busy, BeginSave
    <3>3. Loaded = sets
      BY <3>1, <3>2 DEF SaveInv
    <3>4. Loaded' = sets'
      BY <2>1, <3>3 DEF Loaded
    <3> QED
      BY <3>1, <3>4 DEF SavedSoFar
  <2>3. Busy(r)
    BY DEF Busy
  <2> HIDE DEF r
  <2> QED
    BY <2>1, <2>2, <2>3, SavedAt DEF r
<1>2. CASE WriteTmp(s)
  <2>0. PICK r : r = [k EXCEPT !.step = "remove"]
    OBVIOUS
  <2>1. setter' = [setter EXCEPT ![s] = r] /\ Busy(k)
        /\ UNCHANGED <<sets, file, mixed>> /\ tmp' = k.new
    BY <1>2, <2>0, Zenon DEF WriteTmp, Busy
  <2>2. r.step = "remove" /\ r.new = k.new
    BY <1>0, <2>0 DEF Setter
  <2>3. ASSUME ~mixed' PROVE Alone(s) /\ SavedSoFar(r)'
    <3>1. Alone(s) /\ Loaded = sets
      BY <1>2, <2>1, <2>3, SaveAlone DEF SavedSoFar, WriteTmp
    <3> QED
      BY <2>1, <2>2, <3>1 DEF SavedSoFar, Loaded
  <2>4. Busy(r)
    BY <2>2 DEF Busy
  <2> QED
    BY <2>1, <2>3, <2>4, SavedAt
<1>3. CASE WriteFails(s)
  <2>1. PICK r : r = [k EXCEPT !.step = "load"]
    OBVIOUS
  <2>2. setter' = [setter EXCEPT ![s] = r] /\ mixed' = TRUE
    BY <1>3, <2>1, Zenon DEF WriteFails
  <2> QED
    BY <2>2, SavedAt
<1>4. CASE RemoveFile(s)
  <2>0. PICK r : r = [k EXCEPT !.step = "rename"]
    OBVIOUS
  <2>1. setter' = [setter EXCEPT ![s] = r] /\ Busy(k) /\ UNCHANGED <<tmp, mixed>>
    BY <1>4, <2>0, Zenon DEF RemoveFile, Busy
  <2>2. r.step = "rename" /\ r.new = k.new
    BY <1>0, <2>0 DEF Setter
  <2>3. ASSUME ~mixed' PROVE Alone(s) /\ SavedSoFar(r)'
    <3>1. Alone(s) /\ tmp = k.new
      BY <1>4, <2>1, <2>3, SaveAlone DEF SavedSoFar, RemoveFile
    <3> QED
      BY <2>1, <2>2, <3>1 DEF SavedSoFar
  <2>4. Busy(r)
    BY <2>2 DEF Busy
  <2> QED
    BY <2>1, <2>3, <2>4, SavedAt
<1>5. CASE RenameTmp(s)
  <2>0. PICK r : r = [k EXCEPT !.step = "load"]
    OBVIOUS
  <2>1. setter' = [setter EXCEPT ![s] = r] /\ Busy(k)
    BY <1>5, <2>0, Zenon DEF RenameTmp, Busy
  <2>2. r.step = "load" /\ r.new = k.new
    BY <1>0, <2>0 DEF Setter
  <2>3. ASSUME ~mixed' PROVE Alone(s) /\ SavedSoFar(r)'
    <3>1. Alone(s) /\ tmp = k.new
      <4>1. CASE mixed
        BY <1>5, <2>3, <4>1 DEF RenameTmp
      <4>2. CASE ~mixed
        BY <1>5, <2>1, <4>2, SaveAlone DEF SavedSoFar, RenameTmp
      <4> QED
        BY <4>1, <4>2
    <3>2. k.new \in RuleSets /\ tmp # Nothing
      BY <1>0, <2>1, <3>1
    <3>3. file' = k.new
      BY <1>5, <3>1, <3>2 DEF RenameTmp
    <3>4. Loaded' = k.new
      BY <1>0, <3>2, <3>3 DEF Loaded
    <3> QED
      BY <2>2, <3>1, <3>4 DEF SavedSoFar
  <2>4. Busy(r)
    BY <2>2 DEF Busy
  <2> QED
    BY <2>1, <2>3, <2>4, SavedAt
<1>6. CASE RenameFails(s)
  <2>1. PICK r : r = [k EXCEPT !.step = "load"]
    OBVIOUS
  <2>2. setter' = [setter EXCEPT ![s] = r] /\ mixed' = TRUE
    BY <1>6, <2>1, Zenon DEF RenameFails
  <2> QED
    BY <2>2, SavedAt
<1>7. CASE Load(s)
  <2>1. setter' = [setter EXCEPT ![s] = NoSetter] /\ Busy(k)
        /\ UNCHANGED <<file, mixed>> /\ sets' = k.new
    BY <1>7 DEF Load, Busy
  <2>2. ~Busy(NoSetter)
    BY DEF Busy, NoSetter
  <2>3. ASSUME ~mixed' PROVE Alone(s) /\ Loaded' = sets'
    BY <1>7, <2>1, <2>3, SaveAlone DEF SavedSoFar, Loaded, Load
  <2> QED
    BY <2>1, <2>2, <2>3, SavedAt
<1> QED
  BY <1>1, <1>2, <1>3, <1>4, <1>5, <1>6, <1>7 DEF Save

LEMMA SaveUntouched ==
    ASSUME SaveInv, UNCHANGED <<sets, file, tmp, setter, mixed>>
    PROVE  SaveInv'
BY DEF SaveInv, SavedSoFar, Busy, Loaded

LEMMA SaveStep == RoutingTyped /\ SaveInv /\ [RoutingNext]_routingVars => SaveInv'
<1> SUFFICES ASSUME RoutingTyped, SaveInv, [RoutingNext]_routingVars PROVE SaveInv'
  OBVIOUS
<1>1. CASE UNCHANGED routingVars
  BY <1>1, SaveUntouched DEF routingVars
<1>2. ASSUME NEW c \in Clients, Serve(c) PROVE SaveInv'
  <2>1. UNCHANGED Others
    BY <1>2 DEF Serve, Request, Ask, Skip, NotAvailable, ChatFails, ChatEnds, GiveUp,
                Reply, End
  <2> QED
    BY <2>1, SaveUntouched DEF Others
<1>3. CASE Replace \/ Polling
  BY <1>3, SaveUntouched DEF Replace, Polling
<1>4. CASE Restart
  <2>1. \A s \in Setters : setter'[s] = NoSetter
    BY <1>4 DEF Restart
  <2>2. Loaded' = sets'
    BY <1>4 DEF Restart, Loaded
  <2> QED
    BY <2>1, <2>2 DEF SaveInv, SavedSoFar, Busy, NoSetter
<1> QED
  BY <1>1, <1>2, <1>3, <1>4, SaveKept DEF RoutingNext

LEMMA CrashLoads ==
    RoutingTyped /\ SaveInv /\ [RoutingNext]_routingVars =>
      [Restart /\ ~mixed => \/ sets' = sets
                            \/ \E s \in Setters : setter[s].step # "idle" /\
                                 (setter[s].step = "rename" \/ sets' = setter[s].new)
      ]_routingVars
<1> SUFFICES ASSUME RoutingTyped, SaveInv, Restart, ~mixed
             PROVE  \/ sets' = sets
                    \/ \E s \in Setters : setter[s].step # "idle" /\
                         (setter[s].step = "rename" \/ sets' = setter[s].new)
  OBVIOUS
<1>1. sets' = Loaded
  BY DEF Restart, Loaded
<1>2. CASE \A s \in Setters : ~Busy(setter[s])
  BY <1>1, <1>2 DEF SaveInv
<1>3. ASSUME NEW s \in Setters, Busy(setter[s])
      PROVE  sets' = sets \/ setter[s].step = "rename" \/ sets' = setter[s].new
  <2>1. SavedSoFar(setter[s]) /\ setter[s].step \in {"write", "remove", "rename", "load"}
    BY <1>3, SaveAlone DEF RoutingTyped, RoutingTypeOK, Setter, Busy
  <2> QED
    BY <1>1, <2>1 DEF SavedSoFar
<1> QED
  BY <1>2, <1>3 DEF Busy

\* For any rule sets and any number of saves: a crash leaves what was in force or what
\* was being saved, unless it comes between removal and rename, or after a save that
\* failed or met another one and that none has put right since
THEOREM CrashKeepsRuleSets == RoutingSpec => CrashKeepsRules
<1>1. RoutingInit => SaveInv
  <2> SUFFICES ASSUME RoutingInit PROVE SaveInv
    OBVIOUS
  <2>1. \A s \in Setters : setter[s] = NoSetter
    BY DEF RoutingInit
  <2>2. Loaded = sets
    BY DEF RoutingInit, Loaded
  <2> QED
    BY <2>1, <2>2 DEF SaveInv, SavedSoFar, Busy, NoSetter
<1> QED
  BY <1>1, RoutingInitTyped, RoutingStepTyped, SaveStep, CrashLoads, PTL
     DEF RoutingSpec, CrashKeepsRules
=============================================================================
