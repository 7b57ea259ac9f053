--------------------------- MODULE ProcessProofs ---------------------------
(***************************************************************************)
(* What the steps of a process preserve, for every set of runs, pipes and  *)
(* exit statuses and every number of writes.  The modules that run         *)
(* commands (FileOpen, Commands) cite these lemmas in the proofs of their  *)
(* own invariants.                                                         *)
(***************************************************************************)
EXTENDS Process, TLAPS

(* What is known of a run: a block for the main thread is posted for a pipe  *)
(* exactly while its reader waits for it; the handler has been given what    *)
(* was read, and all that was written once the pipe is closed; and the end   *)
(* is posted only when every pipe is.                                        *)
Piped(r) ==
  /\ proc[r].child = "none" => proc[r] = Idle
  /\ proc[r].child = "running" => proc[r].open = Streams
  /\ proc[r].child = "reported" => \A s \in Streams : proc[r].reader[s] = "closed"
  /\ <<r, "exit">> \in posted => proc[r].child = "reported"
  /\ \A s \in Streams :
       /\ <<r, s>> \in posted <=> proc[r].reader[s] = "waiting"
       /\ proc[r].reader[s] # "waiting" => proc[r].got[s] = proc[r].taken[s]
       /\ proc[r].reader[s] = "closed" =>
            proc[r].wrote[s] = proc[r].taken[s] /\ s \notin proc[r].open

PipesOK == \A r \in Runs : Piped(r)
-----------------------------------------------------------------------------
LEMMA StartedType == Started \in Processes /\ Idle \in Processes
<1>1. Nothing \in [Streams -> 0..MaxChunks]
  BY ProcessAssumption DEF Nothing
<1>2. [s \in Streams |-> "reading"] \in [Streams -> {"reading", "waiting", "closed"}]
  OBVIOUS
<1> QED BY <1>1, <1>2 DEF Started, Idle, Processes, AllStatuses

LEMMA ProcessInitType == ProcessInit => ProcessTypeOK
BY StartedType DEF ProcessInit, ProcessTypeOK

LEMMA LaunchType ==
  ASSUME ProcessTypeOK, NEW r \in Runs, Launch(r)
  PROVE  proc' \in [Runs -> Processes]
BY StartedType DEF ProcessTypeOK, Launch

LEMMA IdleType ==
  ASSUME ProcessTypeOK, NEW r \in Runs, proc' = [proc EXCEPT ![r] = Idle]
  PROVE  proc' \in [Runs -> Processes]
BY StartedType DEF ProcessTypeOK

LEMMA ProcessStepType ==
  ASSUME ProcessTypeOK, NEW r \in Runs, ProcessStep(r)
  PROVE  ProcessTypeOK'
<1>0. /\ proc[r] \in Processes /\ proc \in [Runs -> Processes] /\ posted \subseteq Blocks
      /\ MaxChunks \in Nat
  BY ProcessAssumption DEF ProcessTypeOK
<1>1. ASSUME NEW s \in Streams, Write(r, s) PROVE ProcessTypeOK'
  <2>1. proc[r].wrote[s] \in 0..MaxChunks /\ proc[r].wrote[s] < MaxChunks
    BY <1>0, <1>1 DEF Processes, Write
  <2>2. proc[r].wrote[s] + 1 \in 0..MaxChunks
    BY <1>0, <2>1
  <2>3. [proc[r] EXCEPT !.wrote[s] = @ + 1] \in Processes
    BY <1>0, <2>2 DEF Processes
  <2> QED BY <1>0, <1>1, <2>3 DEF Write, ProcessTypeOK
<1>2. ASSUME NEW s \in Streams, Read(r, s) PROVE ProcessTypeOK'
  <2>1. <<r, s>> \in Blocks
    BY DEF Blocks
  <2>2. /\ [proc[r] EXCEPT !.taken[s] = proc[r].wrote[s], !.reader[s] = "waiting"] \in Processes
        /\ [proc[r] EXCEPT !.reader[s] = "closed"] \in Processes
    BY <1>0 DEF Processes
  <2> QED BY <1>0, <1>2, <2>1, <2>2 DEF Read, ProcessTypeOK
<1>3. ASSUME NEW s \in Streams, Handle(r, s) PROVE ProcessTypeOK'
  <2>1. [proc[r] EXCEPT !.got[s] = proc[r].taken[s], !.reader[s] = "reading"] \in Processes
    BY <1>0 DEF Processes
  <2> QED BY <1>0, <1>3, <2>1 DEF Handle, ProcessTypeOK
<1>4. ASSUME NEW status \in ExitStatuses, Exit(r, status) PROVE ProcessTypeOK'
  <2>1. ASSUME NEW left \in SUBSET Streams
        PROVE  [proc[r] EXCEPT !.child = "ended", !.status = status, !.open = left] \in Processes
    BY <1>0, ProcessAssumption DEF Processes
  <2> QED BY <1>0, <1>4, <2>1 DEF Exit, ProcessTypeOK
<1>5. CASE BackgroundEnds(r)
  <2>1. [proc[r] EXCEPT !.open = {}] \in Processes
    BY <1>0 DEF Processes
  <2> QED BY <1>0, <1>5, <2>1 DEF BackgroundEnds, ProcessTypeOK
<1>6. CASE Complete(r)
  <2>1. [proc[r] EXCEPT !.child = "reported"] \in Processes
    BY <1>0 DEF Processes
  <2>2. <<r, "exit">> \in Blocks
    BY DEF Blocks
  <2> QED BY <1>0, <1>6, <2>1, <2>2 DEF Complete, ProcessTypeOK
<1> QED BY <1>1, <1>2, <1>3, <1>4, <1>5, <1>6 DEF ProcessStep

-----------------------------------------------------------------------------
LEMMA IdleFields ==
  /\ Idle.child = "none" /\ Idle.open = {} /\ Started.child = "running" /\ Started.open = Streams
  /\ \A s \in Streams : /\ Idle.reader[s] = "reading" /\ Started.reader[s] = "reading"
                        /\ Idle.got[s] = Idle.taken[s] /\ Started.got[s] = Started.taken[s]
  /\ Idle.status = "success" /\ Started.status = "success"
BY DEF Idle, Started, Nothing

LEMMA ProcessInitPipes == ProcessInit => PipesOK
<1> SUFFICES ASSUME ProcessInit, NEW r \in Runs PROVE Piped(r)
  BY DEF PipesOK
<1>1. proc[r] = Idle /\ posted = {}
  BY DEF ProcessInit
<1> QED BY <1>1, IdleFields DEF Piped

(* A run that is launched had been forgotten. *)
LEMMA LaunchPipes ==
  ASSUME ProcessTypeOK, PipesOK, NEW r \in Runs, proc[r].child = "none", Launch(r),
         posted' = posted
  PROVE  PipesOK'
<1>1. proc' \in [Runs -> Processes] /\ proc'[r] = Started /\ proc[r] = Idle
      /\ \A q \in Runs \ {r} : proc'[q] = proc[q]
  BY StartedType DEF ProcessTypeOK, Launch, PipesOK, Piped
<1>2. Piped(r)'
  BY <1>1, IdleFields, ProcessAssumption DEF PipesOK, Piped
<1>3. ASSUME NEW q \in Runs, q # r PROVE Piped(q)'
  BY <1>1, <1>3 DEF PipesOK, Piped
<1> QED BY <1>2, <1>3 DEF PipesOK

(* The end of a run: all that it wrote has been handled, and nothing else    *)
(* of it is posted.                                                          *)
LEMMA EndOfRun ==
  ASSUME ProcessTypeOK, PipesOK, NEW r \in Runs, Completes(r)
  PROVE  /\ proc[r].child = "reported"
         /\ \A s \in Streams : proc[r].got[s] = proc[r].wrote[s] /\ <<r, s>> \notin posted
BY DEF Completes, PipesOK, Piped

LEMMA CompletesPipes ==
  ASSUME ProcessTypeOK, PipesOK, NEW r \in Runs, Completes(r), proc' = [proc EXCEPT ![r] = Idle]
  PROVE  PipesOK'
<1>1. proc'[r] = Idle /\ \A q \in Runs \ {r} : proc'[q] = proc[q]
  BY DEF ProcessTypeOK
<1>2. Piped(r)'
  <2>1. <<r, "exit">> \notin posted' /\ \A s \in Streams : <<r, s>> \notin posted'
    BY EndOfRun DEF Completes
  <2> QED BY <1>1, <2>1, IdleFields DEF Piped
<1>3. ASSUME NEW q \in Runs, q # r PROVE Piped(q)'
  BY <1>1, <1>3 DEF Completes, PipesOK, Piped
<1> QED BY <1>2, <1>3 DEF PipesOK

(* A step of a run leaves the others alone, and does not end it for the main *)
(* thread.                                                                   *)
LEMMA StepOfRun ==
  ASSUME ProcessTypeOK, PipesOK, NEW r \in Runs, ProcessStep(r)
  PROVE  /\ proc[r].child # "none" /\ proc'[r].child # "none"
         /\ proc'[r].status \in ExitStatuses \cup {proc[r].status}
         /\ \A q \in Runs \ {r} : proc'[q] = proc[q]
<1>1. proc \in [Runs -> Processes] /\ (proc[r].child = "none" => proc[r].open = {})
  BY IdleFields DEF ProcessTypeOK, PipesOK, Piped
<1>2. /\ proc[r].child # "none" /\ proc'[r].child \in {proc[r].child, "ended", "reported"}
      /\ proc'[r].status \in ExitStatuses \cup {proc[r].status}
      /\ \A q \in Runs \ {r} : proc'[q] = proc[q]
  <2>1. CASE \E s \in Streams : Write(r, s)
    BY <1>1, <2>1 DEF Write, Processes
  <2>2. CASE \E s \in Streams : Read(r, s)
    BY <1>1, <2>2 DEF Read, Processes
  <2>3. CASE \E s \in Streams : Handle(r, s)
    <3>1. proc[r].child # "none"
      BY <2>3, IdleFields DEF Handle, PipesOK, Piped
    <3> QED BY <1>1, <2>3, <3>1 DEF Handle, Processes
  <2>4. CASE \E status \in ExitStatuses : Exit(r, status)
    BY <1>1, <2>4 DEF Exit, Processes
  <2>5. CASE BackgroundEnds(r)
    BY <1>1, <2>5 DEF BackgroundEnds, Processes
  <2>6. CASE Complete(r)
    BY <1>1, <2>6 DEF Complete, Processes
  <2> QED BY <2>1, <2>2, <2>3, <2>4, <2>5, <2>6 DEF ProcessStep
<1> QED BY <1>2

LEMMA ProcessStepPipes ==
  ASSUME ProcessTypeOK, PipesOK, NEW r \in Runs, ProcessStep(r)
  PROVE  PipesOK'
<1>0. proc \in [Runs -> Processes] /\ proc[r] \in Processes /\ "exit" \notin Streams
      /\ Piped(r) /\ proc[r].child # "none" /\ proc'[r].child # "none"
  BY ProcessAssumption, StepOfRun DEF ProcessTypeOK, PipesOK
<1>1. ASSUME \E s \in Streams : Write(r, s) PROVE Piped(r)'
  BY <1>0, <1>1 DEF Write, Piped, Processes
<1>2. ASSUME NEW s \in Streams, Read(r, s) PROVE Piped(r)'
  <2>1. CASE /\ proc[r].wrote[s] > proc[r].taken[s]
             /\ proc' = [proc EXCEPT ![r].taken[s] = proc[r].wrote[s], ![r].reader[s] = "waiting"]
             /\ posted' = posted \cup {<<r, s>>}
    <3>1. proc'[r] = [proc[r] EXCEPT !.taken[s] = proc[r].wrote[s], !.reader[s] = "waiting"]
      BY <1>0, <2>1
    <3>2. /\ proc'[r].child = proc[r].child /\ proc'[r].open = proc[r].open
          /\ proc'[r].got = proc[r].got /\ proc'[r].wrote = proc[r].wrote
          /\ proc'[r].reader = [proc[r].reader EXCEPT ![s] = "waiting"]
          /\ proc'[r].taken = [proc[r].taken EXCEPT ![s] = proc[r].wrote[s]]
      BY <1>0, <3>1 DEF Processes
    <3>3. /\ \A q \in Streams \ {s} : /\ proc'[r].reader[q] = proc[r].reader[q]
                                     /\ proc'[r].taken[q] = proc[r].taken[q]
          /\ proc'[r].reader[s] = "waiting" /\ proc[r].reader[s] = "reading"
      BY <1>0, <1>2, <3>2 DEF Read, Processes
    <3> QED BY <1>0, <2>1, <3>2, <3>3 DEF Piped
  <2>2. CASE /\ proc[r].wrote[s] = proc[r].taken[s] /\ s \notin proc[r].open
             /\ proc' = [proc EXCEPT ![r].reader[s] = "closed"] /\ posted' = posted
    BY <1>0, <1>2, <2>2 DEF Read, Piped, Processes
  <2> QED BY <1>2, <2>1, <2>2 DEF Read
<1>3. ASSUME \E s \in Streams : Handle(r, s) PROVE Piped(r)'
  BY <1>0, <1>3 DEF Handle, Piped, Processes
<1>4. ASSUME \E status \in ExitStatuses : Exit(r, status) PROVE Piped(r)'
  BY <1>0, <1>4 DEF Exit, Piped, Processes
<1>5. ASSUME BackgroundEnds(r) PROVE Piped(r)'
  <2>1. /\ proc[r].child = "ended" /\ proc'[r].child = "ended" /\ proc'[r].open = {}
        /\ proc'[r].reader = proc[r].reader /\ proc'[r].got = proc[r].got
        /\ proc'[r].taken = proc[r].taken /\ proc'[r].wrote = proc[r].wrote /\ posted' = posted
    BY <1>0, <1>5 DEF BackgroundEnds, Processes
  <2> QED BY <1>0, <2>1 DEF Piped
<1>6. ASSUME Complete(r) PROVE Piped(r)'
  <2>1. /\ proc[r].child = "ended" /\ proc'[r].child = "reported"
        /\ proc'[r].open = proc[r].open
        /\ proc'[r].reader = proc[r].reader /\ proc'[r].got = proc[r].got
        /\ proc'[r].taken = proc[r].taken /\ proc'[r].wrote = proc[r].wrote
        /\ \A s \in Streams : proc[r].reader[s] = "closed"
        /\ \A s \in Streams : <<r, s>> \in posted' <=> <<r, s>> \in posted
    BY <1>0, <1>6 DEF Complete, Processes
  <2> QED BY <1>0, <2>1 DEF Piped
<1>7. Piped(r)'
  BY <1>1, <1>2, <1>3, <1>4, <1>5, <1>6 DEF ProcessStep
<1>8. ASSUME NEW q \in Runs, q # r PROVE Piped(q)'
  <2>1. proc'[q] = proc[q]
    BY <1>8, StepOfRun
  <2>2. \/ posted' = posted
        \/ \E b : posted' \in {posted \cup {<<r, b>>}, posted \ {<<r, b>>}}
    BY DEF ProcessStep, Write, Read, Handle, Exit, BackgroundEnds, Complete
  <2>3. \A b : <<q, b>> \in posted' <=> <<q, b>> \in posted
    BY <1>8, <2>2
  <2> QED BY <2>1, <2>3 DEF PipesOK, Piped
<1> QED BY <1>7, <1>8 DEF PipesOK
=============================================================================
