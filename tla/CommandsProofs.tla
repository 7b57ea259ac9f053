--------------------------- MODULE CommandsProofs ---------------------------
(***************************************************************************)
(* Theorems about Commands, for every number of commands and runs, every   *)
(* way the processes end and every bound.  The types, that each run loop   *)
(* is of one run, that a run is at the stage its process says and that     *)
(* terminate kills the command's own process hold together; Controlled     *)
(* names all that concerns the runs, DataOK the rest.                      *)
(***************************************************************************)
EXTENDS Commands, ProcessProofs, SequenceTheorems, FiniteSetTheorems

LoopRuns == {loops[i] : i \in 1..Len(loops)}

Looping == {r \in Runs : run[r].stage \in {"running", "terminated"}}

Controlled ==
  /\ ProcessTypeOK /\ PipesOK
  /\ pid \in [Commands -> Runs \cup {NoRun}] /\ run \in [Runs -> RunRecords]
  /\ loops \in Seq(Runs) /\ LoopRuns = Looping
  /\ \A i, j \in 1..Len(loops) : i # j => loops[i] # loops[j]
  /\ \A r \in Runs : run[r].stage = "running" <=> proc[r].child # "none"
  /\ KillsItsOwn

DataOK ==
  /\ refresher \in [Commands -> Refreshers] /\ killed \subseteq Runs
  /\ doc \in Documents /\ doc.text <= events
  /\ seen \in [Commands -> 0..MaxEvents] /\ events \in 0..MaxEvents

LEMMA TypeParts == Controlled /\ DataOK => TypeOK
BY DEF Controlled, DataOK, TypeOK, LoopRuns, Looping
-----------------------------------------------------------------------------
(* Run loops. *)
LEMMA LoopAdded ==
  ASSUME NEW S, NEW s \in Seq(S), NEW x \in S, \A i \in 1..Len(s) : s[i] # x,
         \A i, j \in 1..Len(s) : i # j => s[i] # s[j]
  PROVE  LET t == Append(s, x) IN
         /\ t \in Seq(S) /\ {t[i] : i \in 1..Len(t)} = {s[i] : i \in 1..Len(s)} \cup {x}
         /\ \A i, j \in 1..Len(t) : i # j => t[i] # t[j]
<1> DEFINE t == Append(s, x)
<1>1. /\ t \in Seq(S) /\ Len(t) = Len(s) + 1 /\ Len(s) \in Nat
      /\ \A i \in 1..Len(s) : t[i] = s[i]
      /\ t[Len(s) + 1] = x
  BY AppendProperties
<1> HIDE DEF t
<1> SUFFICES /\ t \in Seq(S) /\ {t[i] : i \in 1..Len(t)} = {s[i] : i \in 1..Len(s)} \cup {x}
             /\ \A i, j \in 1..Len(t) : i # j => t[i] # t[j]
  BY DEF t
<1> QED BY <1>1

LEMMA LoopRemoved ==
  ASSUME NEW S, NEW s \in Seq(S), s # <<>>, \A i, j \in 1..Len(s) : i # j => s[i] # s[j]
  PROVE  LET t == SubSeq(s, 1, Len(s) - 1) IN
         /\ t \in Seq(S) /\ {t[i] : i \in 1..Len(t)} = {s[i] : i \in 1..Len(s)} \ {s[Len(s)]}
         /\ \A i, j \in 1..Len(t) : i # j => t[i] # t[j]
<1> DEFINE t == SubSeq(s, 1, Len(s) - 1)
<1>1. Len(s) \in Nat \ {0} /\ \A i \in 1..(Len(s) - 1) : s[i] \in S
  OBVIOUS
<1>2. /\ t \in Seq(S) /\ Len(t) = Len(s) - 1
      /\ \A i \in 1..(Len(s) - 1) : t[i] = s[i]
  <2> DEFINE n == Len(s) - 1
  <2>1. n \in Int /\ 1 \in Int /\ \A i \in 1..n : s[i] \in S
    BY <1>1
  <2>2. /\ SubSeq(s, 1, n) \in Seq(S) /\ Len(SubSeq(s, 1, n)) = IF 1 <= n THEN n - 1 + 1 ELSE 0
        /\ \A i \in 1..n - 1 + 1 : SubSeq(s, 1, n)[i] = s[1 + i - 1]
    <3> HIDE DEF n
    <3> QED BY <2>1, SubSeqProperties
  <2>3. Len(SubSeq(s, 1, n)) = n /\ \A i \in 1..n : SubSeq(s, 1, n)[i] = s[i]
    <3>1. n \in Nat
      BY <1>1
    <3> HIDE DEF n
    <3>2. 1..n - 1 + 1 = 1..n /\ \A i \in 1..n : 1 + i - 1 = i
      BY <3>1
    <3> QED BY <2>2, <3>1, <3>2
  <2> QED BY <2>2, <2>3
<1> HIDE DEF t
<1> SUFFICES /\ t \in Seq(S) /\ {t[i] : i \in 1..Len(t)} = {s[i] : i \in 1..Len(s)} \ {s[Len(s)]}
             /\ \A i, j \in 1..Len(t) : i # j => t[i] # t[j]
  BY DEF t
<1> QED BY <1>1, <1>2

(* There are never more run loops than runs. *)
LEMMA LoopsBounded ==
  ASSUME Controlled
  PROVE  Len(loops) \in 0..Cardinality(Runs)
<1>1. /\ loops \in Seq(Runs) /\ Len(loops) \in Nat /\ IsFiniteSet(Runs)
      /\ \A i, j \in 1..Len(loops) : i # j => loops[i] # loops[j]
  BY CommandsAssumption DEF Controlled
<1>2. loops \in Injection(1..Len(loops), Runs)
  BY <1>1 DEF Injection, IsInjective
<1>3. Cardinality(1..Len(loops)) <= Cardinality(Runs)
  BY <1>1, <1>2, FS_Injection
<1>4. Cardinality(1..Len(loops)) = Len(loops)
  <2> DEFINE n == Len(loops)
  <2>1. n \in Nat /\ n \in Int /\ 1 \in Int
    BY <1>1
  <2> HIDE DEF n
  <2>2. Cardinality(1..n) = IF 1 > n THEN 0 ELSE n - 1 + 1
    BY <2>1, FS_Interval
  <2>3. Cardinality(1..n) = n
    BY <2>1, <2>2
  <2> QED BY <2>3 DEF n
<1>5. Cardinality(Runs) \in Nat
  BY <1>1, FS_CardinalityType
<1> QED BY <1>1, <1>3, <1>4, <1>5

-----------------------------------------------------------------------------
(* The runs. *)
LEMMA FreeRunType == FreeRun \in RunRecords
BY CommandsAssumption DEF FreeRun, RunRecords

LEMMA InitControlled == Init => Controlled /\ DataOK
<1> SUFFICES ASSUME Init PROVE Controlled /\ DataOK
  OBVIOUS
<1>1. ProcessTypeOK /\ PipesOK /\ \A r \in Runs : proc[r].child = "none"
  BY ProcessInitType, ProcessInitPipes, IdleFields DEF Init, ProcessInit
<1>2. run \in [Runs -> RunRecords] /\ \A r \in Runs : run[r].stage = "free"
  BY FreeRunType DEF Init, FreeRun
<1>3. loops \in Seq(Runs) /\ Len(loops) = 0
  BY EmptySeq DEF Init
<1>4. LoopRuns = Looping
  BY <1>2, <1>3 DEF LoopRuns, Looping
<1>5. pid \in [Commands -> Runs \cup {NoRun}] /\ KillsItsOwn
  BY DEF Init, KillsItsOwn
<1>6. NoRefresher \in Refreshers
  BY DEF NoRefresher, Refreshers
<1>7. doc \in Documents
  BY CommandsAssumption, FS_CardinalityType DEF Init, Documents
<1>8. 0 \in 0..MaxEvents
  BY CommandsAssumption
<1> QED BY <1>1, <1>2, <1>3, <1>4, <1>5, <1>6, <1>7, <1>8 DEF Controlled, DataOK, Init

(* Nothing happens to the runs. *)
LEMMA RunsLeftAlone ==
  ASSUME Controlled, procVars' = procVars, pid' = pid, run' = run, loops' = loops
  PROVE  Controlled'
BY DEF Controlled, procVars, ProcessTypeOK, PipesOK, Piped, LoopRuns, Looping, KillsItsOwn

(* A run that is free or whose document has been saved is launched. *)
LEMMA RunLaunched ==
  ASSUME Controlled, NEW c \in Commands, NEW r \in Runs, run[r].stage \in {"free", "saving"},
         NEW rec \in RunRecords, rec.command = c, rec.stage = "running",
         run' = [run EXCEPT ![r] = rec], Run(c, r), posted' = posted
  PROVE  Controlled'
<1>1. /\ proc[r].child = "none" /\ Launch(r) /\ proc \in [Runs -> Processes]
      /\ ProcessTypeOK /\ PipesOK
  BY DEF Controlled, Run, ProcessTypeOK
<1>2. PipesOK' /\ ProcessTypeOK'
  BY <1>1, LaunchPipes, LaunchType DEF ProcessTypeOK
<1>3. proc'[r].child = "running" /\ \A q \in Runs \ {r} : proc'[q] = proc[q]
  BY <1>1, IdleFields DEF Launch
<1>4. /\ run' \in [Runs -> RunRecords] /\ run'[r] = rec
      /\ \A q \in Runs \ {r} : run'[q] = run[q]
  BY DEF Controlled
<1>5. /\ pid' \in [Commands -> Runs \cup {NoRun}] /\ pid'[c] = r
      /\ \A d \in Commands \ {c} : pid'[d] = pid[d]
  BY DEF Controlled, Run
<1>6. \A q \in Runs : run'[q].stage = "running" <=> proc'[q].child # "none"
  BY <1>3, <1>4 DEF Controlled
<1>7. KillsItsOwn'
  BY <1>3, <1>4, <1>5 DEF KillsItsOwn, Controlled
<1>8. /\ loops' \in Seq(Runs) /\ LoopRuns' = LoopRuns \cup {r}
      /\ \A i, j \in 1..Len(loops') : i # j => loops'[i] # loops'[j]
  <2>1. /\ loops \in Seq(Runs) /\ loops' = Append(loops, r)
        /\ \A i, j \in 1..Len(loops) : i # j => loops[i] # loops[j]
    BY DEF Controlled, Run
  <2>2. \A i \in 1..Len(loops) : loops[i] # r
    BY DEF Controlled, LoopRuns, Looping
  <2> QED BY <2>1, <2>2, LoopAdded DEF LoopRuns
<1>9. Looping' = Looping \cup {r}
  BY <1>4 DEF Looping
<1> QED BY <1>2, <1>4, <1>5, <1>6, <1>7, <1>8, <1>9 DEF Controlled

(* A run that is not in a run loop waits for the save, or is forgotten. *)
LEMMA RunAside ==
  ASSUME Controlled, NEW r \in Runs, run[r].stage \in {"free", "saving"},
         NEW rec \in RunRecords, rec.stage \in {"free", "saving"},
         run' = [run EXCEPT ![r] = rec], procVars' = procVars, loops' = loops,
         pid' = pid \/ \E c \in Commands : pid' = [pid EXCEPT ![c] = NoRun]
  PROVE  Controlled'
<1>1. /\ run' \in [Runs -> RunRecords] /\ run'[r] = rec
      /\ \A q \in Runs \ {r} : run'[q] = run[q]
  BY DEF Controlled
<1>2. /\ pid' \in [Commands -> Runs \cup {NoRun}]
      /\ \A d \in Commands : pid'[d] \in {NoRun, pid[d]}
  BY DEF Controlled
<1>3. proc' = proc /\ ProcessTypeOK' /\ PipesOK'
  BY DEF Controlled, procVars, ProcessTypeOK, PipesOK, Piped
<1>4. LoopRuns' = LoopRuns /\ Looping' = Looping
  BY <1>1 DEF LoopRuns, Looping
<1>5. KillsItsOwn'
  BY <1>1, <1>2, <1>3 DEF KillsItsOwn, Controlled
<1> QED BY <1>1, <1>2, <1>3, <1>4, <1>5 DEF Controlled

(* A run whose process ends is terminated, and its command has none. *)
LEMMA RunTerminated ==
  ASSUME Controlled, NEW r \in Runs, Completes(r), proc' = [proc EXCEPT ![r] = Idle],
         run' = [run EXCEPT ![r].stage = "terminated"],
         pid' = [pid EXCEPT ![run[r].command] = NoRun], loops' = loops
  PROVE  Controlled'
<1>1. /\ ProcessTypeOK /\ PipesOK /\ proc \in [Runs -> Processes] /\ run \in [Runs -> RunRecords]
      /\ proc[r].child = "reported"
  BY EndOfRun DEF Controlled, ProcessTypeOK
<1>2. PipesOK' /\ ProcessTypeOK'
  BY <1>1, CompletesPipes, IdleType DEF ProcessTypeOK, Completes
<1>3. proc'[r].child = "none" /\ \A q \in Runs \ {r} : proc'[q] = proc[q]
  BY <1>1, IdleFields
<1>4. run[r].stage = "running"
  BY <1>1 DEF Controlled
<1>5. /\ run' \in [Runs -> RunRecords] /\ run'[r].stage = "terminated"
      /\ \A q \in Runs \ {r} : run'[q] = run[q]
  BY <1>1 DEF RunRecords
<1>6. LoopRuns' = LoopRuns /\ Looping' = Looping
  BY <1>4, <1>5 DEF LoopRuns, Looping
<1>7. /\ pid' \in [Commands -> Runs \cup {NoRun}]
      /\ \A c \in Commands : pid'[c] \in {NoRun, pid[c]} /\ pid'[c] # r
  <2>1. run[r].command \in Commands /\ NoRun # r
    BY <1>1, CommandsAssumption DEF RunRecords
  <2> QED BY <2>1 DEF Controlled, KillsItsOwn
<1>8. KillsItsOwn'
  BY <1>3, <1>5, <1>7 DEF KillsItsOwn, Controlled
<1> QED BY <1>2, <1>3, <1>5, <1>6, <1>7, <1>8 DEF Controlled

(* The innermost run loop returns, when its run is terminated. *)
LEMMA RunForgotten ==
  ASSUME Controlled, loops # <<>>, run[Innermost].stage = "terminated",
         run' = [run EXCEPT ![Innermost] = FreeRun], loops' = SubSeq(loops, 1, Len(loops) - 1),
         procVars' = procVars, pid' = pid
  PROVE  Controlled'
<1>1. loops \in Seq(Runs) /\ Innermost = loops[Len(loops)] /\ Innermost \in Runs
      /\ \A i, j \in 1..Len(loops) : i # j => loops[i] # loops[j]
  BY DEF Controlled, Innermost
<1>2. /\ run' \in [Runs -> RunRecords] /\ run'[Innermost].stage = "free"
      /\ \A q \in Runs \ {Innermost} : run'[q] = run[q]
  <2>1. FreeRun.stage = "free" /\ run \in [Runs -> RunRecords]
    BY DEF FreeRun, Controlled
  <2> QED BY <1>1, <2>1, FreeRunType
<1>3. /\ loops' \in Seq(Runs) /\ LoopRuns' = LoopRuns \ {Innermost}
      /\ \A i, j \in 1..Len(loops') : i # j => loops'[i] # loops'[j]
  BY <1>1, LoopRemoved DEF LoopRuns
<1>4. Looping' = Looping \ {Innermost}
  BY <1>1, <1>2 DEF Looping
<1>5. proc' = proc /\ ProcessTypeOK' /\ PipesOK'
  BY DEF Controlled, procVars, ProcessTypeOK, PipesOK, Piped
<1>6. KillsItsOwn'
  BY <1>1, <1>2, <1>5 DEF KillsItsOwn, Controlled
<1> QED BY <1>1, <1>2, <1>3, <1>4, <1>5, <1>6 DEF Controlled

(* A process goes on. *)
LEMMA RunGoesOn ==
  ASSUME Controlled, NEW r \in Runs, ProcessStep(r), pid' = pid, run' = run, loops' = loops
  PROVE  Controlled'
<1>1. PipesOK' /\ ProcessTypeOK'
  BY ProcessStepPipes, ProcessStepType DEF Controlled
<1>2. \A q \in Runs : proc'[q].child # "none" <=> proc[q].child # "none"
  BY StepOfRun DEF Controlled
<1>3. LoopRuns' = LoopRuns /\ Looping' = Looping
  BY DEF LoopRuns, Looping
<1>4. KillsItsOwn'
  BY <1>2 DEF KillsItsOwn, Controlled
<1> QED BY <1>1, <1>2, <1>3, <1>4 DEF Controlled

LEMMA ExecuteControlled ==
  ASSUME Controlled, NEW c \in Commands, NEW r \in Runs, NEW by \in {"view", "refresher", "closing"},
         Execute(c, r, by)
  PROVE  Controlled'
<1>1. run[r].stage = "free"
  BY DEF Execute, Free
<1>2. CASE SavesFirst /\ doc.edited /\ by # "closing"
  <2> DEFINE rec == [command |-> c, stage |-> "saving", by |-> by]
  <2>1. rec \in RunRecords /\ rec.stage = "saving"
    BY DEF RunRecords
  <2>2. /\ run' = [run EXCEPT ![r] = rec] /\ procVars' = procVars /\ loops' = loops
        /\ \E d \in Commands : pid' = [pid EXCEPT ![d] = NoRun]
    BY <1>2 DEF Execute, procVars
  <2> HIDE DEF rec
  <2> QED BY <1>1, <2>1, <2>2, RunAside
<1>3. CASE ~(SavesFirst /\ doc.edited /\ by # "closing")
  <2> DEFINE rec == [command |-> c, stage |-> "running", by |-> by]
  <2>1. rec \in RunRecords /\ rec.stage = "running" /\ rec.command = c
    BY DEF RunRecords
  <2>2. run' = [run EXCEPT ![r] = rec] /\ Run(c, r) /\ posted' = posted
    BY <1>3 DEF Execute
  <2> HIDE DEF rec
  <2> QED BY <1>1, <2>1, <2>2, RunLaunched
<1> QED BY <1>2, <1>3

-----------------------------------------------------------------------------
(* The actions. *)
LEMMA TeardownType == \A r \in Refreshers : Teardown(r) \in Refreshers
BY DEF Teardown, Refreshers

LEMMA SelectStep == ASSUME Controlled, DataOK, Select PROVE Controlled' /\ DataOK'
<1>1. CASE \E c \in Commands : refresher[c].listed
  <2>1. procVars' = procVars /\ pid' = pid /\ run' = run /\ loops' = loops
    BY <1>1 DEF Select, procVars
  <2>2. refresher' \in [Commands -> Refreshers]
    BY <1>1, TeardownType DEF Select, DataOK
  <2> QED BY <2>1, <2>2, RunsLeftAlone DEF Select, DataOK
<1>2. CASE ~\E c \in Commands : refresher[c].listed
  <2>1. PICK r \in Runs : (\E c \in Commands : Unused(c)) /\ Execute(NextCommand, r, "view")
    BY <1>2 DEF Select
  <2>2. NextCommand \in Commands
    BY <2>1 DEF NextCommand
  <2>3. refresher' = refresher
    BY <1>2 DEF Select
  <2> QED BY <2>1, <2>2, <2>3, ExecuteControlled DEF Select, DataOK
<1> QED BY <1>1, <1>2

LEMMA SavedStep ==
  ASSUME Controlled, DataOK, NEW r \in Runs, DocumentSaved(r) PROVE Controlled' /\ DataOK'
<1>1. run[r] \in RunRecords /\ run[r].stage = "saving" /\ run \in [Runs -> RunRecords]
  BY DEF Controlled, DocumentSaved
<1>2. doc' \in Documents /\ doc'.text = doc.text
  BY DEF DocumentSaved, DataOK, Documents
<1>3. DataOK'
  BY <1>2 DEF DocumentSaved, DataOK
<1>4. CASE /\ run' = [run EXCEPT ![r].stage = "running", ![r].by = "view"]
           /\ Run(run[r].command, r)
  <2> DEFINE rec == [run[r] EXCEPT !.stage = "running", !.by = "view"]
  <2>1. /\ rec \in RunRecords /\ rec.stage = "running" /\ rec.command = run[r].command
        /\ run[r].command \in Commands
    BY <1>1 DEF RunRecords
  <2>2. run' = [run EXCEPT ![r] = rec]
    BY <1>1, <1>4
  <2>3. posted' = posted
    BY DEF DocumentSaved
  <2> HIDE DEF rec
  <2> QED BY <1>1, <1>3, <1>4, <2>1, <2>2, <2>3, RunLaunched
<1>5. CASE run' = [run EXCEPT ![r] = FreeRun] /\ UNCHANGED <<proc, pid, loops, doc>>
  <2>1. FreeRun.stage = "free" /\ procVars' = procVars
    BY <1>5 DEF FreeRun, DocumentSaved, procVars
  <2> QED BY <1>1, <1>3, <1>5, <2>1, FreeRunType, RunAside
<1> QED BY <1>4, <1>5 DEF DocumentSaved

LEMMA TimerStep ==
  ASSUME Controlled, DataOK, NEW c \in Commands, NEW r \in Runs, IdleTimerDidFire(c, r)
  PROVE  Controlled' /\ DataOK'
<1>1. refresher' \in [Commands -> Refreshers]
  BY DEF IdleTimerDidFire, DataOK, Refreshers
<1>2. seen' \in [Commands -> 0..MaxEvents]
  BY DEF IdleTimerDidFire, RefresherExecute, DataOK, Documents
<1>3. CASE refresher[c].running
  <2>1. procVars' = procVars /\ pid' = pid /\ run' = run /\ loops' = loops
    BY <1>3 DEF IdleTimerDidFire, RefresherExecute, procVars
  <2> QED BY <1>1, <1>2, <2>1, RunsLeftAlone DEF IdleTimerDidFire, DataOK
<1>4. CASE ~refresher[c].running
  <2>1. Execute(c, r, "refresher")
    BY <1>4 DEF IdleTimerDidFire, RefresherExecute
  <2> QED BY <1>1, <1>2, <2>1, ExecuteControlled DEF IdleTimerDidFire, DataOK
<1> QED BY <1>3, <1>4

LEMMA LastStep ==
  ASSUME Controlled, DataOK, NEW c \in Commands, NEW r \in Runs, LastExecute(c, r)
  PROVE  Controlled' /\ DataOK'
<1>1. doc' \in Documents /\ doc'.text = doc.text
  BY DEF LastExecute, DataOK, Documents
<1>2. seen' \in [Commands -> 0..MaxEvents]
  BY DEF LastExecute, DataOK, Documents
<1>3. CASE "closed" \in Refresh
  <2>1. Execute(c, r, "closing") /\ refresher' = refresher
    BY <1>3 DEF LastExecute
  <2> QED BY <1>1, <1>2, <2>1, ExecuteControlled DEF LastExecute, DataOK
<1>4. CASE "closed" \notin Refresh
  <2>1. procVars' = procVars /\ pid' = pid /\ run' = run /\ loops' = loops
    BY <1>4 DEF LastExecute, procVars
  <2>2. refresher' \in [Commands -> Refreshers]
    BY <1>4, TeardownType DEF LastExecute, DataOK
  <2> QED BY <1>1, <1>2, <2>1, <2>2, RunsLeftAlone DEF LastExecute, DataOK
<1> QED BY <1>3, <1>4

LEMMA DocumentStep ==
  ASSUME Controlled, DataOK, ContentDidChange \/ DocumentDidSave \/ DocumentWillClose \/ DidClose
  PROVE  Controlled' /\ DataOK'
<1>1. procVars' = procVars /\ pid' = pid /\ run' = run /\ loops' = loops
  BY DEF ContentDidChange, DocumentDidSave, DocumentWillClose, DidClose, commandVars
<1>2. refresher' \in [Commands -> Refreshers]
  <2>1. ASSUME NEW event, Notified(event) PROVE refresher' \in [Commands -> Refreshers]
    BY <2>1 DEF Notified, DataOK, Refreshers
  <2> QED BY <2>1 DEF ContentDidChange, DocumentDidSave, DocumentWillClose, DidClose, commandVars,
                      DataOK
<1>3. events' \in 0..MaxEvents /\ events <= events'
  BY CommandsAssumption DEF ContentDidChange, DocumentDidSave, DocumentWillClose, DidClose, DataOK
<1>4. doc' \in Documents /\ doc'.text <= events'
  <2>1. CASE ContentDidChange
    <3>1. doc.text \in Nat /\ doc.text + 1 <= events' /\ events' <= MaxEvents
      BY <2>1, <1>3, CommandsAssumption DEF ContentDidChange, DataOK, Documents
    <3>2. doc.text + 1 \in 0..MaxEvents
      BY <1>3, <3>1, CommandsAssumption
    <3>3. doc' = [doc EXCEPT !.text = @ + 1, !.edited = TRUE] /\ doc \in Documents
      BY <2>1 DEF ContentDidChange, DataOK
    <3>4. doc' \in Documents /\ doc'.text = doc.text + 1
      BY <3>2, <3>3 DEF Documents
    <3> QED BY <3>1, <3>4
  <2>2. CASE DocumentDidSave
    <3>1. doc' \in Documents /\ doc'.text = doc.text
      BY <2>2 DEF DocumentDidSave, DataOK, Documents
    <3>2. events' = events + 1 /\ events \in Nat /\ doc.text <= events /\ doc.text \in Nat
      BY <2>2, CommandsAssumption DEF DocumentDidSave, DataOK, Documents
    <3> QED BY <3>1, <3>2
  <2>3. CASE DocumentWillClose
    BY <2>3, LoopsBounded DEF DocumentWillClose, DataOK, Documents
  <2>4. CASE DidClose
    <3>1. 0 \in 0..Cardinality(Runs)
      BY CommandsAssumption, FS_CardinalityType
    <3>2. doc' \in Documents /\ doc'.text = doc.text /\ events' = events
      BY <2>4, <3>1 DEF DidClose, DataOK, Documents
    <3> QED BY <3>2 DEF DataOK
  <2> QED BY <2>1, <2>2, <2>3, <2>4
<1> QED BY <1>1, <1>2, <1>3, <1>4, RunsLeftAlone
    DEF ContentDidChange, DocumentDidSave, DocumentWillClose, DidClose, DataOK

LEMMA TerminateStep ==
  ASSUME Controlled, DataOK, NEW r \in Runs, DidTerminate(r) PROVE Controlled' /\ DataOK'
<1>1. Controlled'
  BY RunTerminated DEF DidTerminate
<1>2. refresher' \in [Commands -> Refreshers]
  <2> DEFINE c == run[r].command
  <2>1. c \in Commands
    BY DEF Controlled, RunRecords
  <2>2. \A x \in Refreshers, b \in BOOLEAN :
          /\ [x EXCEPT !.made = b, !.listed = b] \in Refreshers
          /\ [x EXCEPT !.running = FALSE, !.shouldRun = FALSE] \in Refreshers
    BY DEF Refreshers
  <2>3. refresher' \in {[refresher EXCEPT ![c] = x] : x \in Refreshers}
    <3>1. refresher[c] \in Refreshers
      BY <2>1 DEF DataOK
    <3> HIDE DEF c
    <3>2. \A b \in BOOLEAN : IF ~refresher[c].made
                          THEN [refresher[c] EXCEPT !.made = b, !.listed = b] \in Refreshers
                          ELSE [refresher[c] EXCEPT !.running = FALSE, !.shouldRun = FALSE] \in Refreshers
      BY <2>2, <3>1
    <3> QED BY <3>2 DEF DidTerminate, c
  <2> HIDE DEF c
  <2> QED BY <2>1, <2>3 DEF DataOK
<1> QED BY <1>1, <1>2 DEF DidTerminate, DataOK

LEMMA ReturnStep == ASSUME Controlled, DataOK, LoopReturns PROVE Controlled' /\ DataOK'
<1>1. Controlled'
  BY RunForgotten DEF LoopReturns
<1>2. refresher' \in [Commands -> Refreshers]
  BY TeardownType DEF LoopReturns, DataOK
<1> QED BY <1>1, <1>2 DEF LoopReturns, DataOK

LEMMA InterruptStep == ASSUME Controlled, DataOK, Interrupt PROVE Controlled' /\ DataOK'
<1>1. procVars' = procVars /\ pid' = pid /\ run' = run /\ loops' = loops
  BY DEF Interrupt
<1>2. killed' \subseteq Runs
  <2>1. loops # <<>> /\ loops \in Seq(Runs) /\ Innermost \in Runs
    BY DEF Interrupt, Innermost, Controlled
  <2>2. run[Innermost].command \in Commands
    BY <2>1 DEF Controlled, RunRecords
  <2> QED BY <2>2 DEF Interrupt, Controlled, DataOK
<1> QED BY <1>1, <1>2, RunsLeftAlone DEF Interrupt, DataOK

LEMMA ChildStep == ASSUME Controlled, DataOK, Child PROVE Controlled' /\ DataOK'
<1>1. Controlled'
  BY RunGoesOn DEF Child, commandVars
<1> QED BY <1>1 DEF Child, commandVars, DataOK

LEMMA CommandsInvariant == Spec => [](Controlled /\ DataOK)
<1>1. Controlled /\ DataOK /\ [Next]_vars => Controlled' /\ DataOK'
  <2> SUFFICES ASSUME Controlled, DataOK, [Next]_vars PROVE Controlled' /\ DataOK'
    OBVIOUS
  <2>1. CASE UNCHANGED vars
    BY <2>1, RunsLeftAlone DEF vars, procVars, DataOK
  <2> QED BY <2>1, SelectStep, SavedStep, TimerStep, LastStep, DocumentStep, TerminateStep,
             ReturnStep, InterruptStep, ChildStep DEF Next, Machine
<1> QED BY <1>1, InitControlled, PTL DEF Spec

(* The types of the state hold in every reachable state, and the nested run  *)
(* loops are those of the runs under way, one each.                          *)
THEOREM TypeCorrect == Spec => []TypeOK
BY CommandsInvariant, TypeParts, PTL

(* terminate never kills a process that is not the command's, or one the     *)
(* main thread has been told is gone (OakCommand.mm:259, 379-385).           *)
THEOREM TerminateKillsItsOwn == Spec => []KillsItsOwn
<1>1. Controlled => KillsItsOwn
  BY DEF Controlled
<1> QED BY <1>1, CommandsInvariant, PTL
=============================================================================
