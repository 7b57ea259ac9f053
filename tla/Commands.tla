------------------------------ MODULE Commands ------------------------------
(***************************************************************************)
(* OakCommand, the text view that runs it and OakCommandRefresher, which   *)
(* runs it again when the document is changed, saved or closed.  A bundle  *)
(* item becomes an OakCommand each time the user selects it; executing one *)
(* may first have to save the document, then launches a process (module    *)
(* Process) and waits for it in a run loop of its own, in which timers,    *)
(* notifications and other blocks are served, but no keys and no mouse.    *)
(***************************************************************************)
EXTENDS Process, Sequences

CONSTANTS
  Commands,      \* the OakCommands the user may make of one bundle item
  NoRun,
  Refresh,       \* autoRefresh of the bundle item
  SavesFirst,    \* pre_exec is save_document
  MaxEvents      \* bound: changes and saves of the document

ASSUME CommandsAssumption ==
  /\ Commands # {} /\ IsFiniteSet(Runs) /\ NoRun \notin Runs
  /\ Refresh \subseteq {"changed", "saved", "closed"} /\ SavesFirst \in BOOLEAN
  /\ MaxEvents \in Nat

VARIABLES
  pid,        \* of each command: the run whose process _processIdentifier is, or NoRun
  refresher,  \* of each command: its OakCommandRefresher, once there is one
  run,        \* of each run: the command and how far executeWithInput: has come
  loops,      \* the nested run loops, the innermost last
  killed,     \* runs kill_process_group_in_background was called for
  doc,        \* the document: its text, and is it edited, being closed or closed?
  seen,       \* history: the text each command was last executed for by its refresher
  events      \* counter of the bound

commandVars == <<pid, refresher>>
vars == <<proc, posted, pid, refresher, run, loops, killed, doc, seen, events>>

(* listed is membership of CommandRefreshers, timer is _idleTimer.           *)
Refreshers == [made : BOOLEAN, listed : BOOLEAN, timer : BOOLEAN, running : BOOLEAN,
               shouldRun : BOOLEAN]
RunRecords ==
  [command : Commands, stage : {"free", "saving", "running", "terminated"},
   by : {"view", "refresher", "closing"}]
Documents == [text : 0..MaxEvents, edited : BOOLEAN, closing : SUBSET Commands, depth : 0..Cardinality(Runs),
              state : {"open", "closing", "closed"}]

FreeRun == [command |-> CHOOSE c \in Commands : TRUE, stage |-> "free", by |-> "view"]
NoRefresher == [made |-> FALSE, listed |-> FALSE, timer |-> FALSE, running |-> FALSE,
                shouldRun |-> FALSE]

Init ==
  /\ ProcessInit
  /\ pid = [c \in Commands |-> NoRun]
  /\ refresher = [c \in Commands |-> NoRefresher]
  /\ run = [r \in Runs |-> FreeRun]
  /\ loops = <<>> /\ killed = {}
  /\ doc = [text |-> 0, edited |-> FALSE, closing |-> {}, depth |-> 0, state |-> "open"]
  /\ seen = [c \in Commands |-> 0]
  /\ events = 0

-----------------------------------------------------------------------------
(* Which record a run gets and which object a command is makes no difference. *)
Free(r)   == run[r].stage = "free"
NextRun   == CHOOSE r \in Runs : Free(r)
Unused(c) == ~refresher[c].made /\ \A r \in Runs : run[r].command = c => Free(r)
NextCommand == CHOOSE c \in Commands : Unused(c)
Innermost == IF loops = <<>> THEN NoRun ELSE loops[Len(loops)]

(* A refresher that was torn down goes once nothing retains it: its timer    *)
(* does, and whoever called it while it waits in a run loop.                 *)
Alive(c) ==
  \/ refresher[c].listed \/ refresher[c].timer
  \/ /\ refresher[c].made
     /\ \E i \in 1..Len(loops) : run[loops[i]].command = c /\ run[loops[i]].by # "view"

(* run_command, and modalEventLoopRunner; the one before is forgotten.       *)
Run(c, r) ==
  /\ Launch(r)
  /\ pid' = [pid EXCEPT ![c] = r]
  /\ loops' = Append(loops, r)

(* executeWithInput:: the document is saved first if it has to be.           *)
Execute(c, r, by) ==
  /\ Free(r) /\ r = NextRun
  /\ IF SavesFirst /\ doc.edited /\ by # "closing"
     THEN /\ run' = [run EXCEPT ![r] = [command |-> c, stage |-> "saving", by |-> by]]
          /\ pid' = [pid EXCEPT ![c] = NoRun]
          /\ UNCHANGED <<proc, loops>>
     ELSE /\ run' = [run EXCEPT ![r] = [command |-> c, stage |-> "running", by |-> by]]
          /\ Run(c, r)
  /\ UNCHANGED posted

Teardown(r) == [r EXCEPT !.timer = FALSE, !.listed = FALSE]

(* The user selects the bundle item: a refresher of it is torn down, or else *)
(* it is executed.  In a nested run loop his events wait.                    *)
Select ==
  /\ loops = <<>> /\ doc.state = "open"
  /\ IF \E c \in Commands : refresher[c].listed
     THEN /\ \E c \in Commands :
               refresher[c].listed /\ refresher' = [refresher EXCEPT ![c] = Teardown(@)]
          /\ UNCHANGED <<proc, posted, pid, run, loops>>
     ELSE /\ \E r \in Runs :
               /\ \E c \in Commands : Unused(c)
               /\ Execute(NextCommand, r, "view")
          /\ UNCHANGED refresher
  /\ UNCHANGED <<killed, doc, seen, events>>

(* saveAllEditedDocuments:completionHandler: calls back.                     *)
DocumentSaved(r) ==
  /\ run[r].stage = "saving"
  /\ \/ /\ run' = [run EXCEPT ![r].stage = "running", ![r].by = "view"]
        /\ Run(run[r].command, r)
        /\ doc' = [doc EXCEPT !.edited = FALSE]
     \/ /\ run' = [run EXCEPT ![r] = FreeRun]  \* the save fails or is cancelled
        /\ UNCHANGED <<proc, pid, loops, doc>>
  /\ UNCHANGED <<posted, refresher, killed, seen, events>>

(* A slip: a timer that fires while the command runs is forgotten.           *)
ExecuteOnce(c, r) ==
  IF \E q \in Runs : run[q].command = c /\ ~Free(q)
  THEN UNCHANGED <<proc, posted, pid, run, loops, seen>>
  ELSE Execute(c, r, "refresher") /\ seen' = [seen EXCEPT ![c] = doc.text]

(* The refresher's execute: nothing sets _running, so it runs at once.       *)
RefresherExecute(c, r) ==
  IF refresher[c].running
  THEN UNCHANGED <<proc, posted, pid, run, loops, seen>>
  ELSE Execute(c, r, "refresher") /\ seen' = [seen EXCEPT ![c] = doc.text]

IdleTimerDidFire(c, r) ==
  /\ refresher[c].timer /\ Free(r)
  /\ refresher' = [refresher EXCEPT ![c].timer = FALSE,
                                    ![c].shouldRun = refresher[c].running]
  /\ RefresherExecute(c, r)
  /\ UNCHANGED <<killed, doc, events>>

-----------------------------------------------------------------------------
(* A new timer takes the place of the one before. *)
Notified(event) ==
  refresher' = [c \in Commands |->
    [refresher[c] EXCEPT !.timer = @ \/ (event \in Refresh /\ Alive(c))]]

(* The text is changed: by the user, or by an import or a command's output  *)
(* while a nested run loop is served.                                       *)
ContentDidChange ==
  /\ doc.state = "open" /\ events < MaxEvents /\ events' = events + 1
  /\ doc' = [doc EXCEPT !.text = @ + 1, !.edited = TRUE]
  /\ Notified("changed")
  /\ UNCHANGED <<procVars, pid, run, loops, killed, seen>>

(* A save of this document or of another one ends. *)
DocumentDidSave ==
  /\ events < MaxEvents /\ events' = events + 1
  /\ doc' \in {doc, [doc EXCEPT !.edited = FALSE]}
  /\ Notified("saved")
  /\ UNCHANGED <<procVars, pid, run, loops, killed, seen>>

(* The document closes: those who observe that are told one after another.   *)
DocumentWillClose ==
  /\ doc.state = "open"
  /\ doc' = [doc EXCEPT !.state = "closing", !.depth = Len(loops),
       !.closing = {c \in Commands : Alive(c) /\ Refresh \cap {"changed", "closed"} # {}}]
  /\ UNCHANGED <<procVars, commandVars, run, loops, killed, seen, events>>

(* The command is executed a last time, before the refresher is torn down.   *)
LastExecute(c, r) ==
  /\ doc.state = "closing" /\ Len(loops) = doc.depth /\ c \in doc.closing
  /\ doc' = [doc EXCEPT !.closing = @ \ {c}]
  /\ IF "closed" \in Refresh
     THEN /\ Execute(c, r, "closing") /\ UNCHANGED refresher
          /\ seen' = [seen EXCEPT ![c] = doc.text]
     ELSE /\ refresher' = [refresher EXCEPT ![c] = Teardown(@)]
          /\ UNCHANGED <<proc, posted, pid, run, loops, seen>>
  /\ UNCHANGED <<killed, events>>

DidClose ==
  /\ doc.state = "closing" /\ doc.closing = {} /\ Len(loops) = doc.depth
  /\ doc' = [doc EXCEPT !.state = "closed", !.depth = 0]
  /\ UNCHANGED <<procVars, commandVars, run, loops, killed, seen, events>>

-----------------------------------------------------------------------------
(* A slip: _processIdentifier keeps the last process. *)
DidTerminateKeepingPid(r) ==
  /\ Completes(r)
  /\ proc' = [proc EXCEPT ![r] = Idle]
  /\ run' = [run EXCEPT ![r].stage = "terminated"]
  /\ UNCHANGED <<pid, refresher, loops, killed, doc, seen, events>>

(* A slip: an error is presented and that is all. *)
DidTerminateIfNormal(r) ==
  /\ Completes(r)
  /\ proc' = [proc EXCEPT ![r] = Idle]
  /\ run' = IF proc[r].status # "failure" THEN [run EXCEPT ![r].stage = "terminated"] ELSE run
  /\ pid' = [pid EXCEPT ![run[r].command] = NoRun]
  /\ UNCHANGED <<refresher, loops, killed, doc, seen, events>>

(* The completion handler: the termination handler of the text view makes a  *)
(* refresher of a command that ended well, which brings one of its own.      *)
DidTerminate(r) ==
  /\ Completes(r)
  /\ proc' = [proc EXCEPT ![r] = Idle]
  /\ run' = [run EXCEPT ![r].stage = "terminated"]
  /\ LET c == run[r].command
         normalExit == proc[r].status # "failure"
     IN /\ pid' = [pid EXCEPT ![c] = NoRun]
        /\ refresher' =
             [refresher EXCEPT ![c] =
                IF ~@.made
                THEN [@ EXCEPT !.made   = normalExit /\ Refresh # {},
                               !.listed = normalExit /\ Refresh # {}]
                ELSE [@ EXCEPT !.running = FALSE, !.shouldRun = FALSE]]
  /\ UNCHANGED <<loops, killed, doc, seen, events>>

(* A slip: one didTerminate for all. *)
OutermostLoopReturns ==
  /\ loops # <<>> /\ run[Innermost].stage = "terminated"
  /\ run' = [run EXCEPT ![loops[1]] = FreeRun]
  /\ loops' = SubSeq(loops, 1, Len(loops) - 1)
  /\ killed' = killed \ {Innermost}
  /\ UNCHANGED <<procVars, pid, refresher, doc, seen, events>>

(* The innermost loop sees didTerminate, and the caller goes on. *)
LoopReturns ==
  /\ loops # <<>> /\ run[Innermost].stage = "terminated"
  /\ refresher' = IF run[Innermost].by = "closing"
                  THEN [refresher EXCEPT ![run[Innermost].command] = Teardown(@)]
                  ELSE refresher
  /\ run' = [run EXCEPT ![Innermost] = FreeRun]
  /\ loops' = SubSeq(loops, 1, Len(loops) - 1)
  /\ killed' = killed \ {Innermost}
  /\ UNCHANGED <<procVars, pid, doc, seen, events>>

(* In the loop of a command the user may stop that command: terminate kills *)
(* the process group of _processIdentifier.                                 *)
Interrupt ==
  /\ loops # <<>> /\ run[Innermost].stage = "running"
  /\ LET c == run[Innermost].command IN
       /\ pid[c] # NoRun
       /\ killed' = killed \cup {pid[c]}
  /\ UNCHANGED <<procVars, pid, refresher, run, loops, doc, seen, events>>

Child ==
  /\ \E r \in Runs : ProcessStep(r)
  /\ UNCHANGED <<commandVars, run, loops, killed, doc, seen, events>>

Killed ==
  /\ \E r \in killed, status \in ExitStatuses : Exit(r, status)
  /\ UNCHANGED <<commandVars, run, loops, killed, doc, seen, events>>

Machine ==
  \/ \E r \in Runs : DocumentSaved(r) \/ DidTerminate(r)
  \/ \E c \in Commands, r \in Runs : IdleTimerDidFire(c, r) \/ LastExecute(c, r)
  \/ DidClose \/ LoopReturns

Next ==
  \/ Machine \/ Child \/ Select \/ ContentDidChange \/ DocumentDidSave \/ DocumentWillClose
  \/ Interrupt

Spec == Init /\ [][Next]_vars

(* The run loop serves timers and blocks, saves end, and a process that is   *)
(* killed ends; no other has to.                                            *)
FairSpec ==
  /\ Spec
  /\ WF_vars(Plumbing /\ Child) /\ WF_vars(Killed)
  /\ WF_vars(LoopReturns) /\ WF_vars(DidClose)
  /\ \A r \in Runs : WF_vars(DocumentSaved(r)) /\ WF_vars(DidTerminate(r))
  /\ \A c \in Commands : WF_vars(\E r \in Runs : IdleTimerDidFire(c, r))
                         /\ WF_vars(\E r \in Runs : LastExecute(c, r))

-----------------------------------------------------------------------------
(* The types of the state; the run loops are those of the runs under way.    *)
TypeOK ==
  /\ ProcessTypeOK
  /\ pid \in [Commands -> Runs \cup {NoRun}]
  /\ refresher \in [Commands -> Refreshers] /\ run \in [Runs -> RunRecords]
  /\ loops \in Seq(Runs) /\ killed \subseteq Runs
  /\ {loops[i] : i \in 1..Len(loops)} = {r \in Runs : run[r].stage \in {"running", "terminated"}}
  /\ doc \in Documents /\ seen \in [Commands -> 0..MaxEvents] /\ events \in 0..MaxEvents

(* What terminate would kill is a process of that command whose end the main *)
(* thread has not yet been told of, never one that is long gone              *)
(* (OakCommand.mm:259, 379-385).                                             *)
KillsItsOwn ==
  \A c \in Commands : pid[c] # NoRun =>
    /\ run[pid[c]].command = c /\ run[pid[c]].stage = "running"
    /\ proc[pid[c]].child # "none"

(* The nested run loops end, all of them, unless a process never does. *)
LoopsReturn ==
  (\A r \in Runs : []<>~Hangs(r)) => [](loops # <<>> => <>(loops = <<>>))

(* "Run whenever document is changed" (Changes.md:315): a command with a     *)
(* refresher is asked to run for the last change after the refresher was     *)
(* made, unless it is torn down or a process never ends.                     *)
ChangesAreRefreshed ==
  (\A r \in Runs : []<>~Hangs(r)) =>
    \A c \in Commands :
      []((refresher[c].listed /\ refresher[c].timer) =>
         <>(seen[c] = doc.text \/ ~refresher[c].listed))
=============================================================================
