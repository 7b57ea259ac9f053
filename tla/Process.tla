------------------------------ MODULE Process ------------------------------
(***************************************************************************)
(* run_command, which command/src/runner.mm and OakCommand.mm share: the   *)
(* child writes to two pipes, a block on a background queue reads each and *)
(* waits until the main thread has taken what it read, a third waits for   *)
(* the child, and when all three are through the completion handler is     *)
(* sent to the main thread.  What is sent to the main thread waits in      *)
(* posted; the module that runs commands says what the handler does.       *)
(***************************************************************************)
EXTENDS Integers, FiniteSets

CONSTANTS
  Runs,        \* the runs of commands there may be, each at most once at a time
  ExitStatuses,\* how a child may end: exit statuses by what they mean
  Streams,     \* the pipes: "out" and "err", or "out" for both
  Background,  \* may a child leave processes behind that have its pipes open?
  MaxChunks    \* bound: writes to each pipe

AllStatuses == {"success", "failure", "signal", "discard", "replace text",
                "replace document", "insert text", "insert snippet", "show html",
                "show tool tip", "new document"}

ASSUME ProcessAssumption ==
  /\ ExitStatuses \subseteq AllStatuses /\ "out" \in Streams /\ "exit" \notin Streams
  /\ Background \in BOOLEAN /\ MaxChunks \in Nat

VARIABLES
  proc,        \* of each run: the child, the pipes and who reads them
  posted       \* blocks for the main thread

procVars == <<proc, posted>>

Blocks  == Runs \X (Streams \cup {"exit"})

(* child and status are the process, open the pipes somebody can write to,  *)
(* wrote what has been written; reader is a block of exhaust_fd_in_queue,   *)
(* taken what it has read and got what the handler was given.               *)
Processes ==
  [child  : {"none", "running", "ended", "reported"}, status : AllStatuses,
   open   : SUBSET Streams, wrote  : [Streams -> 0..MaxChunks],
   reader : [Streams -> {"reading", "waiting", "closed"}],
   taken  : [Streams -> 0..MaxChunks], got : [Streams -> 0..MaxChunks]]

Nothing == [s \in Streams |-> 0]
Started == [child |-> "running", status |-> "success", open |-> Streams, wrote |-> Nothing,
            reader |-> [s \in Streams |-> "reading"], taken |-> Nothing, got |-> Nothing]
Idle    == [Started EXCEPT !.child = "none", !.open = {}]

ProcessInit == proc = [r \in Runs |-> Idle] /\ posted = {}

Launch(r) == proc' = [proc EXCEPT ![r] = Started]

-----------------------------------------------------------------------------
Write(r, s) ==
  /\ s \in proc[r].open /\ proc[r].wrote[s] < MaxChunks
  /\ proc' = [proc EXCEPT ![r].wrote[s] = @ + 1]
  /\ UNCHANGED posted

(* What the child leaves behind in the background keeps a pipe open.         *)
Exit(r, status) ==
  /\ proc[r].child = "running"
  /\ \E left \in SUBSET Streams :
       /\ left # {} => Background
       /\ proc' = [proc EXCEPT ![r].child = "ended", ![r].status = status, ![r].open = left]
  /\ UNCHANGED posted

BackgroundEnds(r) ==
  /\ proc[r].child = "ended" /\ proc[r].open # {}
  /\ proc' = [proc EXCEPT ![r].open = {}]
  /\ UNCHANGED posted

(* read returns what is there, and nothing once nobody can write any more. *)
Read(r, s) ==
  /\ proc[r].child # "none" /\ proc[r].reader[s] = "reading"
  /\ \/ /\ proc[r].wrote[s] > proc[r].taken[s]
        /\ proc' = [proc EXCEPT ![r].taken[s] = proc[r].wrote[s], ![r].reader[s] = "waiting"]
        /\ posted' = posted \cup {<<r, s>>}
     \/ /\ proc[r].wrote[s] = proc[r].taken[s] /\ s \notin proc[r].open
        /\ proc' = [proc EXCEPT ![r].reader[s] = "closed"]
        /\ UNCHANGED posted

Handle(r, s) ==
  /\ <<r, s>> \in posted
  /\ proc' = [proc EXCEPT ![r].got[s] = proc[r].taken[s], ![r].reader[s] = "reading"]
  /\ posted' = posted \ {<<r, s>>}

CompleteAtExit(r) ==      \* a slip: the readers are not in the group
  /\ proc[r].child = "ended"
  /\ proc' = [proc EXCEPT ![r].child = "reported"]
  /\ posted' = posted \cup {<<r, "exit">>}

(* dispatch_group_notify: waitpid and both readers are through.             *)
Complete(r) ==
  /\ proc[r].child = "ended"
  /\ \A s \in Streams : proc[r].reader[s] = "closed"
  /\ proc' = [proc EXCEPT ![r].child = "reported"]
  /\ posted' = posted \cup {<<r, "exit">>}

(* The completion handler runs, and forgets the run. *)
Completes(r) ==
  /\ <<r, "exit">> \in posted
  /\ posted' = posted \ {<<r, "exit">>}

ProcessStep(r) ==
  \/ \E s \in Streams : Write(r, s) \/ Read(r, s) \/ Handle(r, s)
  \/ \E status \in ExitStatuses : Exit(r, status)
  \/ BackgroundEnds(r)
  \/ Complete(r)

(* The steps that are not left to the command's will. *)
Plumbing == \E r \in Runs : Complete(r) \/ \E s \in Streams : Read(r, s) \/ Handle(r, s)

Hangs(r) == proc[r].child = "running" \/ proc[r].open # {}

ProcessTypeOK == proc \in [Runs -> Processes] /\ posted \subseteq Blocks
=============================================================================
