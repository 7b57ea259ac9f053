------------------------------ MODULE FileSave ------------------------------
(***************************************************************************)
(* file::save (Frameworks/file): the state machine that takes one save     *)
(* from the request to did_save.  It stops at every question to the user,  *)
(* at every export filter and at the write, and goes on when a set_...     *)
(* method of the context is called.  Whoever may still call one holds the  *)
(* context; when nobody does it is destroyed, and its destructor answers   *)
(* the save.  Other programs may change the file between any two steps.    *)
(***************************************************************************)
EXTENDS Integers, Sequences, FiniteSets

CONSTANTS
  TextFilters,     \* export filters of the bundles that match the path
  BinaryFilters,
  Charsets,        \* what the user can choose from
  Fits,            \* those that can represent the text
  UTF8,            \* kCharsetUTF8
  NoCharset,       \* kCharsetNoEncoding
  FilterOutcomes,  \* how the command of a filter may end
  OutsideStatuses, \* what other programs may make of the file's status
  MaxAnswers,      \* bound: encodings the user tries
  MaxChanges       \* bound: changes by other programs

Statuses == {"writable", "writable by root", "not writable", "not writable but owner",
             "no parent", "read only"}
Locked   == {"not writable", "not writable but owner"}
Outcomes == {"replaced", "truncated", "error", "other output"}

ASSUME SaveAssumption ==
  /\ Fits \subseteq Charsets /\ UTF8 \in Charsets /\ NoCharset \notin Charsets
  /\ TextFilters \cap BinaryFilters = {}
  /\ Charsets \cap (TextFilters \cup BinaryFilters) = {}
  /\ {"crlf", "truncated"} \cap (Charsets \cup TextFilters \cup BinaryFilters) = {}
  /\ FilterOutcomes \subseteq Outcomes /\ OutsideStatuses \subseteq Statuses
  /\ {MaxAnswers, MaxChanges} \subseteq Nat

VARIABLES
  state,        \* the state that runs next: _state, or _next_state while it waits
  holder,       \* who holds the context: the event loop or whoever is to call it
  request,      \* what was asked for: is there a window, a path, CRLF, atomic_save
  charset,      \* _encoding.charset ()
  makeWritable, \* _make_writable
  createParent, \* _create_parent
  content,      \* what has been done to the text, in order
  error,        \* _error
  cancelled,    \* the callback's _cancel
  answers,      \* what did_save has been told
  file,         \* the file's status and content
  wrote,        \* history: the file was given the new text
  asked, changes  \* the counters of the bounds

choices == <<request, charset, makeWritable, createParent, cancelled, asked>>
outside == <<file, wrote, changes>>
vars == <<state, holder, request, charset, makeWritable, createParent, content, error,
          cancelled, answers, file, wrote, asked, changes>>

States  == {"start", "make writable", "authorize", "text filters", "newlines",
            "select encoding", "encode", "binary filters", "save", "notify", "done"}
Holders == {"loop", "path", "make writable", "parent", "authorization", "charset",
            "filter", "worker", "reply", "nobody"}

(* A file that is locked exists, and one without a folder does not. *)
Files ==
  {f \in [status : Statuses, content : {"none", "old", "partial", "new"}] :
     /\ f.status = "no parent" => f.content = "none"
     /\ f.status \in Locked => f.content # "none"}

Done(s) == {s[i] : i \in 1..Len(s)}

Init ==
  /\ request \in [window : BOOLEAN, path : BOOLEAN, crlf : BOOLEAN, atomic : BOOLEAN]
  /\ charset \in {NoCharset, UTF8}
  /\ file \in {f \in Files : f.content \in {"none", "old"}}
  /\ state = "start" /\ holder = "loop"
  /\ makeWritable = FALSE /\ createParent = FALSE /\ cancelled = FALSE
  /\ content = <<>> /\ error = "none" /\ answers = <<>>
  /\ wrote = FALSE /\ asked = 0 /\ changes = 0

-----------------------------------------------------------------------------
Runs(s) == holder = "loop" /\ state = s

Proceed(s) == state' = s /\ holder' = "loop" /\ UNCHANGED answers

(* The last holder lets go: the destructor answers a save that is not done. *)
Destroyed(e) ==
  /\ holder' = "nobody"
  /\ answers' = Append(answers, [success |-> FALSE, error |-> e])
  /\ UNCHANGED state

(* A question of the callback: without a window nobody is asked. *)
Ask(who, s) ==
  IF request.window
  THEN holder' = who /\ state' = s /\ UNCHANGED answers
  ELSE Destroyed(error)

Start ==
  /\ Runs("start")
  /\ IF request.path THEN Proceed("make writable") ELSE Ask("path", "make writable")
  /\ UNCHANGED <<choices, content, error, outside>>

MakeWritable ==
  /\ Runs("make writable")
  /\ \/ file.status \in Locked /\ Ask("make writable", "authorize") /\ UNCHANGED file
     \/ /\ file.status \in {"writable", "writable by root"}
        /\ Proceed("authorize") /\ UNCHANGED file
     \/ /\ file.status = "no parent" /\ ~createParent
        /\ Ask("parent", "make writable") /\ UNCHANGED file
     \/ /\ file.status = "no parent" /\ createParent
        /\ \/ file' = [file EXCEPT !.status = "writable"] /\ Proceed("authorize")
           \/ UNCHANGED file /\ Destroyed(error)  \* make_dir failed
     \/ file.status = "read only" /\ Destroyed(error) /\ UNCHANGED file
  /\ UNCHANGED <<choices, content, error, wrote, changes>>

Authorize ==
  /\ Runs("authorize")
  /\ LET writable == file.status \notin Locked \/ makeWritable IN
     \/ /\ file.status \in {"writable", "not writable but owner"} /\ writable
        /\ Proceed("text filters")
     \/ /\ file.status \in {"writable by root", "not writable"} /\ writable
        /\ Ask("authorization", "text filters")
     \/ /\ file.status \in {"no parent", "read only"} \/ ~writable
        /\ Destroyed(error)
  /\ UNCHANGED <<choices, content, error, outside>>

(* A filter that has not run yet runs, or the next state follows. *)
RunFilter(filters, next) ==
  IF filters \subseteq Done(content)
  THEN Proceed(next)
  ELSE holder' = "filter" /\ UNCHANGED <<state, answers>>

TextFilter ==
  /\ Runs("text filters") /\ RunFilter(TextFilters, "newlines")
  /\ UNCHANGED <<choices, content, error, outside>>

ConvertLineFeeds ==
  /\ Runs("newlines") /\ Proceed("encode")
  /\ content' = IF request.crlf THEN Append(content, "crlf") ELSE content
  /\ UNCHANGED <<choices, error, outside>>

SelectEncodingByDefault ==  \* a slip: what save_callback_t does when it is not overridden
  /\ Runs("select encoding")
  /\ charset' = UTF8 /\ Proceed("encode")
  /\ UNCHANGED <<request, makeWritable, createParent, cancelled, asked, content, error,
                 outside>>

SelectEncodingAnew ==     \* a slip: the state before encoding comes again
  /\ Runs("select encoding")
  /\ IF charset = NoCharset
     THEN charset' = UTF8 /\ Proceed("newlines")
     ELSE Ask("charset", "newlines") /\ UNCHANGED charset
  /\ UNCHANGED <<request, makeWritable, createParent, cancelled, asked, content, error,
                 outside>>

SelectEncoding ==
  /\ Runs("select encoding")
  /\ IF charset = NoCharset
     THEN charset' = UTF8 /\ Proceed("encode")
     ELSE Ask("charset", "encode") /\ UNCHANGED charset
  /\ UNCHANGED <<request, makeWritable, createParent, cancelled, asked, content, error,
                 outside>>

EncodeContent ==
  /\ Runs("encode")
  /\ IF charset \in Fits
     THEN content' = Append(content, charset) /\ Proceed("binary filters")
     ELSE UNCHANGED content /\ Proceed("select encoding")
  /\ UNCHANGED <<choices, error, outside>>

BinaryFilter ==
  /\ Runs("binary filters") /\ RunFilter(BinaryFilters, "save")
  /\ UNCHANGED <<choices, content, error, outside>>

SaveContent ==
  /\ Runs("save")
  /\ holder' = "worker" /\ state' = "notify"
  /\ UNCHANGED <<choices, content, error, answers, outside>>

NotifyAndDestroy ==       \* a slip: the destructor does not look at the state
  /\ Runs("notify")
  /\ answers' = answers \o <<[success |-> error = "none", error |-> error],
                            [success |-> FALSE, error |-> error]>>
  /\ state' = "done" /\ holder' = "nobody"
  /\ UNCHANGED <<choices, content, error, outside>>

NotifyCallback ==
  /\ Runs("notify")
  /\ answers' = Append(answers, [success |-> error = "none", error |-> error])
  /\ state' = "done" /\ holder' = "nobody"
  /\ UNCHANGED <<choices, content, error, outside>>

-----------------------------------------------------------------------------
(* The others who hold the context. *)

Cancel ==
  /\ holder \in {"path", "make writable", "parent", "authorization", "charset"}
  /\ cancelled' = TRUE
  /\ Destroyed(error)
  /\ UNCHANGED <<request, charset, makeWritable, createParent, asked, content, error,
                 outside>>

Accept ==
  /\ holder \in {"path", "make writable", "parent", "authorization"}
  /\ request'      = [request EXCEPT !.path = @ \/ holder = "path"]
  /\ makeWritable' = (makeWritable \/ holder = "make writable")
  /\ createParent' = (createParent \/ holder = "parent")
  /\ Proceed(state)
  /\ UNCHANGED <<charset, cancelled, asked, content, error, outside>>

ChooseEncoding ==
  /\ holder = "charset"
  /\ asked < MaxAnswers /\ asked' = asked + 1
  /\ charset' \in Charsets
  /\ Proceed(state)
  /\ UNCHANGED <<request, makeWritable, createParent, cancelled, content, error, outside>>

(* The command of the filter ends: with the new text, with a status that is  *)
(* an error, or with output that is not a text.  One that a signal killed    *)
(* counts as having ended well (command/src/runner.mm).                      *)
FilterEnds ==
  /\ holder = "filter"
  /\ LET filters == IF state = "text filters" THEN TextFilters ELSE BinaryFilters IN
     \E f \in filters \ Done(content), outcome \in FilterOutcomes :
        \/ /\ outcome = "replaced"
           /\ content' = Append(content, f) /\ Proceed(state) /\ UNCHANGED error
        \/ /\ outcome = "truncated"
           /\ content' = content \o <<f, outcome>> /\ Proceed(state) /\ UNCHANGED error
        \/ /\ outcome = "error"
           /\ error' = "filter" /\ Destroyed("filter") /\ UNCHANGED content
        \/ outcome = "other output" /\ Destroyed(error) /\ UNCHANGED <<content, error>>
  /\ UNCHANGED <<choices, outside>>

WrittenWithoutMessage(f, e) ==  \* a slip: the message of a failure is empty
  file' = f /\ wrote' = (f.content = "new") /\ error' = (IF e = "none" THEN e ELSE "")

Written(f, e) == file' = f /\ error' = e /\ wrote' = (f.content = "new")

WriteFailsInPlace(f, atomic) ==  \* a slip: no file is written atomically
  Written(f, "write") \/ Written([f EXCEPT !.content = "partial"], "write")

(* Writing a file that is not there is not atomic, whatever the setting.     *)
WriteFails(f, atomic) ==
  \/ Written(f, "write")
  \/ ~(atomic /\ f.content # "none") /\ Written([f EXCEPT !.content = "partial"], "write")

WriteSucceeds(f) ==
  \/ Written([f EXCEPT !.content = "new"], "none")
  \/ Written([f EXCEPT !.content = "new"], "attributes")

(* write_to_path, on a worker thread. *)
WriteToPath ==
  /\ holder = "worker"
  /\ holder' = "reply"
  /\ LET own == [file EXCEPT !.status = "writable"] IN
     \/ /\ file.status \in {"writable", "not writable but owner"}  \* chmod
        /\ WriteSucceeds(own) \/ WriteFails(own, request.atomic)
     \/ /\ file.status \in {"writable by root", "not writable"}    \* the helper writes
        /\ WriteSucceeds(file) \/ WriteFails(file, TRUE)
     \/ file.status \in {"no parent", "read only"} /\ Written(file, "none")
  /\ UNCHANGED <<state, choices, content, answers, changes>>

Reply ==
  /\ holder = "reply"
  /\ Proceed(state)
  /\ UNCHANGED <<choices, content, error, outside>>

(* Another program changes the permissions, the file or its folder. *)
OutsideChange ==
  /\ changes < MaxChanges /\ changes' = changes + 1
  /\ file' \in {f \in Files : /\ f.status \in OutsideStatuses
                              /\ f.content \in {file.content, "none", "old"}}
  /\ UNCHANGED <<state, holder, choices, content, error, answers, wrote>>

Machine ==
  \/ Start \/ MakeWritable \/ Authorize \/ TextFilter \/ ConvertLineFeeds
  \/ SelectEncoding \/ EncodeContent \/ BinaryFilter \/ SaveContent \/ NotifyCallback
  \/ FilterEnds \/ WriteToPath \/ Reply

Next == Machine \/ Cancel \/ Accept \/ ChooseEncoding \/ OutsideChange

Spec == Init /\ [][Next]_vars

(* The event loop runs, commands end and the worker writes.  Nobody has to  *)
(* answer a question.                                                       *)
FairSpec == Spec /\ WF_vars(Machine)

-----------------------------------------------------------------------------
(* The types of the state. *)
TypeOK ==
  /\ state \in States /\ holder \in Holders
  /\ request \in [window : BOOLEAN, path : BOOLEAN, crlf : BOOLEAN, atomic : BOOLEAN]
  /\ charset \in Charsets \cup {NoCharset}
  /\ {makeWritable, createParent, cancelled, wrote} \subseteq BOOLEAN
  /\ content \in Seq(TextFilters \cup BinaryFilters \cup Charsets \cup {"crlf", "truncated"})
  /\ error \in {"none", "filter", "write", "attributes"}
  /\ answers \in Seq([success : BOOLEAN, error : {"none", "filter", "write", "attributes"}])
  /\ file \in Files
  /\ asked \in 0..MaxAnswers /\ changes \in 0..MaxChanges

(* Which part of the preparation a step of it belongs to. *)
Stage(x) == CASE x \in TextFilters -> 1 [] x = "crlf" -> 2
              [] x \in Charsets -> 3 [] x \in BinaryFilters -> 4 [] OTHER -> 5

(* What is written has been through every text filter, had its line feeds   *)
(* converted if that was asked for, was encoded, and went through every     *)
(* binary filter, each once and in this order, however often the user had   *)
(* to choose another encoding (save.cc:241-341).                            *)
WrittenIsPrepared ==
  wrote =>
    /\ \A i, j \in 1..Len(content) : i < j => /\ content[i] # content[j]
                                              /\ Stage(content[i]) <= Stage(content[j])
    /\ \E c \in Fits : Done(content) = TextFilters \cup BinaryFilters \cup {c}
                                      \cup (IF request.crlf THEN {"crlf"} ELSE {})

(* With atomic saves a file that is there keeps its text when the write     *)
(* fails (intermediate.mm).                                                 *)
FailedWriteKeepsFile ==
  [][request.atomic /\ file.content = "old" => file'.content # "partial"]_vars

(* What did_save has been told so far. *)
Answer == CASE Len(answers) = 0 -> "none"
            [] Len(answers) > 1 -> "twice"
            [] OTHER -> IF answers[1].success THEN "success" ELSE "failure"

Request == INSTANCE SaveRequest WITH written <- wrote, answer <- Answer

(* Each save is answered exactly once, with success only after the file has *)
(* been written, and nothing is written after the answer.                   *)
ImplementsRequest == Request!Spec

(* The part of it that others can break: "OAK_ASSERT_EQ(success, true);"    *)
(* and then the file has the content (t_save.cc:66-67).                     *)
SuccessMeansWritten == \A i \in 1..Len(answers) : answers[i].success => wrote

(* Every save ends, unless it waits for the user. *)
Waiting  == holder \in {"path", "make writable", "parent", "authorization", "charset"}
SaveEnds == [](holder # "nobody" => <>(holder = "nobody" \/ Waiting))
=============================================================================
