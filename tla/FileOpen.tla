------------------------------ MODULE FileOpen ------------------------------
(***************************************************************************)
(* file::open (Frameworks/file): the state machine that takes one load     *)
(* from the request to show_content or show_error.  It stops at the        *)
(* authorization, at the read, at every import filter and at the question  *)
(* for an encoding, and goes on when a set_... method of the context is    *)
(* called.  Whoever may still call one holds the context; when nobody does *)
(* it is destroyed, and its destructor answers the load.  The filters are  *)
(* commands run as module Process says.                                    *)
(***************************************************************************)
EXTENDS Process, Sequences

CONSTANTS
  TextFilters,    \* import filters of the bundles that match the path
  BinaryFilters,  \* those of which some may match the content
  Replacing,      \* the filters that replace the document when they succeed
  Charsets, ASCII, UTF8,
  Unknown,        \* kCharsetUnknown: a guess that has nothing to say
  NoCharset,      \* kCharsetNoEncoding: no byte order mark, and ASCII for the rest
  BOMCharsets,    \* those with a byte order mark
  MaxAnswers,     \* bound: encodings the user tries
  MaxChanges      \* bound: changes by other programs

Filters == TextFilters \cup BinaryFilters

ASSUME OpenAssumption ==
  /\ Runs = Filters /\ TextFilters \cap BinaryFilters = {} /\ Replacing \subseteq Filters
  /\ {ASCII, UTF8} \cup BOMCharsets \subseteq Charsets
  /\ {Unknown, NoCharset} \cap Charsets = {} /\ Unknown # NoCharset
  /\ Charsets \cap Filters = {}
  /\ {"lf", "truncated"} \cap (Charsets \cup Filters) = {}
  /\ {MaxAnswers, MaxChanges} \subseteq Nat

VARIABLES
  state,       \* the state that runs next: _state, or _next_state while it waits
  holder,      \* who holds the context: the event loop or whoever is to call it
  asks,        \* does the callback ask for an encoding, or is it open_callback_t's own?
  bytes,       \* what matters of _content until it is decoded
  content,     \* what has been done to it, in order
  charset,     \* _encoding.charset ()
  guess,       \* _estimate_encoding_state
  ran,         \* _binary_import_filters and _text_import_filters
  error,       \* _error
  answers,     \* what the callback has been told
  file,        \* what another program may change: is the file there and readable?
  asked, changes  \* the counters of the bounds

outside == <<file, changes>>
vars == <<proc, posted, state, holder, asks, bytes, content, charset, guess, ran, error,
          answers, file, asked, changes>>

States  == {"start", "authorize", "load", "binary filters", "estimate encoding",
            "select encoding", "decode", "estimate line feeds", "harmonize", "text filters",
            "show", "done"}
Holders == {"loop", "reader", "reply", "charset", "filter", "nobody"}
Guesses == <<"bom", "attribute", "ascii", "utf8", "settings", "ask">>

(* What the bytes of a file may be: the encoding of their byte order mark,   *)
(* and the encodings they can be decoded from.  None of them is no content.  *)
Bytes ==
  {b \in [bom : BOMCharsets \cup {NoCharset}, fits : SUBSET Charsets] :
     ASCII \in b.fits => UTF8 \in b.fits /\ b.bom = NoCharset}
Null  == [bom |-> Unknown, fits |-> {}]
Empty == [bom |-> NoCharset, fits |-> Charsets]
Text  == [bom |-> NoCharset, fits |-> {UTF8}]

Done(s) == {s[i] : i \in 1..Len(s)}

Init ==
  /\ ProcessInit
  /\ asks \in BOOLEAN
  /\ bytes \in Bytes \cup {Null}  \* existingContent
  /\ file \in {"readable", "locked", "gone", "unreadable"}
  /\ state = "start" /\ holder = "loop" /\ content = <<>> /\ charset = NoCharset
  /\ guess = 1 /\ ran = {} /\ error = "none" /\ answers = <<>>
  /\ asked = 0 /\ changes = 0

-----------------------------------------------------------------------------
At(s) == holder = "loop" /\ state = s

Proceed(s) == state' = s /\ holder' = "loop" /\ UNCHANGED answers

(* The last holder lets go: the destructor answers a load that is not done. *)
Destroyed(e) ==
  /\ holder' = "nobody"
  /\ answers' = Append(answers, [shown |-> FALSE, error |-> e])
  /\ UNCHANGED state

Start ==
  /\ At("start")
  /\ Proceed(IF bytes # Null THEN "binary filters" ELSE "authorize")
  /\ UNCHANGED <<procVars, asks, bytes, content, charset, guess, ran, error, asked, outside>>

(* obtain_right asks the user, and returns when he has answered.             *)
Authorize ==
  /\ At("authorize")
  /\ \/ Proceed("load")
     \/ file = "locked" /\ Destroyed(error)
  /\ UNCHANGED <<procVars, asks, bytes, content, charset, guess, ran, error, asked, outside>>

LoadContent ==
  /\ At("load")
  /\ holder' = "reader" /\ state' = "binary filters"
  /\ UNCHANGED <<procVars, asks, bytes, content, charset, guess, ran, error, answers, asked,
                 outside>>

(* The next filter that has not run yet. *)
RunFilter(f) ==
  /\ f \notin ran /\ ran' = ran \cup {f}
  /\ Launch(f)
  /\ holder' = "filter" /\ UNCHANGED <<posted, state, answers>>

(* One binary filter matches the content best, or none does; without         *)
(* content the event loop lets go of the context.                            *)
BinaryFilter ==
  /\ At("binary filters")
  /\ \/ bytes # Null /\ \E f \in BinaryFilters : RunFilter(f)
     \/ bytes # Null /\ Proceed("estimate encoding") /\ UNCHANGED <<procVars, ran>>
     \/ bytes = Null /\ Destroyed(error) /\ UNCHANGED <<procVars, ran>>
  /\ UNCHANGED <<asks, bytes, content, charset, guess, error, asked, outside>>

(* The guesses are made in turn; the last one is to ask the user.            *)
Guess(g) ==
  CASE g = "bom"       -> {IF bytes.bom # NoCharset THEN bytes.bom ELSE charset}
    [] g = "attribute" -> Charsets \cup {Unknown}
    [] g = "ascii"     -> {IF ASCII \in bytes.fits THEN NoCharset ELSE Unknown}
    [] g = "utf8"      -> {IF UTF8 \in bytes.fits THEN UTF8 ELSE Unknown}
    [] g = "settings"  -> Charsets \cup {Unknown}
    [] OTHER           -> {charset}

EstimateEncodingOnAndOn ==  \* a slip: the state does not stay at the last guess
  /\ At("estimate encoding")
  /\ guess' = guess + 1
  /\ IF guess < Len(Guesses)
     THEN charset' \in Guess(Guesses[guess]) /\ Proceed("decode")
     ELSE UNCHANGED charset /\ Proceed("select encoding")
  /\ UNCHANGED <<procVars, asks, bytes, content, ran, error, asked, outside>>

EstimateEncoding ==
  /\ At("estimate encoding")
  /\ charset' \in Guess(Guesses[guess])
  /\ IF guess < Len(Guesses)
     THEN guess' = guess + 1 /\ Proceed("decode")
     ELSE UNCHANGED guess /\ Proceed("select encoding")
  /\ UNCHANGED <<procVars, asks, bytes, content, ran, error, asked, outside>>

SelectEncodingByDefault ==  \* a slip: what save_callback_t does instead of asking
  /\ At("select encoding")
  /\ charset' = UTF8 /\ Proceed("decode")
  /\ UNCHANGED <<procVars, asks, bytes, content, guess, ran, error, asked, outside>>

SelectEncoding ==
  /\ At("select encoding")
  /\ IF asks
     THEN holder' = "charset" /\ state' = "decode" /\ UNCHANGED answers
     ELSE Destroyed(error)
  /\ UNCHANGED <<procVars, asks, bytes, content, charset, guess, ran, error, asked, outside>>

Encoding == IF charset = NoCharset THEN ASCII ELSE charset

DecodeContent ==
  /\ At("decode")
  /\ IF Encoding \in bytes.fits
     THEN bytes' = Text /\ content' = Append(content, Encoding) /\ Proceed("estimate line feeds")
     ELSE UNCHANGED <<bytes, content>> /\ Proceed("estimate encoding")
  /\ UNCHANGED <<procVars, asks, charset, guess, ran, error, asked, outside>>

LineFeeds ==
  \/ At("estimate line feeds") /\ Proceed("harmonize") /\ UNCHANGED content
  \/ At("harmonize") /\ content' = Append(content, "lf") /\ Proceed("text filters")

HarmonizeLineFeeds ==
  /\ LineFeeds
  /\ UNCHANGED <<procVars, asks, bytes, charset, guess, ran, error, asked, outside>>

TextFilter ==
  /\ At("text filters")
  /\ \/ \E f \in TextFilters : RunFilter(f)
     \/ TextFilters \subseteq ran /\ Proceed("show") /\ UNCHANGED <<procVars, ran>>
  /\ UNCHANGED <<asks, bytes, content, charset, guess, error, asked, outside>>

ShowAndDestroy ==         \* a slip: the state is set after the callback was called
  /\ At("show")
  /\ answers' = answers \o <<[shown |-> TRUE, error |-> error], [shown |-> FALSE, error |-> error]>>
  /\ state' = "done" /\ holder' = "nobody"
  /\ UNCHANGED <<procVars, asks, bytes, content, charset, guess, ran, error, asked, outside>>

ShowContent ==
  /\ At("show")
  /\ answers' = Append(answers, [shown |-> TRUE, error |-> error])
  /\ state' = "done" /\ holder' = "nobody"
  /\ UNCHANGED <<procVars, asks, bytes, content, charset, guess, ran, error, asked, outside>>

-----------------------------------------------------------------------------
(* The others who hold the context. *)

(* handle_request, on a background thread: what there is to read now, by the *)
(* helper if need be.  A file that is not there is an empty one; one that    *)
(* cannot be opened or that changes while it is read has no content.         *)
ReadFile ==
  /\ holder = "reader" /\ holder' = "reply"
  /\ \/ file \in {"readable", "locked"} /\ bytes' \in Bytes
     \/ file \in {"readable", "locked", "unreadable"} /\ bytes' = Null
     \/ file = "gone" /\ bytes' = Empty
  /\ UNCHANGED <<procVars, state, asks, content, charset, guess, ran, error, answers, asked,
                 outside>>

Reply ==
  /\ holder = "reply" /\ Proceed(state)
  /\ UNCHANGED <<procVars, asks, bytes, content, charset, guess, ran, error, asked, outside>>

ChooseEncoding ==
  /\ holder = "charset"
  /\ asked < MaxAnswers /\ asked' = asked + 1
  /\ charset' \in Charsets
  /\ Proceed(state)
  /\ UNCHANGED <<procVars, asks, bytes, content, guess, ran, error, outside>>

Cancel ==
  /\ holder = "charset" /\ Destroyed(error)
  /\ UNCHANGED <<procVars, asks, bytes, content, charset, guess, ran, error, asked, outside>>

(* The filter's output replaces the document: it says so itself, or it ended *)
(* well (so does one that a signal killed) and its bundle item says so.      *)
Replaces(f) ==
  \/ proc[f].status = "replace document"
  \/ proc[f].status \in {"success", "signal"} /\ f \in Replacing

Whole(f) == proc[f].got["out"] = proc[f].wrote["out"] /\ proc[f].status # "signal"

(* did_exit and event_delegate_t: the output becomes the content, or the     *)
(* delegate lets go of the context.                                          *)
FilterEnds(f) ==
  /\ Completes(f) /\ proc' = [proc EXCEPT ![f] = Idle]
  /\ \/ /\ Replaces(f)
        /\ content' = Append(content, IF Whole(f) THEN f ELSE "truncated")
        /\ bytes' \in (IF state = "binary filters" THEN Bytes ELSE {bytes})
        /\ Proceed(state) /\ UNCHANGED error
     \/ /\ proc[f].status = "failure"
        /\ error' = "filter" /\ Destroyed("filter") /\ UNCHANGED <<content, bytes>>
     \/ /\ ~Replaces(f) /\ proc[f].status # "failure"
        /\ Destroyed(error) /\ UNCHANGED <<content, bytes, error>>
  /\ UNCHANGED <<asks, charset, guess, ran, asked, outside>>

(* Nobody looks at the file again once it has been read. *)
OutsideChange ==
  /\ state \in {"start", "authorize", "load"} \/ holder = "reader"
  /\ changes < MaxChanges /\ changes' = changes + 1
  /\ file' \in {"readable", "locked", "gone", "unreadable"} \ {file}
  /\ UNCHANGED <<procVars, state, holder, asks, bytes, content, charset, guess, ran, error,
                 answers, asked>>

Command ==
  /\ \E f \in Filters : ProcessStep(f)
  /\ UNCHANGED <<state, holder, asks, bytes, content, charset, guess, ran, error, answers,
                 asked, outside>>

Machine ==
  \/ Start \/ Authorize \/ LoadContent \/ BinaryFilter \/ EstimateEncoding \/ SelectEncoding
  \/ DecodeContent \/ HarmonizeLineFeeds \/ TextFilter \/ ShowContent \/ ReadFile \/ Reply
  \/ \E f \in Filters : FilterEnds(f)

Next == Machine \/ Command \/ ChooseEncoding \/ Cancel \/ OutsideChange

Spec == Init /\ [][Next]_vars

(* The event loop, the run loop and the background queues run.  Nobody has  *)
(* to answer a question, and no command has to end.                         *)
FairSpec == Spec /\ WF_vars(Machine) /\ WF_vars(Plumbing /\ Command)

-----------------------------------------------------------------------------
(* The types of the state. *)
TypeOK ==
  /\ ProcessTypeOK
  /\ state \in States /\ holder \in Holders /\ asks \in BOOLEAN
  /\ bytes \in Bytes \cup {Null}
  /\ content \in Seq(Filters \cup Charsets \cup {"lf", "truncated"})
  /\ charset \in Charsets \cup {Unknown, NoCharset}
  /\ guess \in 1..Len(Guesses) /\ ran \subseteq Filters
  /\ error \in {"none", "filter"}
  /\ answers \in Seq([shown : BOOLEAN, error : {"none", "filter"}])
  /\ file \in {"readable", "locked", "gone", "unreadable"}
  /\ asked \in 0..MaxAnswers /\ changes \in 0..MaxChanges

Stage(x) == CASE x \in BinaryFilters -> 1 [] x \in Charsets -> 2 [] x = "lf" -> 3
              [] x \in TextFilters -> 4 [] OTHER -> 5

(* The text that is shown is the whole output of every filter that ran, each *)
(* once, decoded once, between the binary and the text filters, from the     *)
(* encoding the callback is told, with its line feeds made harmonious; and   *)
(* it had been through every text filter (open.cc:291-449).                  *)
ShownIsPrepared ==
  (Len(answers) > 0 /\ answers[1].shown) =>
    /\ \A i, j \in 1..Len(content) : i < j => /\ content[i] # content[j]
                                              /\ Stage(content[i]) <= Stage(content[j])
    /\ Done(content) = ran \cup {Encoding, "lf"}
    /\ TextFilters \subseteq ran

(* What the callback has been told so far. *)
Answer == CASE Len(answers) = 0 -> "none"
            [] Len(answers) > 1 -> "twice"
            [] OTHER -> IF answers[1].shown THEN "content" ELSE "error"

Request == INSTANCE LoadRequest WITH
  bytes <- bytes # Null, failed <- error # "none", answer <- Answer

(* Each load is answered exactly once, with a text only if one was read and  *)
(* no filter failed (open.cc:37-41, 445-450).                                *)
ImplementsLoad == Request!Spec

(* Every load is answered, unless it waits for the user for ever or for a    *)
(* filter that does not end or leaves something behind with its pipes open.  *)
Answers  == []<>(holder # "charset") /\ \A f \in Filters : []<>~Hangs(f)
LoadEnds == Answers => [](holder # "nobody" => <>(holder = "nobody"))
=============================================================================
