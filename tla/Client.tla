------------------------------- MODULE Client -------------------------------
(***************************************************************************)
(* The client program (client/src/client.c, main.c) over the library it    *)
(* calls (serverapi/src/serverapi.c): the command line is parsed, the      *)
(* connection is opened, the options are handled one after the other, each *)
(* as a few requests for each of its files, and the connection is closed.  *)
(*                                                                         *)
(* An option is [opt, ok, files, val]: its letter, whether its value can   *)
(* be parsed, the files it names (of the directory, for -w) and a number.  *)
(* "arg" stands for an argument without a letter, "?" for a letter that is *)
(* no option.  A call of the library, request and reply, is one step; the  *)
(* server is seen as the list of opened files it keeps for the session,    *)
(* and it may end the connection in any call and between two.              *)
(***************************************************************************)
EXTENDS Integers, Sequences, FiniteSets, SequencesExt

CONSTANTS
    CommandLines,       \* bound: the command lines, as getopt returns them
    MAX_OPTIONS_COUNT,
    Msec, Timeout,      \* the pause between two connects and the limit
    SIZE_MAX,           \* the largest size_t, which is also what -1 becomes in one
    Sizes               \* bound: the sizes of the messages, as read and written

\* An argument as getopt and the parsing of its value leave it.
Arguments ==
    [opt : {"h", "p", "f", "w", "W", "a", "D", "r", "R", "d", "t", "l", "u", "c", "L", "arg", "?"},
     ok : BOOLEAN, files : Seq(STRING), val : Int]

ASSUME ClientAssumption ==
    /\ CommandLines \subseteq Seq(Arguments)
    /\ MAX_OPTIONS_COUNT \in Nat \ {0}
    /\ Msec \in Nat \ {0} /\ Timeout \in Nat
    /\ SIZE_MAX \in Nat \ {0}
    /\ Sizes \subseteq 1 .. SIZE_MAX - 1 /\ Sizes # {}

VARIABLES
    args,       \* the arguments still to parse
    options,    \* options, optionsSize
    gIsExtendedLogEnabled,
    pc,         \* what main is doing, or how it ended
    timeout,    \* openConnection
    link,       \* the connection as the system has it
    opened,     \* <<f, o>>: the server has file f open, for an option with letter o
    index, file, step,          \* the option, its file and the call to make
    status,                     \* of the calls for that file so far
    bytesWritten, bytesRead,
    line,       \* the last line logged for an operation
    history     \* what really happened; the program does not know

parseVars == <<args, options, gIsExtendedLogEnabled>>
placeVars == <<index, file, step, status>>
callVars == <<link, opened, bytesWritten, bytesRead>>
vars == <<parseVars, pc, timeout, placeVars, callVars, line, history>>

Ends == {"done", "failed", "killed", "usage"}
\* acked, garbage: every call for the current file was acknowledged, a read failed
\* since the last line; asked, answered: the bytes of the requests sent and of the
\* replies received since then, of the session's request only the reply;
\* requested: the files, as <<index, file>>, a request was sent for.
NoHistory == [acked |-> TRUE, garbage |-> FALSE, asked |-> 0, answered |-> 0, requested |-> {}]
NoLine == [opt |-> "none", ok |-> TRUE, w |-> 0, r |-> 0, h |-> NoHistory]

Init ==
    /\ args \in CommandLines /\ options = << >> /\ gIsExtendedLogEnabled = FALSE
    /\ pc = "parsing" /\ timeout = Timeout /\ link = "none" /\ opened = {}
    /\ index = 1 /\ file = 1 /\ step = 1 /\ status = TRUE
    /\ bytesWritten = 0 /\ bytesRead = 0
    /\ line = NoLine /\ history = NoHistory

----------------------------------------------------------------------------
(* parseArguments *)

hasPriority(opt) == opt \in {"h", "p", "f", "arg"}

\* handleOptArgument: the number goes to the last option that was stored, if
\* that is -R; the caller ignores the error otherwise.
WithArgument(a) ==
    IF options # << >> /\ Last(options).opt = "R" /\ a.ok
    THEN [options EXCEPT ![Len(options)].val = a.val]
    ELSE options

parseDone ==
    /\ pc' = "connecting"
    /\ UNCHANGED parseVars

\* One argument: parsed, then handled at once or stored.
parseOption ==
    LET a == Head(args) IN
    /\ args' = Tail(args)
    /\ pc' = IF a.opt = "h" THEN "usage"
             ELSE IF a.opt = "?" \/ (~a.ok /\ a.opt \in {"w", "t", "L"}) THEN "failed" ELSE pc
    /\ gIsExtendedLogEnabled' = (gIsExtendedLogEnabled \/ a.opt = "p")
    /\ options' = IF a.opt = "arg" THEN WithArgument(a)
                  ELSE IF hasPriority(a.opt) THEN options ELSE Append(options, a)

\* (fault: one option too many)
NoRoom_Late == Len(options) > MAX_OPTIONS_COUNT
NoRoom == Len(options) = MAX_OPTIONS_COUNT

\* No more arguments, or no more room for them: the others are not looked at.
parseArguments ==
    /\ pc = "parsing"
    /\ IF args = << >> \/ NoRoom THEN parseDone ELSE parseOption
    /\ UNCHANGED <<timeout, placeVars, callVars, line, history>>

----------------------------------------------------------------------------
(* openConnection: connect is tried again after a pause, as long as there is
   time left; then the session is opened. *)

\* (fault: the time spent is not counted)
TimeLeft_Same == timeout
TimeLeft == timeout - Msec

connectFails ==
    /\ pc = "connecting" /\ link = "none"
    /\ IF timeout > 0 THEN pc' = "pausing" /\ timeout' = TimeLeft
       ELSE pc' = "failed" /\ UNCHANGED timeout
    /\ UNCHANGED <<parseVars, placeVars, callVars, line, history>>

nanosleep ==
    /\ pc = "pausing" /\ pc' = "connecting"
    /\ UNCHANGED <<parseVars, timeout, placeVars, callVars, line, history>>

connect ==
    /\ pc = "connecting" /\ link = "none" /\ link' = "up"
    /\ UNCHANGED <<parseVars, pc, timeout, placeVars, opened, bytesWritten, bytesRead, line, history>>

----------------------------------------------------------------------------
(* A call of the library and its outcomes:
     done      the server did what was asked
     notSaved  it did, but the files it sent back could not be saved
     refused   the reply is an error
     noReply   the connection ended
     garbage   read failed: readMessage's -1 is a large size_t that "<= 0" does
               not notice; it is counted, and the reply is looked for in a
               message that was never filled in; that can be taken for a
               success (garbageDone)
     crash     the same, and freeMessageContent frees what is found in it
   A call on a connection that is closed never returns: SIGPIPE, which the
   client does not ignore, kills it. *)

OpenedNow == {p[1] : p \in opened}

\* May the server do what is asked, may it refuse?
Accepts(call, f) ==
    CASE call \in {"openSession", "closeSession", "readN"} -> TRUE
      [] call = "open" -> f \notin OpenedNow
      [] OTHER -> f \in OpenedNow

Refuses(call, f) == call # "close" \/ ~Accepts(call, f)

\* Calls whose reply may carry files to save in the directory.
SavesReply == {"open", "write", "append", "readN"}

\* waitServerResponse and handleServerStatus; in readFile the message that was
\* not filled in is the request, whose type is an error.
Outcomes(call, f, hasDir) ==
    {out \in {"done", "notSaved", "refused", "noReply", "garbage", "garbageDone", "crash"} :
        /\ out = "done" => Accepts(call, f)
        /\ out = "notSaved" => Accepts(call, f) /\ hasDir /\ call \in SavesReply
        /\ out = "refused" => Refuses(call, f)
        /\ out \in {"garbageDone", "crash"} => call # "read"}

Success(out) == out \in {"done", "garbageDone"}
Acknowledged(out) == out \in {"done", "notSaved"}
Lost(out) == out \in {"noReply", "garbage", "garbageDone", "crash"}

\* The server's list of opened files.  A lock that open had to wait for is not
\* recorded there; a refused remove takes the file off all the same.
Opened(call, f, o, out) ==
    IF Lost(out) THEN {{}}
    ELSE CASE call = "open" /\ Acknowledged(out) ->
                  {opened \cup {<<f, o>>}} \cup (IF o = "c" THEN {opened} ELSE {})
           [] call \in {"close", "remove"} -> {{p \in opened : p[1] # f}}
           [] OTHER -> {opened}

\* size_t arithmetic.
Plus(m, n) == (m + n) % (SIZE_MAX + 1)

ReadFails(out) == out \in {"garbage", "garbageDone", "crash"}

\* What readMessage returns when the reply, if there is one, is n bytes long.
readMessage(out, n) ==
    IF out = "noReply" THEN 0 ELSE IF ReadFails(out) THEN SIZE_MAX ELSE n

\* What every call does: a request of w bytes, a reply of r.  The bytes of the
\* session's requests are not counted, those of their replies are.
Call(call, f, o, out, w, r) ==
    /\ link' = IF Lost(out) THEN "closed" ELSE link
    /\ opened' \in Opened(call, f, o, out)
    /\ bytesWritten' = IF call \in {"openSession", "closeSession"} THEN bytesWritten ELSE Plus(bytesWritten, w)
    /\ bytesRead' = Plus(bytesRead, readMessage(out, r))

\* What really happened in it.
Remembered(out, w, r) ==
    [history EXCEPT !.garbage = @ \/ ReadFails(out),
                    !.asked = Plus(@, w),
                    !.answered = IF Lost(out) THEN @ ELSE Plus(@, r)]

\* openConnection once connected.
openSession ==
    /\ pc = "connecting" /\ link = "up"
    /\ \E out \in Outcomes("openSession", "none", FALSE), w \in Sizes, r \in Sizes :
        /\ Call("openSession", "none", "none", out, w, r)
        /\ pc' = IF out = "crash" THEN "killed" ELSE IF Success(out) THEN "handling" ELSE "failed"
        /\ history' = Remembered(out, 0, r)
    /\ UNCHANGED <<parseVars, timeout, placeVars, line>>

\* SIGPIPE.
killed ==
    /\ pc \in {"connecting", "handling"} /\ link = "closed" /\ pc' = "killed"
    /\ UNCHANGED <<parseVars, timeout, placeVars, callVars, line, history>>

\* The server stops, or gives this connection up.
serverLeaves ==
    /\ link = "up" /\ link' = "closed" /\ opened' = {} /\ pc \notin Ends
    /\ UNCHANGED <<parseVars, pc, timeout, placeVars, bytesWritten, bytesRead, line, history>>

----------------------------------------------------------------------------
(* handleOption *)

MoreOptions == index <= Len(options)
Option == options[index]

\* The directory counts only if it is given by the very next option.
HasDir ==
    \/ Option.opt = "a" /\ Len(Option.files) = 3
    \/ /\ index < Len(options)
       /\ \/ Option.opt \in {"W", "w"} /\ options[index + 1].opt = "D"
          \/ Option.opt \in {"r", "R"} /\ options[index + 1].opt = "d"

\* The files an option has requests for; -R's one request names none.
FilesOf(o) ==
    CASE o.opt \in {"W", "w", "r", "l", "u", "c"} -> o.files
      [] o.opt = "a" -> IF Len(o.files) \in {2, 3} THEN <<o.files[2]>> ELSE << >>
      [] o.opt = "R" -> <<"none">>
      [] OTHER -> << >>

CallsOf(opt) ==
    CASE opt \in {"W", "w"} -> <<"open", "write", "close">>
      [] opt = "a" -> <<"open", "append", "close">>
      [] opt = "r" -> <<"open", "read", "close">>
      [] opt = "l" -> <<"open", "lock">>
      [] opt = "u" -> <<"unlock", "close">>
      [] opt = "c" -> <<"open", "remove">>
      [] opt = "R" -> <<"readN">>

Handling == pc = "handling" /\ MoreOptions
HasFile == file <= Len(FilesOf(Option))
HasCall == step <= Len(CallsOf(Option.opt))

\* (fault: the result of the close replaces the one of the request)
StatusAfter_Last(ok) == ok
StatusAfter(ok) == status /\ ok

\* (fault: a request that fails leaves the file open)
StepAfter_Stop(call, ok) == IF ~ok THEN Len(CallsOf(Option.opt)) + 1 ELSE step + 1
StepAfter(call, ok) == IF call = "open" /\ ~ok THEN Len(CallsOf(Option.opt)) + 1 ELSE step + 1

callLibrary ==
    /\ Handling /\ HasFile /\ HasCall /\ link = "up"
    /\ LET call == CallsOf(Option.opt)[step]
           f == FilesOf(Option)[file]
       IN \E out \in Outcomes(call, f, HasDir /\ (call = "open" => Option.opt = "w")),
             w \in Sizes, r \in Sizes :
            /\ Call(call, f, Option.opt, out, w, r)
            /\ pc' = IF out = "crash" THEN "killed" ELSE pc
            /\ status' = StatusAfter(Success(out))
            /\ step' = StepAfter(call, Success(out))
            /\ history' = [Remembered(out, w, r) EXCEPT
                  !.acked = @ /\ Acknowledged(out),
                  !.requested = @ \cup {<<index, file>>}]
    /\ UNCHANGED <<parseVars, timeout, index, file, line>>

\* writeFile cannot read the local file: nothing is sent.
localFileFails ==
    /\ Handling /\ HasFile /\ Option.opt \in {"W", "w"} /\ step = 2
    /\ status' = StatusAfter(FALSE) /\ step' = StepAfter("write", FALSE)
    /\ history' = [history EXCEPT !.acked = FALSE]
    /\ UNCHANGED <<parseVars, pc, timeout, index, file, callVars, line>>

\* getBytesData: the counters start again.
\* (fault: they go on)
Counters_GoOn == UNCHANGED <<bytesWritten, bytesRead>>
Counters == bytesWritten' = 0 /\ bytesRead' = 0

LogOperation(ok) ==
    IF gIsExtendedLogEnabled
    THEN /\ line' = [opt |-> Option.opt, ok |-> ok, w |-> bytesWritten, r |-> bytesRead, h |-> history]
         /\ Counters
    ELSE UNCHANGED <<line, bytesWritten, bytesRead>>

\* The loop over the files ends: at the last one, at -w's limit, and without -p
\* after the first, as "if not logging, break" leaves the loop too.
\* (fault: -W leaves it as well)
IsLastFile_Break ==
    \/ file = Len(FilesOf(Option))
    \/ Option.opt = "w" /\ file = Option.val
    \/ Option.opt \in {"W", "r", "l", "u", "c"} /\ ~gIsExtendedLogEnabled

IsLastFile ==
    \/ file = Len(FilesOf(Option))
    \/ Option.opt = "w" /\ file = Option.val
    \/ Option.opt \in {"r", "l", "u", "c"} /\ ~gIsExtendedLogEnabled

NextOption == index' = index + 1 /\ file' = 1

\* The history once a line was, or would have been, logged.
Anew == [NoHistory EXCEPT !.requested = history.requested]

\* The calls for a file are made: -r saves what it read, the operation is logged
\* (for -w once, whatever became of its files).
fileDone ==
    /\ Handling /\ HasFile /\ ~HasCall
    /\ \E saved \in IF Option.opt = "r" /\ HasDir /\ status THEN BOOLEAN ELSE {TRUE} :
        IF Option.opt # "w" THEN LogOperation(status /\ saved)
        ELSE IF IsLastFile THEN LogOperation(TRUE)
        ELSE UNCHANGED <<line, bytesWritten, bytesRead>>
    /\ IF IsLastFile THEN NextOption ELSE index' = index /\ file' = file + 1
    /\ step' = 1 /\ status' = TRUE
    /\ history' = IF Option.opt = "w" /\ ~IsLastFile THEN history ELSE Anew
    /\ UNCHANGED <<parseVars, pc, timeout, link, opened>>

\* Options that send nothing: -t, -L, -D, -d, -a with the wrong names or a local
\* file that cannot be read, -w with nothing in the directory or no directory.
optionDone ==
    /\ Handling
    /\ \/ ~HasFile /\ (Option.opt = "L" => Option.val \in 0 .. 5)
       \/ Option.opt \in {"a", "w"} /\ file = 1 /\ step = 1
    /\ IF Option.opt = "w" THEN LogOperation(~HasFile) ELSE UNCHANGED <<line, bytesWritten, bytesRead>>
    /\ history' = IF Option.opt = "w" THEN Anew ELSE history
    /\ NextOption
    /\ UNCHANGED <<parseVars, pc, timeout, step, status, link, opened>>

\* A log level out of range: the connection is not closed by the program.
optionFails ==
    /\ Handling /\ Option.opt = "L" /\ Option.val \notin 0 .. 5 /\ pc' = "failed"
    /\ UNCHANGED <<parseVars, timeout, placeVars, callVars, line, history>>

\* handleOptions at its end.
closeConnection ==
    /\ pc = "handling" /\ ~MoreOptions /\ link = "up"
    /\ \E out \in Outcomes("closeSession", "none", FALSE), w \in Sizes, r \in Sizes :
        /\ Call("closeSession", "none", "none", out, w, r)
        /\ pc' = IF out = "crash" THEN "killed" ELSE IF Success(out) THEN "done" ELSE "failed"
    /\ UNCHANGED <<parseVars, timeout, placeVars, line, history>>

Next ==
    \/ parseArguments \/ connectFails \/ nanosleep \/ connect \/ openSession \/ killed \/ serverLeaves
    \/ callLibrary \/ localFileFails \/ fileDone \/ optionDone \/ optionFails \/ closeConnection

\* The program does not stop by itself, and the server answers every request; a
\* wait for a lock that nobody gives back is outside the assumption.
Spec == Init /\ [][Next]_vars /\ WF_vars(Next)

----------------------------------------------------------------------------
(* Properties *)

\* Every variable has its type; handleOptions never goes past an option's files
\* or calls, and no pause begins without time left.
TypeOK ==
    /\ gIsExtendedLogEnabled \in BOOLEAN
    /\ Len(options) <= MAX_OPTIONS_COUNT
    /\ pc \in {"parsing", "connecting", "pausing", "handling"} \cup Ends
    /\ timeout \in 1 - Msec .. Timeout
    /\ link \in {"none", "up", "closed"}
    /\ index \in 1 .. Len(options) + 1
    /\ MoreOptions => /\ file \in 1 .. Max({1, Len(FilesOf(Option))})
                      /\ step > 1 => step <= Len(CallsOf(Option.opt)) + 1
    /\ status \in BOOLEAN /\ bytesWritten \in 0 .. SIZE_MAX /\ bytesRead \in 0 .. SIZE_MAX

\* The comment over the options (client.c:475-477): a file that is open must be
\* closed, whatever becomes of the requests in between.  Between two files the
\* server has nothing open for the client but what -l locked, and what an open
\* of -w left behind whose reply came with files that could not be saved.
OpenedIsClosed ==
    pc = "handling" /\ step = 1 /\ link = "up" => \A p \in opened : p[2] \in {"l", "w"}

\* A line that says SUCCEDED is about a file every request of which the server
\* acknowledged: neither the answer to the close (client.c:476-477) nor the
\* place of the failure hides it.  A reply that was never filled in can, and the
\* line of -w says nothing about its files.
HonestReports ==
    line.ok /\ line.opt # "w" => line.h.acked \/ line.h.garbage

\* The counters of a line are of its own requests: the bytes sent for it and those
\* that came back, in the first line with the reply to the session's request.  A
\* read that failed is no byte, but was counted as -1: such a line reports one byte
\* less than came back, which is 2^64 - 1 bytes when nothing did.
CountsOfLine ==
    /\ line.w = line.h.asked
    /\ IF line.h.garbage THEN Plus(line.r, 1) = line.h.answered ELSE line.r = line.h.answered

\* A program that ends well has sent a request for each file of its options,
\* whatever the others' results, but for what it leaves out: the files past -w's
\* limit, and without -p all but the first of -r, -l, -u and -c.
EveryFileRequested ==
    pc = "done" => \A i \in DOMAIN options : \A k \in DOMAIN FilesOf(options[i]) :
        \/ <<i, k>> \in history.requested
        \/ options[i].opt \in {"a", "w"} /\ \A p \in history.requested : p[1] # i
        \/ options[i].opt = "w" /\ options[i].val \in 1 .. k - 1
        \/ options[i].opt \in {"r", "l", "u", "c"} /\ ~gIsExtendedLogEnabled /\ k > 1

\* The program ends, whether or not the server is there, answers or leaves.
Terminates == <>(pc \in Ends)
=============================================================================
