---------------------------- MODULE ClientProofs ----------------------------
(***************************************************************************)
(* What the client's log says is true, for any command line, however the   *)
(* calls end.  The invariant says where the program is (Placed), what it   *)
(* has not done before it is connected (Untouched), that the counters are  *)
(* what was sent and received since the last line but for a read that      *)
(* failed, after which there is no connection for another (Counted), and   *)
(* that a status that is still good has acknowledged requests behind it    *)
(* (Judged).  Two further parts stand on it: what is open has a call to    *)
(* come that closes it (OpenedOK), and what was requested up to the place  *)
(* where the program is (Asked).                                           *)
(***************************************************************************)
EXTENDS Client, SequenceTheorems, TLAPS

Bytes == 0 .. SIZE_MAX
Histories == [acked : BOOLEAN, garbage : BOOLEAN, asked : Bytes, answered : Bytes,
              requested : SUBSET (Nat \X Nat)]

Typed ==
    /\ args \in Seq(Arguments) /\ options \in Seq(Arguments)
    /\ Len(options) <= MAX_OPTIONS_COUNT
    /\ gIsExtendedLogEnabled \in BOOLEAN
    /\ pc \in {"parsing", "connecting", "pausing", "handling"} \cup Ends
    /\ timeout \in 1 - Msec .. Timeout
    /\ link \in {"none", "up", "closed"}
    /\ status \in BOOLEAN /\ bytesWritten \in Bytes /\ bytesRead \in Bytes
    /\ history \in Histories

\* The program has a file in hand, or is between two options.
Placed ==
    /\ index \in 1 .. Len(options) + 1 /\ file \in Nat \ {0} /\ step \in Nat \ {0}
    /\ file > 1 \/ step > 1 => MoreOptions /\ HasFile
    /\ step > 1 => step <= Len(CallsOf(Option.opt)) + 1

Early == {"parsing", "connecting", "pausing"}

Untouched ==
    pc \in Early =>
        /\ index = 1 /\ file = 1 /\ step = 1
        /\ bytesWritten = 0 /\ bytesRead = 0 /\ line = NoLine /\ history = NoHistory

Fresh(h) == h.acked /\ ~h.garbage /\ h.asked = 0 /\ h.answered = 0

Counted ==
    pc = "handling" =>
        /\ history.garbage => link = "closed"
        /\ IF gIsExtendedLogEnabled
           THEN /\ bytesWritten = history.asked
                /\ IF history.garbage THEN Plus(bytesRead, 1) = history.answered
                   ELSE bytesRead = history.answered
           ELSE line = NoLine

Judged ==
    pc = "handling" =>
        /\ MoreOptions /\ Option.opt # "w" /\ status => history.acked \/ history.garbage
        /\ step = 1 /\ (file > 1 => Option.opt # "w") => history.acked

IInv == Typed /\ Placed /\ Untouched /\ Counted /\ Judged /\ HonestReports /\ CountsOfLine

-----------------------------------------------------------------------------
(* The counters and the history. *)

LEMMA PlusType ==
    ASSUME NEW m \in Nat, NEW n \in Nat
    PROVE  Plus(m, n) \in Bytes
BY ClientAssumption DEF Plus, Bytes

\* Nothing added, and -1 added: one more is what there was.
LEMMA PlusNone ==
    ASSUME NEW m \in Bytes
    PROVE  Plus(m, 0) = m
BY ClientAssumption, SMT DEF Plus, Bytes

LEMMA PlusBack ==
    ASSUME NEW m \in Bytes
    PROVE  Plus(Plus(m, SIZE_MAX), 1) = m
<1> USE DEF Bytes
<1>1. SIZE_MAX \in Nat \ {0}
    BY ClientAssumption
<1>2. CASE m = 0
  <2>1. Plus(m, SIZE_MAX) = SIZE_MAX
      BY <1>1, <1>2, SMT DEF Plus
  <2>2. Plus(SIZE_MAX, 1) = 0
      BY <1>1, SMT DEF Plus
  <2> QED
      BY <1>2, <2>1, <2>2
<1>3. CASE m > 0
  <2>1. m - 1 \in 0 .. SIZE_MAX - 1 /\ m + SIZE_MAX = (m - 1) + (SIZE_MAX + 1)
      BY <1>1, <1>3
  <2>2. Plus(m, SIZE_MAX) = m - 1
      BY <1>1, <2>1, SMT DEF Plus
  <2>3. Plus(m - 1, 1) = m
      BY <1>1, <1>3, SMT DEF Plus
  <2> QED
      BY <2>2, <2>3
<1> QED
    BY <1>2, <1>3

LEMMA RememberedIs ==
    ASSUME history \in Histories, NEW out, NEW w \in Bytes, NEW r \in Bytes
    PROVE  /\ Remembered(out, w, r) =
                 [acked |-> history.acked,
                  garbage |-> history.garbage \/ ReadFails(out),
                  asked |-> Plus(history.asked, w),
                  answered |-> IF Lost(out) THEN history.answered ELSE Plus(history.answered, r),
                  requested |-> history.requested]
           /\ Remembered(out, w, r) \in Histories
           /\ Remembered(out, w, r).acked = history.acked
           /\ Remembered(out, w, r).garbage = (history.garbage \/ ReadFails(out))
           /\ Remembered(out, w, r).asked = Plus(history.asked, w)
           /\ Remembered(out, w, r).answered =
                 IF Lost(out) THEN history.answered ELSE Plus(history.answered, r)
           /\ Remembered(out, w, r).requested = history.requested
<1>1. /\ history.acked \in BOOLEAN /\ history.garbage \in BOOLEAN
      /\ history.asked \in Bytes /\ history.answered \in Bytes
      /\ history.requested \in SUBSET (Nat \X Nat)
    BY DEF Histories
<1>2. Plus(history.asked, w) \in Bytes /\ Plus(history.answered, r) \in Bytes
  <2>1. Bytes \subseteq Nat
      BY DEF Bytes
  <2> QED
      BY <1>1, <2>1, PlusType, Zenon
<1>3. (history.garbage \/ ReadFails(out)) \in BOOLEAN
    BY Zenon
<1>4. (IF Lost(out) THEN history.answered ELSE Plus(history.answered, r)) \in Bytes
    BY <1>1, <1>2
<1>5. PICK garbage \in BOOLEAN : garbage = (history.garbage \/ ReadFails(out))
    BY <1>3
<1>6. PICK h : h = [history EXCEPT !.garbage = garbage,
                                   !.asked = Plus(history.asked, w),
                                   !.answered = IF Lost(out) THEN history.answered
                                                ELSE Plus(history.answered, r)]
    OBVIOUS
<1>7. h = [acked |-> history.acked,
           garbage |-> garbage,
           asked |-> Plus(history.asked, w),
           answered |-> IF Lost(out) THEN history.answered ELSE Plus(history.answered, r),
           requested |-> history.requested]
    BY <1>1, <1>2, <1>4, <1>6 DEF Histories
<1>8. h \in Histories
    BY <1>1, <1>2, <1>4, <1>7 DEF Histories
<1>9. h = Remembered(out, w, r)
    BY <1>5, <1>6, Zenon DEF Remembered
<1>10. /\ h.acked = history.acked /\ h.garbage = garbage
       /\ h.asked = Plus(history.asked, w)
       /\ h.answered = IF Lost(out) THEN history.answered ELSE Plus(history.answered, r)
       /\ h.requested = history.requested
    BY <1>7
<1> QED
    BY <1>5, <1>7, <1>8, <1>9, <1>10, Zenon

LEMMA AnewIs ==
    ASSUME history \in Histories
    PROVE  /\ Anew \in Histories /\ Fresh(Anew)
           /\ Anew.requested = history.requested
<1>1. history.requested \in SUBSET (Nat \X Nat) /\ 0 \in Bytes
    BY ClientAssumption DEF Histories, Bytes
<1> QED
    BY <1>1 DEF Anew, NoHistory, Histories, Fresh

-----------------------------------------------------------------------------
(* The options, their files and their calls. *)

LEMMA OptionType ==
    ASSUME Typed, Placed, MoreOptions
    PROVE  /\ Option \in Arguments /\ Option.opt # "none"
           /\ Len(FilesOf(Option)) \in Nat
<1>1. Option \in Arguments
    BY DEF Typed, Placed, MoreOptions, Option
<1>2. Option.opt # "none" /\ Option.files \in Seq(STRING)
    BY <1>1 DEF Arguments
<1>3. Len(FilesOf(Option)) \in Nat
  <2>1. CASE Option.opt = "a" /\ Len(Option.files) \in {2, 3}
      BY <1>2, <2>1 DEF FilesOf
  <2>2. CASE Option.opt = "a" /\ Len(Option.files) \notin {2, 3}
      BY <2>2 DEF FilesOf
  <2>3. CASE Option.opt \in {"W", "w", "r", "l", "u", "c"}
      BY <1>2, <2>3 DEF FilesOf
  <2>4. CASE Option.opt = "R"
    <3>1. FilesOf(Option) = <<"none">>
        BY <2>4 DEF FilesOf
    <3> QED
        BY <3>1
  <2>5. CASE Option.opt \notin {"W", "w", "r", "l", "u", "c", "a", "R"}
    <3>1. FilesOf(Option) = << >>
        BY <2>5, Zenon DEF FilesOf
    <3> QED
        BY <3>1
  <2> QED
      BY <2>1, <2>2, <2>3, <2>4, <2>5
<1> QED
    BY <1>1, <1>2, <1>3

LEMMA CallsType ==
    ASSUME Typed, Placed, MoreOptions, HasFile
    PROVE  Len(CallsOf(Option.opt)) \in 1 .. 3
<1>1. Option.opt \in {"W", "w", "r", "l", "u", "c", "a", "R"}
    BY OptionType DEF HasFile, FilesOf, Placed
<1> QED
    BY <1>1 DEF CallsOf

LEMMA LongestMax ==
    ASSUME NEW n \in Nat
    PROVE  Max({1, n}) = IF n >= 1 THEN n ELSE 1
<1> DEFINE m == IF n >= 1 THEN n ELSE 1
<1>1. m \in {1, n} /\ \A y \in {1, n} : m >= y
    OBVIOUS
<1>2. \A x \in {1, n} : (\A y \in {1, n} : x >= y) => x = m
    OBVIOUS
<1> QED
    BY <1>1, <1>2 DEF Max

LEMMA TypesFollow == Typed /\ Placed => TypeOK
<1> SUFFICES ASSUME Typed, Placed PROVE TypeOK
    OBVIOUS
<1>1. ASSUME MoreOptions
      PROVE  /\ file \in 1 .. Max({1, Len(FilesOf(Option))})
             /\ step > 1 => step <= Len(CallsOf(Option.opt)) + 1
    BY <1>1, OptionType, LongestMax DEF Placed, HasFile
<1> QED
    BY <1>1 DEF Typed, Placed, TypeOK, Bytes

-----------------------------------------------------------------------------
(* Each action keeps the invariant. *)

LEMMA InitStep == Init => IInv
<1> SUFFICES ASSUME Init PROVE IInv
    OBVIOUS
<1> USE DEF Init
<1>1. options = << >> /\ Len(options) = 0
    OBVIOUS
<1>2. Typed
  <2>1. NoHistory \in Histories /\ 0 \in Bytes
      BY ClientAssumption DEF NoHistory, Histories, Bytes
  <2>2. timeout \in 1 - Msec .. Timeout
      BY ClientAssumption
  <2>3. args \in Seq(Arguments)
      BY ClientAssumption
  <2>4. options \in Seq(Arguments) /\ Len(options) <= MAX_OPTIONS_COUNT
      BY <1>1, ClientAssumption
  <2> QED
      BY <2>1, <2>2, <2>3, <2>4 DEF Typed
<1>3. Placed
    BY <1>1 DEF Placed
<1>4. Untouched /\ Counted /\ Judged
    BY DEF Untouched, Counted, Judged
<1>5. HonestReports /\ CountsOfLine
    BY DEF HonestReports, CountsOfLine, NoLine, NoHistory
<1> QED
    BY <1>2, <1>3, <1>4, <1>5 DEF IInv

\* The program stays at its option, file and call.
Stays == UNCHANGED <<options, index, file, step>>

LEMMA StaysMeans ==
    ASSUME Stays
    PROVE  /\ MoreOptions' = MoreOptions /\ Option' = Option
           /\ HasFile' = HasFile /\ (Placed => Placed')
BY DEF Stays, MoreOptions, Option, HasFile, Placed

\* What the last line says stays true.
LEMMA LineStays ==
    ASSUME HonestReports, CountsOfLine, UNCHANGED line
    PROVE  HonestReports' /\ CountsOfLine'
BY DEF HonestReports, CountsOfLine

LEMMA ParseStep == ASSUME IInv, parseArguments PROVE IInv'
<1> USE DEF IInv, parseArguments
<1>0. Untouched' /\ Counted' /\ Judged'
  <2>1. pc' # "handling"
      BY DEF parseDone, parseOption
  <2> QED
      BY <2>1 DEF Untouched, Counted, Judged, Early, placeVars, callVars
<1>1. HonestReports' /\ CountsOfLine'
    BY LineStays
<1>2. CASE parseDone
  <2>1. Typed'
      BY <1>2 DEF Typed, parseDone, parseVars, placeVars, callVars
  <2>2. Placed'
      BY <1>2, StaysMeans DEF Stays, parseDone, parseVars, placeVars
  <2> QED
      BY <1>0, <1>1, <2>1, <2>2
<1>3. CASE args # << >> /\ ~NoRoom /\ parseOption
  <2>1. /\ Head(args) \in Arguments /\ Tail(args) \in Seq(Arguments)
        /\ Len(options) \in Nat /\ Len(options) < MAX_OPTIONS_COUNT
      BY <1>3, ClientAssumption DEF Typed, NoRoom
  <2>2. /\ WithArgument(Head(args)) \in Seq(Arguments)
        /\ Len(WithArgument(Head(args))) = Len(options)
    <3>1. CASE options # << >> /\ Last(options).opt = "R" /\ Head(args).ok
      <4>0. Head(args).val \in Int
          BY <2>1 DEF Arguments
      <4>1. options[Len(options)] \in Arguments
          BY <2>1, <3>1 DEF Typed
      <4>2. [options[Len(options)] EXCEPT !.val = Head(args).val] \in Arguments
          BY <4>0, <4>1 DEF Arguments
      <4>3. WithArgument(Head(args)) =
               [options EXCEPT ![Len(options)] =
                   [options[Len(options)] EXCEPT !.val = Head(args).val]]
          BY <3>1 DEF WithArgument
      <4> QED
          BY <2>1, <4>2, <4>3 DEF Typed
    <3>2. CASE ~(options # << >> /\ Last(options).opt = "R" /\ Head(args).ok)
        BY <3>2 DEF WithArgument, Typed
    <3> QED
        BY <3>1, <3>2
  <2>3. /\ options' \in Seq(Arguments) /\ Len(options') <= MAX_OPTIONS_COUNT
        /\ Len(options') \in Nat
    <3>1. options' \in {WithArgument(Head(args)), options, Append(options, Head(args))}
        BY <1>3 DEF parseOption
    <3>2. CASE options' = Append(options, Head(args))
        BY <2>1, <3>2, ClientAssumption DEF Typed
    <3> QED
        BY <2>1, <2>2, <3>1, <3>2 DEF Typed
  <2>4. Typed'
      BY <1>3, <2>1, <2>3 DEF Typed, parseOption, Ends, placeVars, callVars
  <2>5. pc = "parsing" /\ index' = 1 /\ file' = 1 /\ step' = 1
      BY DEF Untouched, Early, placeVars
  <2>6. Placed'
      BY <2>3, <2>5 DEF Placed
  <2> QED
      BY <1>0, <1>1, <2>4, <2>6
<1> QED
    BY <1>2, <1>3

\* The actions that leave the options, the place and the line alone.
LEMMA QuietStep ==
    ASSUME IInv, Stays, UNCHANGED <<args, gIsExtendedLogEnabled, status, line, history>>,
           timeout' \in 1 - Msec .. Timeout, link' \in {"none", "up", "closed"},
           link = "closed" => link' = "closed",
           bytesRead' \in Bytes,
           \/ pc' \in Early /\ pc \in Early /\ UNCHANGED <<bytesWritten, bytesRead>>
           \/ pc' \in Ends /\ bytesWritten' \in Bytes
           \/ pc' = "handling" /\ pc = "handling" /\ UNCHANGED <<bytesWritten, bytesRead>>
    PROVE  IInv'
<1> USE DEF IInv
<1>1. Typed'
    BY DEF Typed, Stays, Early
<1>2. Placed' /\ MoreOptions' = MoreOptions /\ Option' = Option
    BY StaysMeans
<1>3. Untouched'
    BY DEF Untouched, Stays, Early, Ends
<1>4. Counted'
    BY DEF Counted, Early, Ends
<1>5. Judged'
    BY <1>2 DEF Judged, Stays, Early, Ends
<1> QED
    BY <1>1, <1>2, <1>3, <1>4, <1>5, LineStays

LEMMA ConnectionSteps ==
    ASSUME IInv, connectFails \/ nanosleep \/ connect \/ killed \/ serverLeaves \/ optionFails
    PROVE  IInv'
<1> USE DEF IInv
<1>0. /\ timeout \in 1 - Msec .. Timeout /\ link \in {"none", "up", "closed"}
      /\ bytesRead \in Bytes /\ bytesWritten \in Bytes
      /\ pc \in Early \cup Ends \cup {"handling"}
    BY DEF Typed, Early
<1>1. CASE connectFails
    BY <1>0, <1>1, QuietStep, ClientAssumption
       DEF connectFails, TimeLeft, Stays, Early, Ends, parseVars, placeVars, callVars
<1>2. CASE nanosleep
    BY <1>0, <1>2, QuietStep DEF nanosleep, Stays, Early, parseVars, placeVars, callVars
<1>3. CASE connect
    BY <1>0, <1>3, QuietStep DEF connect, Stays, Early, parseVars, placeVars
<1>4. CASE killed
    BY <1>0, <1>4, QuietStep DEF killed, Stays, Ends, parseVars, placeVars, callVars
<1>5. CASE serverLeaves
    BY <1>0, <1>5, QuietStep DEF serverLeaves, Stays, Early, Ends, parseVars, placeVars
<1>6. CASE optionFails
    BY <1>0, <1>6, QuietStep DEF optionFails, Stays, Ends, parseVars, placeVars, callVars
<1> QED
    BY <1>1, <1>2, <1>3, <1>4, <1>5, <1>6

\* The bytes a call leaves in the counters.
LEMMA CallCounts ==
    ASSUME Typed, NEW call, NEW f, NEW o, NEW out, NEW w \in Sizes, NEW r \in Sizes,
           Call(call, f, o, out, w, r)
    PROVE  /\ w \in Bytes /\ r \in Bytes
           /\ bytesWritten' \in Bytes /\ bytesRead' \in Bytes
           /\ link' \in {"none", "up", "closed"} /\ (link = "closed" => link' = "closed")
           /\ Lost(out) => link' = "closed"
           /\ call \in {"openSession", "closeSession"} => bytesWritten' = bytesWritten
           /\ call \notin {"openSession", "closeSession"} => bytesWritten' = Plus(bytesWritten, w)
           /\ ReadFails(out) => Plus(bytesRead', 1) = bytesRead
           /\ Lost(out) /\ ~ReadFails(out) => bytesRead' = bytesRead
           /\ ~Lost(out) => bytesRead' = Plus(bytesRead, r)
<1>1. /\ bytesWritten \in Bytes /\ bytesRead \in Bytes /\ w \in Bytes /\ r \in Bytes
      /\ SIZE_MAX \in Bytes /\ 0 \in Bytes /\ Bytes \subseteq Nat
    BY ClientAssumption DEF Typed, Bytes
<1>2. readMessage(out, r) \in Bytes
    BY <1>1 DEF readMessage
<1>3. /\ bytesWritten' \in {bytesWritten, Plus(bytesWritten, w)}
      /\ bytesRead' = Plus(bytesRead, readMessage(out, r))
    BY DEF Call
<1>4. bytesWritten' \in Bytes /\ bytesRead' \in Bytes
    BY <1>1, <1>2, <1>3, PlusType, Zenon
<1>5. ReadFails(out) => Plus(bytesRead', 1) = bytesRead
    BY <1>1, <1>3, PlusBack DEF ReadFails, readMessage
<1>6. Lost(out) /\ ~ReadFails(out) => bytesRead' = bytesRead
    BY <1>1, <1>3, PlusNone DEF Lost, ReadFails, readMessage
<1>7. ~Lost(out) => bytesRead' = Plus(bytesRead, r)
    BY <1>3 DEF Lost, ReadFails, readMessage
<1> QED
    BY <1>1, <1>4, <1>5, <1>6, <1>7 DEF Call, Typed

LEMMA OpenSessionStep == ASSUME IInv, openSession PROVE IInv'
<1> USE DEF IInv
<1>1. PICK out \in Outcomes("openSession", "none", FALSE), w \in Sizes, r \in Sizes :
         /\ Call("openSession", "none", "none", out, w, r)
         /\ pc' = IF out = "crash" THEN "killed"
                  ELSE IF Success(out) THEN "handling" ELSE "failed"
         /\ history' = Remembered(out, 0, r)
    BY DEF openSession
<1>2. /\ UNCHANGED <<args, options, gIsExtendedLogEnabled, timeout, index, file, step, status, line>>
      /\ pc \in Early
    BY DEF openSession, Early, parseVars, placeVars
<1>3. /\ index = 1 /\ file = 1 /\ step = 1 /\ line = NoLine /\ history = NoHistory
      /\ bytesRead = 0 /\ bytesWritten = 0
    BY <1>2 DEF Untouched
<1>4. /\ history \in Histories /\ 0 \in Bytes /\ r \in Bytes
      /\ bytesWritten' = 0 /\ bytesRead' \in Bytes
    BY <1>1, <1>3, CallCounts, ClientAssumption DEF Typed, Bytes
<1>5. /\ history'.acked /\ history'.garbage = ReadFails(out) /\ history'.asked = 0
      /\ history'.answered = IF Lost(out) THEN 0 ELSE Plus(0, r)
      /\ history' \in Histories
  <2>1. /\ history' = [acked |-> history.acked,
                       garbage |-> history.garbage \/ ReadFails(out),
                       asked |-> Plus(history.asked, 0),
                       answered |-> IF Lost(out) THEN history.answered ELSE Plus(history.answered, r),
                       requested |-> history.requested]
        /\ history' \in Histories
      BY <1>1, <1>4, RememberedIs, Zenon
  <2>2. history.acked /\ ~history.garbage /\ history.asked = 0 /\ history.answered = 0
      BY <1>3 DEF NoHistory
  <2>3. ReadFails(out) \in BOOLEAN /\ Plus(0, 0) = 0
      BY <1>4, PlusNone DEF ReadFails
  <2>4. history'.garbage = (history.garbage \/ ReadFails(out))
      BY <2>1, Zenon
  <2> QED
      BY <2>1, <2>2, <2>3, <2>4
<1>6. pc' \in Ends \cup {"handling"} /\ pc' \notin Early
    BY <1>1 DEF Ends, Early
<1>7. link' \in {"none", "up", "closed"}
    BY <1>1, CallCounts
<1>8. Typed'
    BY <1>2, <1>4, <1>5, <1>6, <1>7 DEF Typed
<1>9. Placed'
    BY <1>2, StaysMeans DEF Stays
<1>10. Untouched'
    BY <1>6 DEF Untouched
<1>11. Counted'
  <2>1. Lost(out) => link' = "closed"
      BY <1>1, CallCounts
  <2>2. ReadFails(out) => Lost(out) /\ Plus(bytesRead', 1) = 0
      BY <1>1, <1>3, CallCounts DEF ReadFails, Lost
  <2>3. ~ReadFails(out) => bytesRead' = IF Lost(out) THEN 0 ELSE Plus(0, r)
      BY <1>1, <1>3, CallCounts
  <2> QED
      BY <1>2, <1>3, <1>4, <1>5, <2>1, <2>2, <2>3 DEF Counted
<1>12. Judged'
    BY <1>5 DEF Judged
<1> QED
    BY <1>2, <1>8, <1>9, <1>10, <1>11, <1>12, LineStays

LEMMA CloseSessionStep == ASSUME IInv, closeConnection PROVE IInv'
<1>1. PICK out \in Outcomes("closeSession", "none", FALSE), w \in Sizes, r \in Sizes :
         /\ Call("closeSession", "none", "none", out, w, r)
         /\ pc' = IF out = "crash" THEN "killed"
                  ELSE IF Success(out) THEN "done" ELSE "failed"
    BY DEF closeConnection
<1>2. /\ link' \in {"none", "up", "closed"} /\ (link = "closed" => link' = "closed")
      /\ bytesWritten' \in Bytes /\ bytesRead' \in Bytes
    BY <1>1, CallCounts DEF IInv
<1>3. /\ UNCHANGED <<args, gIsExtendedLogEnabled, status, line, history>> /\ Stays
      /\ timeout' \in 1 - Msec .. Timeout /\ pc' \in Ends
    BY <1>1 DEF IInv, Typed, closeConnection, Stays, Ends, parseVars, placeVars
<1> QED
    BY <1>2, <1>3, QuietStep

\* A request was made, or could not be: the next one, if any, is for the file.
LEMMA RequestStep ==
    ASSUME IInv, Handling, HasFile, HasCall,
           UNCHANGED <<parseVars, timeout, index, file, line>>,
           pc' \in {"handling", "killed"}, link' \in {"none", "up", "closed"},
           step' \in {step + 1, Len(CallsOf(Option.opt)) + 1},
           status' \in BOOLEAN, status' => status,
           bytesWritten' \in Bytes, bytesRead' \in Bytes,
           history' \in Histories, Counted',
           history.garbage => history'.garbage,
           status' /\ history.acked => history'.acked \/ history'.garbage
    PROVE  IInv'
<1> USE DEF IInv
<1>1. Typed'
    BY DEF Typed, parseVars, Ends
<1>2. /\ Option' = Option /\ MoreOptions /\ MoreOptions' /\ HasFile'
      /\ pc = "handling"
    BY DEF Handling, MoreOptions, Option, HasFile, parseVars
<1>3. Len(CallsOf(Option.opt)) \in 1 .. 3
    BY <1>2, CallsType
<1>4. /\ step' \in Nat \ {0} /\ step' # 1
      /\ step' <= Len(CallsOf(Option.opt)) + 1
    BY <1>3 DEF Placed, HasCall
<1>5. Placed'
    BY <1>2, <1>4 DEF Placed, parseVars
<1>6. Untouched'
    BY DEF Untouched, Early
<1>7. Judged'
  <2>1. Option.opt # "w" /\ status => history.acked \/ history.garbage
      BY <1>2 DEF Judged
  <2> QED
      BY <1>2, <1>4, <2>1 DEF Judged
<1> QED
    BY <1>1, <1>5, <1>6, <1>7, LineStays

LEMMA LibraryStep == ASSUME IInv, callLibrary PROVE IInv'
<1> DEFINE call == CallsOf(Option.opt)[step]
           f == FilesOf(Option)[file]
<1>1. Handling /\ HasFile /\ HasCall /\ MoreOptions /\ pc = "handling" /\ link = "up"
    BY DEF callLibrary, Handling
<1>2. PICK out \in Outcomes(call, f, HasDir /\ (call = "open" => Option.opt = "w")),
           w \in Sizes, r \in Sizes :
        /\ Call(call, f, Option.opt, out, w, r)
        /\ pc' = IF out = "crash" THEN "killed" ELSE pc
        /\ status' = StatusAfter(Success(out))
        /\ step' = StepAfter(call, Success(out))
        /\ history' = [Remembered(out, w, r) EXCEPT
              !.acked = @ /\ Acknowledged(out),
              !.requested = @ \cup {<<index, file>>}]
    BY DEF callLibrary
<1>3. call \notin {"openSession", "closeSession"}
  <2>1. Option.opt \in {"W", "w", "r", "l", "u", "c", "a", "R"} /\ step \in 1 .. Len(CallsOf(Option.opt))
      BY <1>1, OptionType, CallsType DEF HasFile, HasCall, FilesOf, Placed, IInv
  <2> QED
      BY <2>1 DEF CallsOf
<1> HIDE DEF call, f
<1>4. /\ w \in Bytes /\ r \in Bytes /\ bytesWritten' \in Bytes /\ bytesRead' \in Bytes
      /\ link' \in {"none", "up", "closed"} /\ (Lost(out) => link' = "closed")
      /\ bytesWritten' = Plus(bytesWritten, w)
      /\ ReadFails(out) => Plus(bytesRead', 1) = bytesRead
      /\ Lost(out) /\ ~ReadFails(out) => bytesRead' = bytesRead
      /\ ~Lost(out) => bytesRead' = Plus(bytesRead, r)
  <2>1. Typed /\ Call(call, f, Option.opt, out, w, r)
      BY <1>2 DEF IInv
  <2> HIDE DEF IInv
  <2> QED
      BY <1>3, <2>1, CallCounts
<1>5. /\ status' \in BOOLEAN /\ (status' => status) /\ (status' => Success(out))
    BY <1>2 DEF StatusAfter, Success, IInv, Typed
<1>6. step' \in {step + 1, Len(CallsOf(Option.opt)) + 1}
    BY <1>2 DEF StepAfter
<1>7. history \in Histories /\ <<index, file>> \in Nat \X Nat
    BY DEF IInv, Placed, Typed
<1>8. /\ history' \in Histories
      /\ history'.asked = Plus(history.asked, w)
      /\ history'.answered = IF Lost(out) THEN history.answered ELSE Plus(history.answered, r)
      /\ history'.garbage = (history.garbage \/ ReadFails(out))
      /\ history'.acked = (history.acked /\ Acknowledged(out))
  <2>1. /\ history.acked \in BOOLEAN /\ history.requested \in SUBSET (Nat \X Nat)
        /\ Remembered(out, w, r) =
              [acked |-> history.acked,
               garbage |-> history.garbage \/ ReadFails(out),
               asked |-> Plus(history.asked, w),
               answered |-> IF Lost(out) THEN history.answered ELSE Plus(history.answered, r),
               requested |-> history.requested]
        /\ Remembered(out, w, r) \in Histories
      BY <1>4, <1>7, RememberedIs DEF Histories
  <2>2. history' = [acked |-> history.acked /\ Acknowledged(out),
                    garbage |-> history.garbage \/ ReadFails(out),
                    asked |-> Plus(history.asked, w),
                    answered |-> IF Lost(out) THEN history.answered ELSE Plus(history.answered, r),
                    requested |-> history.requested \cup {<<index, file>>}]
    <3>1. PICK h : h = Remembered(out, w, r)
        OBVIOUS
    <3>2. /\ h.acked = history.acked /\ h.garbage = (history.garbage \/ ReadFails(out))
          /\ h.asked = Plus(history.asked, w) /\ h.requested = history.requested
          /\ h.answered = IF Lost(out) THEN history.answered ELSE Plus(history.answered, r)
      <4>0. history \in Histories /\ w \in Bytes /\ r \in Bytes
          BY <1>4, <1>7
      <4>1. /\ Remembered(out, w, r).acked = history.acked
            /\ Remembered(out, w, r).garbage = (history.garbage \/ ReadFails(out))
            /\ Remembered(out, w, r).asked = Plus(history.asked, w)
            /\ Remembered(out, w, r).answered =
                  IF Lost(out) THEN history.answered ELSE Plus(history.answered, r)
            /\ Remembered(out, w, r).requested = history.requested
          BY <4>0, RememberedIs
      <4> QED
          BY <3>1, <4>1, Zenon
    <3>3. history' = [acked |-> h.acked /\ Acknowledged(out), garbage |-> h.garbage,
                      asked |-> h.asked, answered |-> h.answered,
                      requested |-> h.requested \cup {<<index, file>>}]
        BY <1>2, <2>1, <3>1 DEF Histories
    <3> QED
        BY <3>2, <3>3, Zenon
  <2>3. /\ (history.acked /\ Acknowledged(out)) \in BOOLEAN
        /\ (history.garbage \/ ReadFails(out)) \in BOOLEAN
      BY Zenon
  <2>4. /\ Plus(history.asked, w) \in Bytes
        /\ (IF Lost(out) THEN history.answered ELSE Plus(history.answered, r)) \in Bytes
      BY <2>1 DEF Histories
  <2>5. history.requested \cup {<<index, file>>} \in SUBSET (Nat \X Nat)
      BY <1>7, <2>1
  <2>6. history' \in Histories
      BY <2>2, <2>3, <2>4, <2>5, Zenon DEF Histories
  <2> QED
      BY <2>2, <2>6, Zenon
<1>9. Counted'
  <2>1. ~history.garbage /\ UNCHANGED <<gIsExtendedLogEnabled, line>>
      BY <1>1 DEF callLibrary, IInv, Counted, parseVars
  <2>2. ReadFails(out) => Lost(out)
      BY DEF ReadFails, Lost
  <2> QED
      BY <1>1, <1>4, <1>8, <2>1, <2>2 DEF IInv, Counted
<1>10. status' /\ history.acked => history'.acked \/ history'.garbage
    BY <1>5, <1>8 DEF Success, Acknowledged, ReadFails
<1>11. pc' \in {"handling", "killed"} /\ UNCHANGED <<parseVars, timeout, index, file, line>>
    BY <1>1, <1>2 DEF callLibrary
<1>12. history.garbage => history'.garbage
    BY <1>8
<1> QED
    BY <1>1, <1>4, <1>5, <1>6, <1>8, <1>9, <1>10, <1>11, <1>12, RequestStep

LEMMA LocalFileStep == ASSUME IInv, localFileFails PROVE IInv'
<1>1. /\ Handling /\ HasFile /\ Option.opt \in {"W", "w"} /\ step = 2
      /\ ~status' /\ status' \in BOOLEAN /\ pc' = pc /\ pc = "handling"
      /\ UNCHANGED <<parseVars, timeout, index, file, callVars, line>>
      /\ history' = [history EXCEPT !.acked = FALSE]
    BY DEF localFileFails, Handling, StatusAfter, StepAfter
<1>2. HasCall /\ step' = step + 1
    BY <1>1 DEF HasCall, CallsOf, localFileFails, StepAfter
<1>3. /\ history' \in Histories /\ history'.garbage = history.garbage
      /\ history'.asked = history.asked /\ history'.answered = history.answered
  <2>1. history \in Histories
      BY DEF IInv, Typed
  <2>2. history' = [acked |-> FALSE, garbage |-> history.garbage, asked |-> history.asked,
                    answered |-> history.answered, requested |-> history.requested]
      BY <1>1, <2>1 DEF Histories
  <2>3. /\ history.garbage \in BOOLEAN /\ history.asked \in Bytes /\ history.answered \in Bytes
        /\ history.requested \in SUBSET (Nat \X Nat)
      BY <2>1 DEF Histories
  <2>4. history' \in Histories
      BY <2>2, <2>3, Zenon DEF Histories
  <2> QED
      BY <2>2, <2>3, <2>4
<1>4. /\ link' \in {"none", "up", "closed"} /\ bytesWritten' \in Bytes /\ bytesRead' \in Bytes
    BY <1>1 DEF IInv, Typed, callVars
<1>5. Counted'
    BY <1>1, <1>3 DEF IInv, Counted, callVars, parseVars
<1> QED
    BY <1>1, <1>2, <1>3, <1>4, <1>5, RequestStep

\* A line that is logged is true, and the counters start again.
LEMMA LogStep ==
    ASSUME IInv, Handling, NEW ok \in BOOLEAN, LogOperation(ok), UNCHANGED gIsExtendedLogEnabled,
           ok /\ Option.opt # "w" => history.acked \/ history.garbage
    PROVE  /\ HonestReports' /\ CountsOfLine' /\ bytesWritten' \in Bytes /\ bytesRead' \in Bytes
           /\ IF gIsExtendedLogEnabled'
              THEN bytesWritten' = 0 /\ bytesRead' = 0 /\ line' # NoLine
              ELSE line' = NoLine
<1> USE DEF IInv
<1>0. 0 \in Bytes
    BY ClientAssumption DEF Bytes
<1>1. CASE ~gIsExtendedLogEnabled
  <2>1. UNCHANGED <<line, bytesWritten, bytesRead>>
      BY <1>1 DEF LogOperation
  <2> QED
      BY <1>1, <2>1, LineStays DEF Typed, Counted, Handling
<1>2. CASE gIsExtendedLogEnabled
  <2>1. /\ line' = [opt |-> Option.opt, ok |-> ok, w |-> bytesWritten, r |-> bytesRead,
                    h |-> history]
        /\ bytesWritten' = 0 /\ bytesRead' = 0
      BY <1>2 DEF LogOperation, Counters
  <2>2. line'.opt # NoLine.opt
      BY <2>1, OptionType DEF Handling, NoLine
  <2>3. HonestReports'
      BY <2>1 DEF HonestReports
  <2>4. CountsOfLine'
      BY <1>2, <2>1 DEF CountsOfLine, Counted, Handling
  <2> QED
      BY <1>0, <1>2, <2>1, <2>2, <2>3, <2>4
<1> QED
    BY <1>1, <1>2

\* Between two files or options, with nothing done for the next one yet.
LEMMA AnewStep ==
    ASSUME IInv, Handling, UNCHANGED <<parseVars, pc, timeout, link>>,
           HonestReports', CountsOfLine', bytesWritten' \in Bytes, bytesRead' \in Bytes,
           status' \in BOOLEAN, history' \in Histories, history'.acked, Counted',
           step' = 1, Placed'
    PROVE  IInv'
<1> USE DEF IInv
<1>1. Typed'
    BY DEF Typed, parseVars
<1>2. Untouched'
    BY DEF Untouched, Handling, Early
<1>3. Judged'
    BY DEF Judged
<1> QED
    BY <1>1, <1>2, <1>3

LEMMA NextPlaces ==
    ASSUME IInv, Handling, UNCHANGED options, step' = 1,
           NextOption \/ (HasFile /\ file # Len(FilesOf(Option)) /\ index' = index /\ file' = file + 1)
    PROVE  Placed'
<1>1. Placed /\ Typed /\ MoreOptions /\ Len(options) \in Nat
    BY DEF IInv, Handling, Typed
<1>2. CASE NextOption
    BY <1>1, <1>2 DEF Placed, NextOption, MoreOptions
<1>3. CASE HasFile /\ file # Len(FilesOf(Option)) /\ index' = index /\ file' = file + 1
  <2>1. Option' = Option /\ MoreOptions'
      BY <1>1, <1>3 DEF Option, MoreOptions
  <2>2. HasFile'
      BY <1>1, <1>3, <2>1, OptionType DEF HasFile, Placed
  <2> QED
      BY <1>1, <1>3, <2>1, <2>2 DEF Placed
<1> QED
    BY <1>2, <1>3

LEMMA FileStep == ASSUME IInv, fileDone PROVE IInv'
<1>1. /\ Handling /\ HasFile /\ pc = "handling" /\ MoreOptions /\ step' = 1 /\ status' = TRUE
      /\ UNCHANGED <<parseVars, pc, timeout, link, options, gIsExtendedLogEnabled>>
    BY DEF fileDone, Handling, parseVars
<1>2. NextOption \/ (HasFile /\ file # Len(FilesOf(Option)) /\ index' = index /\ file' = file + 1)
    BY <1>1 DEF fileDone, IsLastFile
<1>3. Placed'
    BY <1>1, <1>2, NextPlaces
<1>4. CASE Option.opt = "w" /\ ~IsLastFile
  <2>1. /\ UNCHANGED <<line, bytesWritten, bytesRead, history>>
        /\ index' = index /\ file' = file + 1
      BY <1>4 DEF fileDone
  <2>2. HonestReports' /\ CountsOfLine'
      BY <2>1, LineStays DEF IInv
  <2>3. Typed'
      BY <1>1, <2>1 DEF IInv, Typed, parseVars
  <2>4. Untouched'
      BY <1>1 DEF Untouched, Early
  <2>5. Counted'
      BY <1>1, <2>1 DEF IInv, Counted
  <2>6. Option' = Option /\ file' > 1
      BY <1>1, <2>1 DEF Option, IInv, Placed
  <2>7. Judged'
      BY <1>4, <2>6 DEF Judged
  <2> QED
      BY <1>3, <2>2, <2>3, <2>4, <2>5, <2>7 DEF IInv
<1>5. CASE ~(Option.opt = "w" /\ ~IsLastFile)
  <2>1. PICK ok \in BOOLEAN :
           /\ LogOperation(ok)
           /\ ok /\ Option.opt # "w" => status
    <3>1. CASE Option.opt = "w"
        BY <1>5, <3>1 DEF fileDone
    <3>2. CASE Option.opt # "w"
      <4>1. PICK saved \in BOOLEAN : LogOperation(status /\ saved)
          BY <3>2 DEF fileDone
      <4>2. (status /\ saved) \in BOOLEAN
          BY Zenon
      <4> QED
          BY <4>1, <4>2
    <3> QED
        BY <3>1, <3>2
  <2>2. ok /\ Option.opt # "w" => history.acked \/ history.garbage
      BY <1>1, <2>1 DEF IInv, Judged
  <2>3. /\ HonestReports' /\ CountsOfLine' /\ bytesWritten' \in Bytes /\ bytesRead' \in Bytes
        /\ IF gIsExtendedLogEnabled'
           THEN bytesWritten' = 0 /\ bytesRead' = 0 /\ line' # NoLine
           ELSE line' = NoLine
      BY <1>1, <2>1, <2>2, LogStep
  <2>4. history' \in Histories /\ Fresh(history')
    <3>1. history' = Anew
        BY <1>5 DEF fileDone
    <3> QED
        BY <3>1, AnewIs DEF IInv, Typed
  <2>5. Counted' /\ history'.acked
      BY <2>3, <2>4 DEF Counted, Fresh
  <2> QED
      BY <1>1, <1>3, <2>3, <2>4, <2>5, AnewStep
<1> QED
    BY <1>4, <1>5

LEMMA OptionStep == ASSUME IInv, optionDone PROVE IInv'
<1>1. /\ Handling /\ pc = "handling" /\ NextOption /\ file = 1 /\ step = 1
      /\ UNCHANGED <<parseVars, pc, timeout, link, options, gIsExtendedLogEnabled, step, status>>
    BY DEF optionDone, Handling, parseVars, IInv, Placed
<1>2. Placed'
    BY <1>1, NextPlaces
<1>3. history \in Histories /\ status \in BOOLEAN /\ history.acked
    BY <1>1 DEF IInv, Typed, Judged
<1>4. /\ HonestReports' /\ CountsOfLine' /\ bytesWritten' \in Bytes /\ bytesRead' \in Bytes
      /\ Counted' /\ history' \in Histories /\ history'.acked
  <2>1. CASE Option.opt = "w"
    <3>1. LogOperation(~HasFile) /\ (~HasFile) \in BOOLEAN
        BY <2>1 DEF optionDone, HasFile
    <3>2. /\ HonestReports' /\ CountsOfLine' /\ bytesWritten' \in Bytes /\ bytesRead' \in Bytes
          /\ IF gIsExtendedLogEnabled'
             THEN bytesWritten' = 0 /\ bytesRead' = 0 /\ line' # NoLine
             ELSE line' = NoLine
        BY <1>1, <2>1, <3>1, LogStep
    <3>3. history' \in Histories /\ Fresh(history')
        BY <1>3, <2>1, AnewIs DEF optionDone
    <3> QED
        BY <3>2, <3>3 DEF Counted, Fresh
  <2>2. CASE Option.opt # "w"
    <3>1. UNCHANGED <<line, bytesWritten, bytesRead, history>>
        BY <2>2 DEF optionDone
    <3> QED
        BY <1>1, <1>3, <3>1, LineStays DEF IInv, Typed, Counted
  <2> QED
      BY <2>1, <2>2
<1> QED
    BY <1>1, <1>2, <1>3, <1>4, AnewStep

-----------------------------------------------------------------------------
LEMMA NextStep == IInv /\ [Next]_vars => IInv'
<1> SUFFICES ASSUME IInv, [Next]_vars PROVE IInv'
    OBVIOUS
<1>1. CASE UNCHANGED vars
  <2>1. /\ UNCHANGED <<args, options, gIsExtendedLogEnabled, pc, timeout, link, index, file, step>>
        /\ UNCHANGED <<status, bytesWritten, bytesRead, line, history>>
      BY <1>1 DEF vars, parseVars, placeVars, callVars
  <2>2. Placed' /\ MoreOptions' = MoreOptions /\ Option' = Option
      BY <2>1, StaysMeans DEF Stays, IInv
  <2> QED
      BY <2>1, <2>2, LineStays DEF IInv, Typed, Untouched, Counted, Judged
<1> QED
    BY <1>1, ParseStep, ConnectionSteps, OpenSessionStep, CloseSessionStep, LibraryStep, LocalFileStep,
       FileStep, OptionStep DEF Next

LEMMA IInvHolds == Spec => []IInv
BY InitStep, NextStep, PTL DEF Spec

(* Every variable of the client has its type, and it never goes past the    *)
(* files of an option or the calls for a file.                              *)
THEOREM TypeCorrect == Spec => []TypeOK
<1>1. IInv => TypeOK
    BY TypesFollow DEF IInv
<1> QED
    BY <1>1, IInvHolds, PTL

(* A line that says SUCCEEDED is about requests the server acknowledged, or *)
(* one of whose replies was never filled in.                                *)
THEOREM LinesAreHonest == Spec => []HonestReports
<1>1. IInv => HonestReports
    BY DEF IInv
<1> QED
    BY <1>1, IInvHolds, PTL

(* The counters of a line are of its own requests and replies, one byte     *)
(* less, in the arithmetic of size_t, where a read failed.                  *)
THEOREM LinesCountTheirOwn == Spec => []CountsOfLine
<1>1. IInv => CountsOfLine
    BY DEF IInv
<1> QED
    BY <1>1, IInvHolds, PTL

-----------------------------------------------------------------------------
(* A file that is open is closed. *)

\* Between the requests for a file the server has nothing open that the calls
\* to come do not close, but what -l locked and -w left behind.
ToBeClosed(p) ==
    MoreOptions /\ HasFile /\ HasCall /\ step > 1 /\ p = <<FilesOf(Option)[file], Option.opt>>

OpenedOK ==
    /\ pc \in Early => opened = {}
    /\ pc = "handling" /\ link = "up" => \A p \in opened : p[2] \in {"l", "w"} \/ ToBeClosed(p)

\* The steps that open nothing and stay where they are.
LEMMA QuietOpened ==
    ASSUME OpenedOK, Stays, opened' \subseteq opened, pc' \in Early => pc \in Early,
           pc' = "handling" /\ link' = "up" => (pc = "handling" /\ link = "up") \/ pc \in Early
    PROVE  OpenedOK'
<1>1. /\ MoreOptions' = MoreOptions /\ Option' = Option /\ HasFile' = HasFile
      /\ HasCall' = HasCall /\ UNCHANGED <<file, step>>
    BY StaysMeans DEF Stays, HasCall
<1>2. ASSUME NEW p, ToBeClosed(p) PROVE ToBeClosed(p)'
    BY <1>1, <1>2 DEF ToBeClosed
<1> QED
    BY <1>2 DEF OpenedOK

\* The next request is for another file.
LEMMA AnewOpened ==
    ASSUME OpenedOK, UNCHANGED <<pc, link, opened>>, pc = "handling",
           ~HasFile \/ ~HasCall \/ step = 1
    PROVE  OpenedOK'
<1>1. \A p : ~ToBeClosed(p)
    BY DEF ToBeClosed
<1> QED
    BY <1>1 DEF OpenedOK, Early

\* A call for a file: an open that is acknowledged leaves a call to close it,
\* and the last call takes the file off the list.
LEMMA CallOpens ==
    ASSUME IInv, OpenedOK, callLibrary PROVE OpenedOK'
<1> DEFINE call == CallsOf(Option.opt)[step]
           f == FilesOf(Option)[file]
<1>1. /\ Handling /\ HasFile /\ HasCall /\ MoreOptions /\ pc = "handling" /\ link = "up"
      /\ UNCHANGED <<options, index, file>>
    BY DEF callLibrary, Handling, parseVars
<1>2. PICK out \in Outcomes(call, f, HasDir /\ (call = "open" => Option.opt = "w")),
           w \in Sizes, r \in Sizes :
        /\ Call(call, f, Option.opt, out, w, r)
        /\ step' = StepAfter(call, Success(out))
    BY DEF callLibrary
<1>3. pc' \notin Early
    BY <1>1 DEF callLibrary, Early
<1>4. SUFFICES ASSUME link' = "up", NEW p \in opened', p[2] \notin {"l", "w"}
               PROVE  ToBeClosed(p)'
    BY <1>3 DEF OpenedOK
<1>5. ~Lost(out) /\ opened' \in Opened(call, f, Option.opt, out)
    BY <1>2, <1>4 DEF Call
<1>6. /\ Option.opt \in {"W", "w", "r", "l", "u", "c", "a", "R"}
      /\ step \in 1 .. Len(CallsOf(Option.opt)) /\ Len(CallsOf(Option.opt)) \in 1 .. 3
    BY <1>1, OptionType, CallsType DEF HasFile, HasCall, FilesOf, Placed, IInv
<1>7. UNCHANGED <<MoreOptions, Option, HasFile>> /\ MoreOptions' /\ HasFile'
    BY <1>1 DEF MoreOptions, Option, HasFile
<1>8. p \in opened => step > 1 /\ p = <<f, Option.opt>>
    BY <1>1, <1>4 DEF OpenedOK, ToBeClosed
<1>9. CASE call = "open"
  <2>1. step = 1
      BY <1>6, <1>9 DEF CallsOf
  <2>2. p = <<f, Option.opt>> /\ Acknowledged(out)
      BY <1>5, <1>8, <1>9, <2>1 DEF Opened
  <2>3. out # "notSaved"
      BY <1>2, <1>4, <1>9, <2>2 DEF Outcomes
  <2>4. step' = 2
      BY <1>2, <1>9, <2>1, <2>2, <2>3 DEF StepAfter, Success, Acknowledged
  <2>5. Len(CallsOf(Option.opt)) >= 2
      BY <1>6, <1>9, <2>1 DEF CallsOf
  <2>6. HasCall'
      BY <1>7, <2>4, <2>5 DEF HasCall
  <2> QED
      BY <1>1, <1>7, <2>2, <2>4, <2>6 DEF ToBeClosed
<1>10. CASE call \in {"close", "remove"}
  <2>1. opened' = {q \in opened : q[1] # f}
      BY <1>5, <1>10 DEF Opened
  <2> QED
      BY <1>8, <2>1
<1>11. CASE call \notin {"open", "close", "remove"}
  <2>1. opened' = opened
      BY <1>5, <1>11 DEF Opened
  <2>2. step > 1 /\ p = <<f, Option.opt>> /\ Option.opt \notin {"l", "w"}
      BY <1>4, <1>8, <2>1
  <2>3. step' = step + 1
      BY <1>2, <1>11 DEF StepAfter
  <2>4. step + 1 <= Len(CallsOf(Option.opt))
      BY <1>6, <1>11, <2>2 DEF CallsOf
  <2>5. HasCall'
      BY <1>7, <2>3, <2>4 DEF HasCall
  <2> QED
      BY <1>1, <1>6, <1>7, <2>2, <2>3, <2>5 DEF ToBeClosed
<1> HIDE DEF call, f
<1> QED
    BY <1>9, <1>10, <1>11

LEMMA LocalFileOpens ==
    ASSUME IInv, OpenedOK, localFileFails PROVE OpenedOK'
<1>1. /\ Handling /\ HasFile /\ MoreOptions /\ pc = "handling" /\ step = 2
      /\ Option.opt \in {"W", "w"} /\ step' = 3
      /\ UNCHANGED <<options, index, file, pc, link, opened>>
    BY DEF localFileFails, Handling, parseVars, callVars, StepAfter
<1>2. MoreOptions' /\ HasFile' /\ UNCHANGED Option
    BY <1>1 DEF MoreOptions, HasFile, Option
<1>3. HasCall'
    BY <1>1, <1>2 DEF HasCall, CallsOf
<1>4. ASSUME NEW p, ToBeClosed(p) PROVE ToBeClosed(p)'
    BY <1>1, <1>2, <1>3, <1>4 DEF ToBeClosed
<1> QED
    BY <1>1, <1>4 DEF OpenedOK

LEMMA OpenedStep == IInv /\ OpenedOK /\ [Next]_vars => OpenedOK'
<1> SUFFICES ASSUME IInv, OpenedOK, [Next]_vars PROVE OpenedOK'
    OBVIOUS
<1>1. CASE UNCHANGED vars
    BY <1>1, QuietOpened DEF vars, parseVars, placeVars, callVars, Stays
<1>2. CASE parseArguments
    BY <1>2 DEF parseArguments, parseDone, parseOption, OpenedOK, Early, callVars
<1>3. CASE connectFails \/ nanosleep \/ connect
    BY <1>3, QuietOpened
       DEF connectFails, nanosleep, connect, Stays, Early, parseVars, placeVars, callVars
<1>4. CASE killed \/ serverLeaves \/ optionFails
    BY <1>4, QuietOpened
       DEF killed, serverLeaves, optionFails, Handling, Stays, Early, parseVars, placeVars, callVars
<1>5. CASE openSession \/ closeConnection
  <2>1. ASSUME NEW call \in {"openSession", "closeSession"}, NEW out, NEW w, NEW r,
               Call(call, "none", "none", out, w, r)
        PROVE  opened' \subseteq opened
      BY <2>1 DEF Call, Opened
  <2>2. opened' \subseteq opened
      BY <1>5, <2>1 DEF openSession, closeConnection
  <2>3. Stays /\ (pc' = "handling" => pc \in Early) /\ pc' \notin Early
      BY <1>5 DEF openSession, closeConnection, Stays, Early, parseVars, placeVars
  <2> QED
      BY <2>2, <2>3, QuietOpened
<1>6. CASE fileDone
    BY <1>6, AnewOpened DEF fileDone, Handling, LogOperation, Counters
<1>7. CASE optionDone
    BY <1>7, AnewOpened DEF optionDone, Handling
<1> QED
    BY <1>1, <1>2, <1>3, <1>4, <1>5, <1>6, <1>7, CallOpens, LocalFileOpens DEF Next

(* Between two files the server has nothing open for the client but what -l *)
(* locked, and what an open of -w left behind: whatever becomes of the      *)
(* requests in between, the call that closes the file is made.              *)
THEOREM OpenFilesAreClosed == Spec => []OpenedIsClosed
<1>1. Init => OpenedOK
    BY DEF Init, OpenedOK
<1>2. OpenedOK => OpenedIsClosed
    BY DEF OpenedOK, OpenedIsClosed, ToBeClosed
<1> QED
    BY <1>1, <1>2, IInvHolds, OpenedStep, PTL DEF Spec

-----------------------------------------------------------------------------
(* Every file is requested. *)

\* File k of option i has been requested, or was left out.
Covered(i, k) ==
    \/ <<i, k>> \in history.requested
    \/ options[i].opt \in {"a", "w"} /\ \A p \in history.requested : p[1] # i
    \/ options[i].opt = "w" /\ options[i].val \in 1 .. k - 1
    \/ options[i].opt \in {"r", "l", "u", "c"} /\ ~gIsExtendedLogEnabled /\ k > 1

\* What was requested so far, at the place where the program is.
Asked ==
    pc \in {"handling", "done"} =>
        /\ pc = "done" => ~MoreOptions
        /\ \A p \in history.requested : p[1] <= index /\ (file = 1 /\ step = 1 => p[1] # index)
        /\ \A k \in 1 .. file - 1 : <<index, k>> \in history.requested
        /\ step > 1 => <<index, file>> \in history.requested
        /\ \A i \in 1 .. index - 1 : \A k \in DOMAIN FilesOf(options[i]) : Covered(i, k)

LEMMA QuietAsked ==
    ASSUME IInv, Asked, Stays, UNCHANGED gIsExtendedLogEnabled,
           history'.requested = history.requested,
           pc' \in {"handling", "done"} => pc \in Early \cup {"handling", "done"},
           pc' = "done" => pc = "done" \/ ~MoreOptions
    PROVE  Asked'
<1> SUFFICES ASSUME pc' \in {"handling", "done"} PROVE Asked'
    BY DEF Asked
<1>1. MoreOptions' = MoreOptions
    BY StaysMeans
<1>2. \A i, k : Covered(i, k)' = Covered(i, k)
    BY DEF Covered, Stays
<1>3. CASE pc \in Early
  <2>1. history.requested = {} /\ index = 1 /\ file = 1 /\ step = 1
      BY <1>3 DEF IInv, Untouched, NoHistory
  <2>2. ~MoreOptions' \/ pc' # "done"
      BY <1>1, <1>3 DEF Early
  <2> QED
      BY <2>1, <2>2 DEF Asked, Stays
<1>4. CASE pc \in {"handling", "done"}
  <2>1. pc' = "done" => ~MoreOptions'
      BY <1>1, <1>4 DEF Asked
  <2>2. \A i \in 1 .. index - 1 : \A k \in DOMAIN FilesOf(options[i]) : Covered(i, k)
      BY <1>4 DEF Asked
  <2>3. \A i \in 1 .. index' - 1 : \A k \in DOMAIN FilesOf(options'[i]) : Covered(i, k)'
      BY <1>2, <2>2 DEF Stays
  <2> QED
      BY <1>4, <2>1, <2>3 DEF Asked, Stays
<1> QED
    BY <1>3, <1>4

LEMMA FilesAreSeq ==
    ASSUME IInv, MoreOptions
    PROVE  DOMAIN FilesOf(Option) = 1 .. Len(FilesOf(Option))
<1>1. Option.files \in Seq(STRING)
    BY OptionType DEF IInv, Arguments
<1>2. FilesOf(Option) \in {Option.files, <<Option.files[2]>>, << >>, <<"none">>}
    BY OptionType, Zenon DEF IInv, FilesOf
<1> QED
    BY <1>1, <1>2

\* A request for the file in hand, or none.
LEMMA RequestAsked ==
    ASSUME IInv, Asked, Handling, UNCHANGED <<parseVars, index, file>>, pc' # "done",
           step > 1 \/ <<index, file>> \in history'.requested, step' > 1,
           \/ history'.requested = history.requested
           \/ history'.requested = history.requested \cup {<<index, file>>}
    PROVE  Asked'
<1>1. /\ index \in Nat /\ file \in Nat \ {0} /\ UNCHANGED <<options, gIsExtendedLogEnabled>>
      /\ Len(options) \in Nat
    BY DEF IInv, Placed, Typed, parseVars
<1>2. Asked /\ pc = "handling"
    BY DEF Handling
<1>3. /\ <<index, file>> \in history'.requested /\ history.requested \subseteq history'.requested
      /\ \A p \in history'.requested : p \in history.requested \/ p[1] = index
    BY <1>2 DEF Asked
<1>4. ASSUME NEW i \in 1 .. index - 1, NEW k, Covered(i, k) PROVE Covered(i, k)'
    BY <1>1, <1>3, <1>4 DEF Covered
<1>5. \A p \in history'.requested : p[1] <= index
    BY <1>1, <1>2, <1>3 DEF Asked
<1>6. \A i \in 1 .. index - 1 : \A k \in DOMAIN FilesOf(options[i]) : Covered(i, k)'
    BY <1>2, <1>4 DEF Asked
<1> QED
    BY <1>1, <1>2, <1>3, <1>5, <1>6 DEF Asked

LEMMA CallAsks == ASSUME IInv, Asked, callLibrary PROVE Asked'
<1>1. /\ Handling /\ HasFile /\ HasCall /\ MoreOptions /\ pc = "handling"
      /\ UNCHANGED <<parseVars, index, file>> /\ pc' # "done"
    BY DEF callLibrary, Handling
<1>2. history \in Histories /\ step \in Nat \ {0} /\ Len(CallsOf(Option.opt)) \in 1 .. 3
    BY <1>1, CallsType DEF IInv, Typed, Placed
<1> DEFINE call == CallsOf(Option.opt)[step]
           f == FilesOf(Option)[file]
<1>3. PICK out \in Outcomes(call, f, HasDir /\ (call = "open" => Option.opt = "w")),
           w \in Sizes, r \in Sizes :
        /\ Call(call, f, Option.opt, out, w, r)
        /\ pc' = IF out = "crash" THEN "killed" ELSE pc
        /\ status' = StatusAfter(Success(out))
        /\ step' = StepAfter(call, Success(out))
        /\ history' = [Remembered(out, w, r) EXCEPT
              !.acked = @ /\ Acknowledged(out),
              !.requested = @ \cup {<<index, file>>}]
    BY DEF callLibrary
<1> HIDE DEF call, f
<1>4. history'.requested = history.requested \cup {<<index, file>>}
  <2>1. w \in Bytes /\ r \in Bytes
      BY ClientAssumption DEF Bytes
  <2>2. /\ Remembered(out, w, r) \in Histories
        /\ Remembered(out, w, r).requested = history.requested
      BY <1>2, <2>1, RememberedIs, Zenon
  <2> QED
      BY <1>3, <2>2 DEF Histories
<1>5. step' > 1
  <2>1. step' \in {step + 1, Len(CallsOf(Option.opt)) + 1}
      BY <1>3 DEF StepAfter
  <2> QED
      BY <1>2, <2>1
<1> QED
    BY <1>1, <1>4, <1>5, RequestAsked

LEMMA LocalFileAsks == ASSUME IInv, Asked, localFileFails PROVE Asked'
<1>1. /\ Handling /\ pc = "handling" /\ step = 2 /\ step' = 3
      /\ UNCHANGED <<parseVars, index, file, pc>>
      /\ history' = [history EXCEPT !.acked = FALSE]
    BY DEF localFileFails, Handling, StepAfter
<1>2. history'.requested = history.requested
  <2>1. history \in Histories
      BY DEF IInv, Typed
  <2>2. history' = [acked |-> FALSE, garbage |-> history.garbage, asked |-> history.asked,
                    answered |-> history.answered, requested |-> history.requested]
      BY <1>1, <2>1 DEF Histories
  <2> QED
      BY <2>2
<1> QED
    BY <1>1, <1>2, RequestAsked

\* The next option: the files of the last one have been requested or left out.
LEMMA NextAsked ==
    ASSUME IInv, Asked, Handling, NextOption, UNCHANGED <<parseVars, pc>>, step' = 1,
           history'.requested = history.requested,
           \A k \in DOMAIN FilesOf(Option) : Covered(index, k)
    PROVE  Asked'
<1>1. /\ index \in 1 .. Len(options) /\ Len(options) \in Nat
      /\ index' = index + 1 /\ file' = 1 /\ UNCHANGED <<options, gIsExtendedLogEnabled>>
    BY DEF IInv, Placed, Typed, Handling, MoreOptions, NextOption, parseVars
<1>2. Asked /\ pc = "handling" /\ pc' = "handling"
    BY DEF Handling
<1>3. \A i, k : Covered(i, k)' = Covered(i, k)
    BY <1>1 DEF Covered
<1>4. \A p \in history'.requested : p[1] <= index
    BY <1>2 DEF Asked
<1>5. \A p \in history'.requested : p[1] <= index' /\ p[1] # index'
  <2>1. SUFFICES ASSUME NEW p \in history'.requested PROVE p[1] <= index' /\ p[1] # index'
      OBVIOUS
  <2>2. p \in Nat \X Nat
      BY <2>1 DEF IInv, Typed, Histories
  <2> QED
      BY <1>1, <1>4, <2>2
<1>6. ASSUME NEW i \in 1 .. index' - 1, NEW k \in DOMAIN FilesOf(options'[i]) PROVE Covered(i, k)'
  <2>1. CASE i = index
      BY <1>1, <1>3, <1>6, <2>1 DEF Option
  <2>2. CASE i # index
      BY <1>1, <1>2, <1>3, <1>6, <2>2 DEF Asked
  <2> QED
      BY <2>1, <2>2
<1> QED
    BY <1>1, <1>2, <1>5, <1>6 DEF Asked

LEMMA FileAsks == ASSUME IInv, Asked, fileDone PROVE Asked'
<1>1. /\ Handling /\ HasFile /\ ~HasCall /\ pc = "handling" /\ MoreOptions /\ step' = 1
      /\ UNCHANGED <<parseVars, pc, options, gIsExtendedLogEnabled>>
    BY DEF fileDone, Handling, parseVars
<1>2. history'.requested = history.requested
  <2>1. history' = history \/ history' = Anew
      BY DEF fileDone
  <2> QED
      BY <2>1, AnewIs DEF IInv, Typed
<1>3. /\ index \in Nat /\ file \in Nat \ {0} /\ step > 1 /\ Len(FilesOf(Option)) \in Nat
      /\ file <= Len(FilesOf(Option))
  <2>1. PICK n \in 1 .. 3 : n = Len(CallsOf(Option.opt))
      BY <1>1, CallsType DEF IInv
  <2>2. Len(FilesOf(Option)) \in Nat
      BY <1>1, OptionType DEF IInv
  <2>3. index \in 1 .. Len(options) + 1 /\ Len(options) \in Nat
      BY DEF IInv, Typed, Placed
  <2>4. file \in Nat \ {0} /\ step \in Nat \ {0}
      BY DEF IInv, Placed
  <2>5. file <= Len(FilesOf(Option))
      BY <1>1 DEF HasFile
  <2>6. step > n
      BY <1>1, <2>1, <2>4 DEF HasCall
  <2>7. index \in Nat
      BY <2>3
  <2>8. step > 1
      BY <2>4, <2>6
  <2> QED
      BY <2>4, <2>5, <2>7, <2>8, <2>2
<1>4. \A k \in 1 .. file : <<index, k>> \in history.requested
    BY <1>1, <1>3 DEF Asked
<1>5. CASE IsLastFile
  <2>1. NextOption
      BY <1>5 DEF fileDone
  <2>2. ASSUME NEW k \in DOMAIN FilesOf(Option) PROVE Covered(index, k)
    <3>1. k \in 1 .. Len(FilesOf(Option))
        BY <1>1, <2>2, FilesAreSeq
    <3>2. CASE k <= file
        BY <1>3, <1>4, <3>1, <3>2 DEF Covered
    <3>3. CASE k > file
        BY <1>3, <1>5, <3>1, <3>3 DEF IsLastFile, Covered, Option
    <3> QED
        BY <1>3, <3>1, <3>2, <3>3
  <2> QED
      BY <1>1, <1>2, <2>1, <2>2, NextAsked
<1>6. CASE ~IsLastFile
  <2>1. index' = index /\ file' = file + 1
      BY <1>6 DEF fileDone
  <2>2. \A i, k : Covered(i, k)' = Covered(i, k)
      BY <1>1, <1>2 DEF Covered
  <2>3. \A i \in 1 .. index' - 1 : \A k \in DOMAIN FilesOf(options'[i]) : Covered(i, k)'
      BY <1>1, <2>1, <2>2 DEF Asked
  <2>4. \A p \in history'.requested : p[1] <= index'
      BY <1>1, <1>2, <2>1 DEF Asked
  <2>5. \A k \in 1 .. file' - 1 : <<index', k>> \in history'.requested
      BY <1>2, <1>3, <1>4, <2>1
  <2> QED
      BY <1>1, <1>3, <2>1, <2>3, <2>4, <2>5 DEF Asked
<1> QED
    BY <1>5, <1>6

LEMMA OptionAsks == ASSUME IInv, Asked, optionDone PROVE Asked'
<1>1. /\ Handling /\ pc = "handling" /\ MoreOptions /\ NextOption /\ file = 1 /\ step = 1
      /\ step' = 1 /\ UNCHANGED <<parseVars, pc>> /\ history' \in {history, Anew}
    BY DEF optionDone, Handling, IInv, Placed
<1>2. ASSUME NEW k \in DOMAIN FilesOf(Option) PROVE Covered(index, k)
  <2>1. k \in 1 .. Len(FilesOf(Option)) /\ Len(FilesOf(Option)) \in Nat
      BY <1>1, <1>2, FilesAreSeq, OptionType DEF IInv
  <2>2. Option.opt \in {"a", "w"}
      BY <1>1, <2>1 DEF optionDone, HasFile
  <2>3. \A p \in history.requested : p[1] # index
      BY <1>1 DEF Asked
  <2> QED
      BY <2>2, <2>3 DEF Covered, Option
<1>3. history'.requested = history.requested
    BY <1>1, AnewIs DEF IInv, Typed
<1> QED
    BY <1>1, <1>2, <1>3, NextAsked

LEMMA AskedStep == IInv /\ Asked /\ [Next]_vars => Asked'
<1> SUFFICES ASSUME IInv, Asked, [Next]_vars PROVE Asked'
    OBVIOUS
<1>1. CASE UNCHANGED vars
    BY <1>1, QuietAsked DEF vars, parseVars, placeVars, Stays, Asked
<1>2. CASE parseArguments
    BY <1>2 DEF parseArguments, parseDone, parseOption, Asked
<1>3. CASE connectFails \/ nanosleep \/ connect
    BY <1>3, QuietAsked
       DEF connectFails, nanosleep, connect, Stays, Early, parseVars, placeVars
<1>4. CASE killed \/ serverLeaves \/ optionFails
    BY <1>4, QuietAsked
       DEF killed, serverLeaves, optionFails, Handling, Ends, Stays, Early, parseVars, placeVars
<1>5. CASE openSession
  <2>1. PICK out \in Outcomes("openSession", "none", FALSE), r \in Sizes :
            history' = Remembered(out, 0, r)
      BY <1>5 DEF openSession
  <2>2. 0 \in Bytes /\ r \in Bytes /\ history \in Histories
      BY ClientAssumption DEF Bytes, IInv, Typed
  <2>3. history'.requested = history.requested
      BY <2>1, <2>2, RememberedIs
  <2> QED
      BY <1>5, <2>3, QuietAsked DEF openSession, Stays, Early, parseVars, placeVars
<1>6. CASE closeConnection
    BY <1>6, QuietAsked DEF closeConnection, Stays, Early, parseVars, placeVars
<1> QED
    BY <1>1, <1>2, <1>3, <1>4, <1>5, <1>6, CallAsks, LocalFileAsks, FileAsks, OptionAsks DEF Next

(* A program that ends well has sent a request for each file of its         *)
(* options, but for the files it leaves out.                                *)
THEOREM FilesAreRequested == Spec => []EveryFileRequested
<1>1. Init => Asked
    BY DEF Init, Asked
<1>2. ASSUME IInv, Asked, pc = "done", NEW i \in DOMAIN options, NEW k \in DOMAIN FilesOf(options[i])
      PROVE  Covered(i, k)
  <2>1. i \in 1 .. index - 1
      BY <1>2 DEF IInv, Typed, Placed, Asked, MoreOptions
  <2> QED
      BY <1>2, <2>1 DEF Asked
<1>3. IInv /\ Asked => EveryFileRequested
    BY <1>2 DEF EveryFileRequested, Covered
<1> QED
    BY <1>1, <1>3, IInvHolds, AskedStep, PTL DEF Spec
=============================================================================
