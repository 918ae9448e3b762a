----------------------------- MODULE TcpSocket -----------------------------
(***************************************************************************)
(* One TcpSocket (network/tcp_socket.cpp) over its UvStreamBackend         *)
(* (network/detail/stream_backend_uv.cpp), on the one loop thread both     *)
(* require.  The difficulty is re-entrancy: every callback into the user's *)
(* code may call the socket again, and the function that made the callback *)
(* goes on afterwards with whatever is left.  So a function is cut at each *)
(* callback it makes, and `stack' holds the frames that are suspended,     *)
(* innermost first.  A frame's pc names the point at which its function    *)
(* resumes; a frame with pc "user" is a user callback in progress.         *)
(*                                                                         *)
(* libuv is external: it answers a connect or a write once, cancels both   *)
(* when the handle is closed, and calls the close callback after them.     *)
(***************************************************************************)
EXTENDS Integers, Sequences, FiniteSets

CONSTANTS MaxWrites,     \* bound: calls of write()
          MaxCloses,     \* bound: calls of close() by the user
          EarlyClose     \* may the kConnecting state callback call close()?

ASSUME TcpAssumption ==
    MaxWrites \in Nat /\ MaxCloses \in Nat /\ EarlyClose \in BOOLEAN

VARIABLES
    mState,          \* TcpSocketPrivate::mState, a SocketState
    closing,         \* TcpSocketPrivate::mCloseRequested
    onConnect,       \* is TcpSocketPrivate::mOnConnect set?
    onData,          \* is TcpSocketPrivate::mOnData set?
    handle,          \* UvStreamBackend::mHandle: "none", "open" or "uv_close"d
    bClosing,        \* UvStreamBackend::mCloseRequested
    bOnConnect,      \* is UvStreamBackend::mOnConnect set?
    bOnData,         \* is UvStreamBackend::mOnData set?
    bOnClosed,       \* is UvStreamBackend::mOnClosed set?
    readArmed,       \* UvStreamBackend::mReadArmed
    pending,         \* UvStreamBackend::mPendingWrites: the writes queued
    inFlight,        \* the write of UvStreamBackend::mWriteReq, or 0
    connecting,      \* is a uv_connect_t with libuv?
    stack,           \* the suspended frames, innermost first
    life,            \* "live", "dying" in ~TcpSocket, or "destroyed"
    called,          \* what the user asked for: connect, writes, closes
    answers          \* the results each operation's callback was given

socketVars == <<mState, closing, onConnect, onData>>
backendVars == <<handle, bClosing, bOnConnect, bOnData, bOnClosed, readArmed,
                 pending, inFlight, connecting>>
vars == <<socketVars, backendVars, stack, life, called, answers>>

Writes == 1 .. MaxWrites
ConnectOp == 0
Ops == {ConnectOp} \cup Writes

(***************************************************************************)
(* Frames.  `ok' is an argument of connect_done, `ds' the local `discards' *)
(* of the backend's begin_close, `cb' the callback a "user" frame runs.    *)
(***************************************************************************)
Frame(pc) == [pc |-> pc, ok |-> FALSE, ds |-> <<>>, cb |-> ""]
User(cb) == [Frame("user") EXCEPT !.cb = cb]
ConnectDone(pc, ok) == [Frame(pc) EXCEPT !.ok = ok]
At(pc) == stack # <<>> /\ Head(stack).pc = pc
Rest == Tail(stack)

Answer(op, ok) == answers' = [answers EXCEPT ![op] = Append(@, ok)]

\* set_state(): the state, then the state callback, then the frames `then'.
SetState(s, then) ==
    /\ mState' = s
    /\ stack' = <<User("state")>> \o then

IsOpen == handle # "none" /\ ~bClosing

(***************************************************************************)
(* A socket is constructed idle, or adopts a connected handle.             *)
(***************************************************************************)
Init ==
    /\ \/ mState = "kIdle" /\ handle = "none"
       \/ mState = "kConnected" /\ handle = "open"
    /\ closing = FALSE /\ onConnect = FALSE /\ onData = FALSE
    /\ bClosing = FALSE /\ bOnConnect = FALSE /\ bOnData = FALSE
    /\ bOnClosed = FALSE /\ readArmed = FALSE
    /\ pending = <<>> /\ inFlight = 0 /\ connecting = FALSE
    /\ stack = <<>> /\ life = "live"
    /\ called = [connect |-> FALSE, writes |-> 0, closes |-> 0]
    /\ answers = [op \in Ops |-> <<>>]

(***************************************************************************)
(* The user's calls, made outside every callback or from inside one.       *)
(* A call the code answers with a fatal check is not made.                 *)
(***************************************************************************)
UserMayCall == (stack = <<>> /\ life = "live") \/ At("user")

Connect ==
    /\ UserMayCall
    /\ mState = "kIdle" /\ ~closing
    /\ onConnect' = TRUE
    /\ called' = [called EXCEPT !.connect = TRUE]
    /\ SetState("kConnecting", <<Frame("connect")>> \o stack)
    /\ UNCHANGED <<closing, onData, backendVars, life, answers>>

WriteToClosed == closing \/ mState \in {"kClosing", "kClosed"}

Write ==
    /\ UserMayCall
    /\ called.writes < MaxWrites
    /\ LET w == called.writes + 1 IN
       /\ called' = [called EXCEPT !.writes = w]
       /\ IF WriteToClosed
          THEN /\ Answer(w, FALSE)
               /\ stack' = <<User("written")>> \o stack
               /\ UNCHANGED pending
          ELSE /\ mState = "kConnected"
               /\ pending' = Append(pending, w)
               /\ stack' = <<Frame("submit")>> \o stack
               /\ UNCHANGED answers
    /\ UNCHANGED <<socketVars, handle, bClosing, bOnConnect, bOnData, bOnClosed,
                   readArmed, inFlight, connecting, life>>

ReadStart ==
    /\ UserMayCall
    /\ ~closing /\ mState = "kConnected"
    /\ onData' = TRUE /\ bOnData' = TRUE /\ readArmed' = TRUE
    /\ UNCHANGED <<mState, closing, onConnect, handle, bClosing, bOnConnect,
                   bOnClosed, pending, inFlight, connecting, stack, life,
                   called, answers>>

ReadStop ==
    /\ UserMayCall
    /\ readArmed /\ readArmed' = FALSE
    /\ UNCHANGED <<socketVars, handle, bClosing, bOnConnect, bOnData, bOnClosed,
                   pending, inFlight, connecting, stack, life, called, answers>>

\* EarlyClose excludes one caller: the state callback of connect() itself.
MayClose ==
    EarlyClose \/ ~(Len(stack) > 1 /\ stack[2].pc = "connect")

Close ==
    /\ UserMayCall
    /\ called.closes < MaxCloses /\ MayClose
    /\ called' = [called EXCEPT !.closes = @ + 1]
    /\ stack' = <<Frame("close")>> \o stack
    /\ UNCHANGED <<socketVars, backendVars, life, answers>>

UserReturns ==
    /\ At("user")
    /\ stack' = Rest
    /\ UNCHANGED <<socketVars, backendVars, life, called, answers>>

(***************************************************************************)
(* UvStreamBackend::connect(): a bad address fails with no handle, a       *)
(* synchronous uv_tcp_connect() failure with one, otherwise libuv answers. *)
(***************************************************************************)
BackendConnect ==
    /\ At("connect")
    /\ \/ /\ stack' = <<ConnectDone("done", FALSE)>> \o Rest
          /\ UNCHANGED <<handle, bOnConnect, connecting>>
       \/ /\ handle' = "open"
          /\ stack' = <<ConnectDone("done", FALSE)>> \o Rest
          /\ UNCHANGED <<bOnConnect, connecting>>
       \/ /\ handle' = "open" /\ bOnConnect' = TRUE /\ connecting' = TRUE
          /\ stack' = Rest
    /\ UNCHANGED <<socketVars, bClosing, bOnData, bOnClosed, readArmed, pending,
                   inFlight, life, called, answers>>

(***************************************************************************)
(* TcpSocketPrivate::connect_done(d, ok), cut at its callbacks.            *)
(***************************************************************************)
ConnectDoneEntry ==
    /\ At("done")
    /\ LET ok == Head(stack).ok
           go(pc) == <<ConnectDone(pc, ok)>> \o Rest IN
       IF ok /\ mState = "kConnecting"
       THEN SetState("kConnected", go("done answer"))
       ELSE /\ stack' = IF closing THEN go("done answer")
                        ELSE <<User("error")>> \o go("done failed")
            /\ UNCHANGED mState
    /\ UNCHANGED <<closing, onConnect, onData, backendVars, life, called, answers>>

ConnectFailed ==
    /\ At("done failed")
    /\ LET then == <<ConnectDone("done answer", Head(stack).ok)>> \o Rest IN
       IF mState = "kConnecting"
       THEN SetState("kClosing", then)
       ELSE stack' = then /\ UNCHANGED mState
    /\ UNCHANGED <<closing, onConnect, onData, backendVars, life, called, answers>>

ConnectAnswer ==
    /\ At("done answer")
    /\ LET ok == Head(stack).ok
           then == <<ConnectDone("done tidy", ok)>> \o Rest IN
       IF onConnect
       THEN Answer(ConnectOp, ok) /\ stack' = <<User("connected")>> \o then
       ELSE stack' = then /\ UNCHANGED answers
    /\ onConnect' = FALSE
    /\ UNCHANGED <<mState, closing, onData, backendVars, life, called>>

ConnectTidy ==
    /\ At("done tidy")
    /\ stack' = IF ~Head(stack).ok /\ mState = "kClosing" /\ ~closing
                THEN <<Frame("close"), Frame("done reset")>> \o Rest
                ELSE Rest
    /\ UNCHANGED <<socketVars, backendVars, life, called, answers>>

ConnectReset ==
    /\ At("done reset")
    /\ IF mState = "kClosing"
       THEN SetState("kIdle", Rest)
       ELSE stack' = Rest /\ UNCHANGED mState
    /\ UNCHANGED <<closing, onConnect, onData, backendVars, life, called, answers>>

(***************************************************************************)
(* TcpSocketPrivate::begin_close().                                        *)
(***************************************************************************)
CloseEntry ==
    /\ At("close")
    /\ closing' = TRUE
    /\ IF closing
       THEN stack' = Rest /\ UNCHANGED mState
       ELSE IF mState = "kClosed" \/ ~IsOpen
            THEN SetState("kClosed", <<Frame("close unopened")>> \o Rest)
            ELSE SetState("kClosing", <<Frame("close connect")>> \o Rest)
    /\ UNCHANGED <<onConnect, onData, backendVars, life, called, answers>>

CloseUnopened ==
    /\ At("close unopened")
    /\ bOnClosed' = FALSE
    /\ stack' = <<Frame("bclose")>> \o Rest
    /\ UNCHANGED <<socketVars, handle, bClosing, bOnConnect, bOnData, readArmed,
                   pending, inFlight, connecting, life, called, answers>>

\* mutant: the pending connect is answered but its callback is kept
CloseKeepsConnect ==
    /\ At("close connect")
    /\ LET then == <<Frame("close backend")>> \o Rest IN
       IF onConnect
       THEN Answer(ConnectOp, FALSE) /\ stack' = <<User("connected")>> \o then
       ELSE stack' = then /\ UNCHANGED answers
    /\ UNCHANGED <<socketVars, backendVars, life, called>>

CloseConnect ==
    /\ At("close connect")
    /\ LET then == <<Frame("close backend")>> \o Rest IN
       IF onConnect
       THEN Answer(ConnectOp, FALSE) /\ stack' = <<User("connected")>> \o then
       ELSE stack' = then /\ UNCHANGED answers
    /\ onConnect' = FALSE
    /\ UNCHANGED <<mState, closing, onData, backendVars, life, called>>

\* mutant: the data callback survives the close
CloseKeepsData ==
    /\ At("close backend")
    /\ bOnClosed' = TRUE
    /\ stack' = <<Frame("bclose")>> \o Rest
    /\ UNCHANGED <<socketVars, handle, bClosing, bOnConnect,
                   bOnData, readArmed, pending, inFlight, connecting, life,
                   called, answers>>

CloseBackend ==
    /\ At("close backend")
    /\ onData' = FALSE /\ bOnClosed' = TRUE
    /\ stack' = <<Frame("bclose")>> \o Rest
    /\ UNCHANGED <<mState, closing, onConnect, handle, bClosing, bOnConnect,
                   bOnData, readArmed, pending, inFlight, connecting, life,
                   called, answers>>

(***************************************************************************)
(* UvStreamBackend::begin_close(): the queue is swapped out and discarded, *)
(* the connect callback dropped, the handle handed to uv_close().          *)
(***************************************************************************)
\* mutant: the queue is discarded without its callbacks
DiscardSilently ==
    /\ At("bclose")
    /\ bClosing' = TRUE
    /\ IF bClosing
       THEN stack' = Rest /\ UNCHANGED pending
       ELSE /\ pending' = <<>>
            /\ stack' = <<Frame("bclose discard")>> \o Rest
    /\ UNCHANGED <<socketVars, handle, bOnConnect, bOnData, bOnClosed, readArmed,
                   inFlight, connecting, life, called, answers>>

BackendClose ==
    /\ At("bclose")
    /\ bClosing' = TRUE
    /\ IF bClosing
       THEN stack' = Rest /\ UNCHANGED pending
       ELSE /\ pending' = <<>>
            /\ stack' = <<[Frame("bclose discard") EXCEPT !.ds = pending]>> \o Rest
    /\ UNCHANGED <<socketVars, handle, bOnConnect, bOnData, bOnClosed, readArmed,
                   inFlight, connecting, life, called, answers>>

BackendDiscard ==
    /\ At("bclose discard")
    /\ LET ds == Head(stack).ds IN
       IF ds # <<>>
       THEN /\ Answer(Head(ds), FALSE)
            /\ stack' = <<User("written"), [Head(stack) EXCEPT !.ds = Tail(ds)]>> \o Rest
       ELSE stack' = <<Frame("bclose connect")>> \o Rest /\ UNCHANGED answers
    /\ UNCHANGED <<socketVars, backendVars, life, called>>

BackendCloseConnect ==
    /\ At("bclose connect")
    /\ bOnConnect' = FALSE
    /\ LET then == <<Frame("bclose handle")>> \o Rest IN
       stack' = IF bOnConnect THEN <<ConnectDone("done", FALSE)>> \o then ELSE then
    /\ UNCHANGED <<socketVars, handle, bClosing, bOnData, bOnClosed, readArmed,
                   pending, inFlight, connecting, life, called, answers>>

\* mutant: uv_close() is never called on an armed handle
ArmedHandleStaysOpen ==
    /\ At("bclose handle")
    /\ handle' = IF handle = "none" \/ readArmed THEN handle ELSE "uv_close"
    /\ readArmed' = FALSE
    /\ bOnData' = FALSE
    /\ stack' = Rest
    /\ UNCHANGED <<socketVars, bClosing, bOnConnect, bOnClosed, pending, inFlight,
                   connecting, life, called, answers>>

\* With no handle mOnClosed is null: the socket passes nullptr to close() then.
BackendCloseHandle ==
    /\ At("bclose handle")
    /\ IF handle = "none"
       THEN UNCHANGED <<handle, readArmed, bOnData>>
       ELSE handle' = "uv_close" /\ readArmed' = FALSE /\ bOnData' = FALSE
    /\ stack' = Rest
    /\ UNCHANGED <<socketVars, bClosing, bOnConnect, bOnClosed, pending, inFlight,
                   connecting, life, called, answers>>

(***************************************************************************)
(* UvStreamBackend::submit_next_write(): one uv_write() at a time; one     *)
(* that fails at once is answered inline and the next is tried.            *)
(***************************************************************************)
SubmitNextWrite ==
    /\ At("submit")
    /\ IF inFlight # 0 \/ pending = <<>>
       THEN stack' = Rest /\ UNCHANGED <<pending, inFlight, answers>>
       ELSE /\ pending' = Tail(pending)
            /\ \/ /\ inFlight' = Head(pending) /\ stack' = Rest
                  /\ UNCHANGED answers
               \/ /\ Answer(Head(pending), FALSE)
                  /\ stack' = <<User("written")>> \o stack
                  /\ UNCHANGED inFlight
    /\ UNCHANGED <<socketVars, handle, bClosing, bOnConnect, bOnData, bOnClosed,
                   readArmed, connecting, life, called>>

(***************************************************************************)
(* The callbacks libuv makes from a round of the loop, which runs when no  *)
(* function of the socket does, or inside the destructor's pump.           *)
(***************************************************************************)
InRound == (stack = <<>> /\ life = "live") \/ At("pump")

OnConnectDone ==
    /\ InRound /\ connecting
    /\ connecting' = FALSE /\ bOnConnect' = FALSE
    /\ \E success \in IF handle = "open" THEN BOOLEAN ELSE {FALSE} :
          stack' = IF bOnConnect
                   THEN <<ConnectDone("done", success /\ ~bClosing)>> \o stack
                   ELSE stack
    /\ UNCHANGED <<socketVars, handle, bClosing, bOnData, bOnClosed, readArmed,
                   pending, inFlight, life, called, answers>>

OnReadData ==
    /\ InRound /\ readArmed /\ handle = "open"
    /\ bOnData /\ onData
    /\ stack' = <<User("data")>> \o stack
    /\ UNCHANGED <<socketVars, backendVars, life, called, answers>>

OnReadEnd ==
    /\ InRound /\ readArmed /\ handle = "open"
    /\ bOnData' = FALSE
    /\ stack' = (IF bOnData THEN <<User("error"), Frame("read end")>> ELSE <<>>)
                   \o <<Frame("bclose")>> \o stack
    /\ UNCHANGED <<socketVars, handle, bClosing, bOnConnect, bOnClosed, readArmed,
                   pending, inFlight, connecting, life, called, answers>>

\* read_event(): the terminal event, read_stop(), begin_close().
ReadEnd ==
    /\ At("read end")
    /\ onData' = FALSE
    /\ stack' = (IF onData THEN <<User("eof")>> ELSE <<>>)
                   \o <<Frame("read stop")>> \o Rest
    /\ UNCHANGED <<mState, closing, onConnect, backendVars, life, called, answers>>

ReadEndClose ==
    /\ At("read stop")
    /\ readArmed' = FALSE
    /\ stack' = <<Frame("close")>> \o Rest
    /\ UNCHANGED <<socketVars, handle, bClosing, bOnConnect, bOnData, bOnClosed,
                   pending, inFlight, connecting, life, called, answers>>

\* mutant: the next write is not submitted from the completion
CompletionSubmitsNone ==
    /\ InRound /\ inFlight # 0
    /\ inFlight' = 0
    /\ \E ok \in IF handle = "open" THEN BOOLEAN ELSE {FALSE} : Answer(inFlight, ok)
    /\ stack' = <<User("written")>> \o stack
    /\ UNCHANGED <<socketVars, handle, bClosing, bOnConnect, bOnData, bOnClosed,
                   readArmed, pending, connecting, life, called>>

OnWriteDone ==
    /\ InRound /\ inFlight # 0
    /\ inFlight' = 0
    /\ \E ok \in IF handle = "open" THEN BOOLEAN ELSE {FALSE} : Answer(inFlight, ok)
    /\ stack' = <<User("written"), Frame("submit")>> \o stack
    /\ UNCHANGED <<socketVars, handle, bClosing, bOnConnect, bOnData, bOnClosed,
                   readArmed, pending, connecting, life, called>>

OnClosed ==
    /\ InRound /\ handle = "uv_close" /\ ~connecting /\ inFlight = 0
    /\ handle' = "none" /\ bOnClosed' = FALSE
    /\ IF bOnClosed /\ mState # "kIdle"
       THEN SetState("kClosed", stack)
       ELSE UNCHANGED <<mState, stack>>
    /\ UNCHANGED <<closing, onConnect, onData, bClosing, bOnConnect, bOnData,
                   readArmed, pending, inFlight, connecting, life, called, answers>>

(***************************************************************************)
(* ~TcpSocket, outside every callback and every round: close() unless      *)
(* kClosed or kIdle, then pump_until_closed(), whose rounds end when the   *)
(* handle is gone or, with nothing left to wait for, at the 1000th.        *)
(***************************************************************************)
Destroy ==
    /\ stack = <<>> /\ life = "live"
    /\ life' = "dying"
    /\ stack' = (IF mState \in {"kClosed", "kIdle"} THEN <<>> ELSE <<Frame("close")>>)
                   \o <<Frame("drain")>>
    /\ UNCHANGED <<socketVars, backendVars, called, answers>>

Drain ==
    /\ At("drain")
    /\ stack' = (IF IsOpen THEN <<Frame("bclose")>> ELSE <<>>) \o <<Frame("pump")>>
    /\ UNCHANGED <<socketVars, backendVars, life, called, answers>>

DrainEnds ==
    /\ At("pump")
    /\ \/ handle = "none"
       \/ handle = "open" /\ ~connecting /\ inFlight = 0 /\ ~readArmed
    /\ life' = "destroyed" /\ stack' = <<>>
    /\ UNCHANGED <<socketVars, backendVars, called, answers>>

Calls == Connect \/ Write \/ ReadStart \/ ReadStop \/ Close
Run ==
    \/ BackendConnect \/ ConnectDoneEntry \/ ConnectFailed \/ ConnectAnswer
    \/ ConnectTidy \/ ConnectReset
    \/ CloseEntry \/ CloseUnopened \/ CloseConnect \/ CloseBackend
    \/ BackendClose \/ BackendDiscard \/ BackendCloseConnect \/ BackendCloseHandle
    \/ SubmitNextWrite \/ ReadEnd \/ ReadEndClose
    \/ Drain \/ DrainEnds \/ UserReturns
Round == OnConnectDone \/ OnReadData \/ OnReadEnd \/ OnWriteDone \/ OnClosed

Next == Calls \/ Run \/ Round \/ Destroy

\* The socket's functions run to their end, callbacks return, and the loop goes on
\* making rounds.  libuv serves the read and the write side of a stream in the same
\* round, so reads do not starve a completion (strong fairness); that a write does
\* complete assumes a peer that keeps reading.  Nobody has to call the socket or to
\* destroy it.
Fairness ==
    /\ WF_vars(Run) /\ WF_vars(OnConnectDone) /\ WF_vars(OnClosed)
    /\ SF_vars(OnWriteDone)
Spec == Init /\ [][Next]_vars /\ Fairness

-----------------------------------------------------------------------------
Called == {w \in Writes : w <= called.writes}
             \cup (IF called.connect THEN {ConnectOp} ELSE {})

\* tcp_socket.hpp: the connected callback "is one-shot", and a write is answered
\* "when the bytes are written out (or dropped, with false)".  However the
\* callbacks re-enter the socket, no operation is answered twice; and as "further
\* writes queue in FIFO order", a write that got through was answered after every
\* write called before it.
AnswersInOrder ==
    /\ \A op \in Ops : Len(answers[op]) <= 1
    /\ \A v, w \in Writes : v < w /\ answers[w] = <<TRUE>> => answers[v] # <<>>

\* socket_state.hpp, kClosed: "close completed; nothing pending"; ~UvStreamBackend
\* checks that no handle outlived the drain pump.  A socket that rests in kClosed
\* or is destroyed has no handle, no write queued or with libuv, and has answered
\* every operation the user called.
NothingLeftBehind ==
    stack = <<>> /\ (mState = "kClosed" \/ life = "destroyed") =>
        /\ handle = "none" /\ ~readArmed
        /\ pending = <<>> /\ inFlight = 0 /\ ~connecting
        /\ \A op \in Called : answers[op] # <<>>

DataCallbacks(s) == Cardinality({i \in DOMAIN s : s[i].cb \in {"data", "eof"}})

\* begin_close() drops the data callback: no delivery starts after close() was
\* called, not even the terminal one of a read that had already failed.
NoDataAfterClose == DataCallbacks(stack') > DataCallbacks(stack) => ~closing

\* While the loop makes rounds every connect() and write() is answered: each queued
\* write is submitted from its predecessor's completion, or discarded by a close.  And a
\* close that was begun ends: the handle is freed and the machine rests in kClosed, or in
\* kIdle when the close was that of a failed connect.
CallsComplete ==
    /\ \A op \in Ops : (op \in Called) ~> (answers[op] # <<>>)
    /\ closing ~> /\ handle = "none" /\ stack = <<>>
                  /\ \/ mState = "kClosed"
                     \/ mState = "kIdle" /\ answers[ConnectOp] = <<FALSE>>
=============================================================================
