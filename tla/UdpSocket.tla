----------------------------- MODULE UdpSocket -----------------------------
(***************************************************************************)
(* One UdpSocket (network/udp_socket.cpp) over its UvDgramBackend          *)
(* (network/detail/dgram_backend_uv.cpp), on the one loop thread both      *)
(* require.  As in TcpSocket, a function is cut at each callback it makes  *)
(* into the user's code, which may call the socket again; `stack' holds    *)
(* the suspended frames, innermost first.                                  *)
(*                                                                         *)
(* The socket does not tell the backend which callback belongs to a send:  *)
(* it queues the callbacks in mPendingSendDones and takes the oldest at    *)
(* each completion, so the two queues have to stay aligned.                *)
(*                                                                         *)
(* libuv is external: it completes the sends it took in their order, also  *)
(* those of a closed handle, and calls the close callback after them.      *)
(***************************************************************************)
EXTENDS Integers, Sequences

CONSTANTS Peers,         \* the remote endpoints
          MaxSends,      \* bound: calls of send_to() and send()
          MaxCloses,     \* bound: calls of close()
          MaxCalls,      \* bound: calls of the other functions
          Cases          \* the situations below that may occur

\* What the code does not cope with (see the README), by the name it has in Cases:
\* "bad address", one that does not parse; "refused behind", a send libuv refuses at once
\* behind others; "send in close", send() from a callback close() makes; "close in bind",
\* close() from the error callback of a deferred set_broadcast().

VARIABLES
    mState,          \* UdpSocketPrivate::mState, a SocketState
    closing,         \* UdpSocketPrivate::mCloseRequested
    dones,           \* UdpSocketPrivate::mPendingSendDones: the sends queued
    onDatagram,      \* is UdpSocketPrivate::mOnDatagram set?
    mPeer,           \* UdpSocketPrivate::mPeerIp and mPeerPort, or NoPeer
    broadcast,       \* UdpSocketPrivate::mBroadcastPending
    handle,          \* UvDgramBackend::mHandle: "none", "open" or "uv_close"d
    bClosing,        \* UvDgramBackend::mCloseRequested
    bConnected,      \* UvDgramBackend::mConnected
    bOnDatagram,     \* is UvDgramBackend::mOnDatagram set?
    recvArmed,       \* UvDgramBackend::mRecvArmed
    inFlight,        \* the uv_udp_send_t requests with libuv, by send
    stack,           \* the suspended frames, innermost first
    life,            \* "live", "dying" in ~UdpSocket, or "destroyed"
    called,          \* what the user called so far
    answers,         \* the results each send's callback was given
    through          \* history: the sends libuv completed with status 0

socketVars == <<mState, closing, dones, onDatagram, mPeer, broadcast>>
backendVars == <<handle, bClosing, bConnected, bOnDatagram, recvArmed, inFlight>>
history == <<life, called, answers, through>>
vars == <<socketVars, backendVars, stack, history>>

Sends == 1 .. MaxSends
NoPeer == "no peer"

(***************************************************************************)
(* Frames.  `arg' is the send or the peer the function was called with, ok *)
(* the argument of send_done, `ds' the local `pending' of begin_close, and *)
(* `cb' the callback a "user" frame runs.                                  *)
(***************************************************************************)
Frame(pc) == [pc |-> pc, arg |-> NoPeer, ok |-> FALSE, ds |-> <<>>, cb |-> ""]
With(pc, arg) == [Frame(pc) EXCEPT !.arg = arg]
User(cb) == [Frame("user") EXCEPT !.cb = cb]
Done(pc, ok) == [Frame(pc) EXCEPT !.ok = ok]
At(pc) == stack # <<>> /\ Head(stack).pc = pc
Top == Head(stack)
Rest == Tail(stack)

Answer(w, ok) == answers' = [answers EXCEPT ![w] = Append(@, ok)]

\* set_state(): the state, then the state callback, then the frames `then'.
SetState(s, then) ==
    /\ mState' = s
    /\ stack' = <<User("state")>> \o then

Init ==
    /\ mState = "kIdle" /\ closing = FALSE /\ dones = <<>> /\ onDatagram = FALSE
    /\ mPeer = NoPeer /\ broadcast = FALSE
    /\ handle = "none" /\ bClosing = FALSE /\ bConnected = FALSE
    /\ bOnDatagram = FALSE /\ recvArmed = FALSE /\ inFlight = <<>>
    /\ stack = <<>> /\ life = "live"
    /\ called = [sends |-> 0, closes |-> 0, others |-> 0]
    /\ answers = [w \in Sends |-> <<>>]
    /\ through = {}

(***************************************************************************)
(* The user's calls, made outside every callback or from inside one.       *)
(* A call the code answers with a fatal check is not made.                 *)
(***************************************************************************)
UserMayCall == (stack = <<>> /\ life = "live") \/ At("user")

OtherCall ==
    /\ UserMayCall
    /\ called.others < MaxCalls
    /\ called' = [called EXCEPT !.others = @ + 1]

\* UvDgramBackend::bind(), which checks that there is no handle and leaves none when it
\* fails, then apply_pending_broadcast() and set_state(kBound), then the frames `then'.
BindThen(then, failed) ==
    /\ handle = "none"
    /\ \/ /\ handle' = "open"
          /\ stack' = <<Frame("broadcast"), Frame("bound")>> \o then \o stack
       \/ /\ stack' = <<User("error")>> \o failed \o stack
          /\ UNCHANGED handle

\* The same, for a function that binds on its first use.
BoundThen(then, failed) ==
    \/ mState = "kIdle" /\ BindThen(then, failed)
    \/ /\ mState # "kIdle"
       /\ stack' = then \o stack
       /\ UNCHANGED handle

Bind ==
    /\ OtherCall
    /\ ~closing /\ mState = "kIdle"
    /\ BindThen(<<>>, <<>>)
    /\ UNCHANGED <<socketVars, bClosing, bConnected, bOnDatagram, recvArmed, inFlight,
                   life, answers, through>>

NextSend ==
    /\ UserMayCall
    /\ called.sends < MaxSends
    /\ called' = [called EXCEPT !.sends = @ + 1]

SendTo ==
    /\ NextSend
    /\ LET w == called'.sends IN
       IF closing \/ mState = "kClosed"
       THEN /\ Answer(w, FALSE)
            /\ stack' = <<User("sent")>> \o stack
            /\ UNCHANGED handle
       ELSE /\ mState \in {"kIdle", "kBound"}
            /\ BoundThen(<<With("send_to", w)>>, <<With("unsent", w)>>)
            /\ UNCHANGED answers
    /\ UNCHANGED <<socketVars, bClosing, bConnected, bOnDatagram, recvArmed, inFlight,
                   life, through>>

\* send() does not look at mCloseRequested.
Send ==
    /\ NextSend
    /\ mState = "kConnected"
    /\ closing => "send in close" \in Cases
    /\ stack' = <<With("send", called'.sends)>> \o stack
    /\ UNCHANGED <<socketVars, backendVars, life, answers, through>>

ConnectTo(p) ==
    /\ OtherCall
    /\ ~closing /\ mState \in {"kIdle", "kBound"}
    /\ BoundThen(<<With("connect", p)>>, <<>>)
    /\ UNCHANGED <<socketVars, bClosing, bConnected, bOnDatagram, recvArmed, inFlight,
                   life, answers, through>>

\* mutant: the backend keeps its pin
DisconnectKeepsPin ==
    /\ OtherCall
    /\ mState = "kConnected"
    /\ mPeer' = NoPeer
    /\ SetState("kBound", stack)
    /\ UNCHANGED <<closing, dones, onDatagram, broadcast, backendVars,
                   life, answers, through>>

DisconnectRemote ==
    /\ OtherCall
    /\ mState = "kConnected"
    /\ bConnected' = FALSE /\ mPeer' = NoPeer
    /\ SetState("kBound", stack)
    /\ UNCHANGED <<closing, dones, onDatagram, broadcast, handle, bClosing, bOnDatagram,
                   recvArmed, inFlight, life, answers, through>>

SetBroadcast(enable) ==
    /\ OtherCall
    /\ ~closing /\ mState # "kClosed"
    /\ IF mState = "kIdle"
       THEN broadcast' = enable /\ UNCHANGED stack
       ELSE /\ stack' \in {stack, <<User("error")>> \o stack}
            /\ UNCHANGED broadcast
    /\ UNCHANGED <<mState, closing, dones, onDatagram, mPeer, backendVars,
                   life, answers, through>>

SetOnDatagram ==
    /\ OtherCall
    /\ ~closing /\ mState \in {"kIdle", "kBound", "kConnected"}
    /\ BoundThen(<<Frame("arm")>>, <<>>)
    /\ UNCHANGED <<socketVars, bClosing, bConnected, bOnDatagram, recvArmed, inFlight,
                   life, answers, through>>

Close ==
    /\ UserMayCall
    /\ called.closes < MaxCloses
    /\ Len(stack) > 1 /\ stack[2].pc = "bound" => "close in bind" \in Cases
    /\ called' = [called EXCEPT !.closes = @ + 1]
    /\ stack' = <<Frame("close")>> \o stack
    /\ UNCHANGED <<socketVars, backendVars, life, answers, through>>

UserReturns ==
    /\ At("user")
    /\ stack' = Rest
    /\ UNCHANGED <<socketVars, backendVars, history>>

(***************************************************************************)
(* What follows a bind, and the functions that bind on their first use.    *)
(***************************************************************************)
ApplyPendingBroadcast ==
    /\ At("broadcast")
    /\ \/ broadcast' = FALSE /\ stack' = Rest
       \/ /\ broadcast
          /\ stack' = <<User("error")>> \o Rest
          /\ UNCHANGED broadcast
    /\ UNCHANGED <<mState, closing, dones, onDatagram, mPeer, backendVars, history>>

Bound ==
    /\ At("bound")
    /\ SetState("kBound", Rest)
    /\ UNCHANGED <<closing, dones, onDatagram, mPeer, broadcast, backendVars, history>>

Unsent ==
    /\ At("unsent")
    /\ Answer(Top.arg, FALSE)
    /\ stack' = <<User("sent")>> \o Rest
    /\ UNCHANGED <<socketVars, backendVars, life, called, through>>

Pin ==
    /\ At("connect")
    /\ \/ /\ handle = "open" /\ ~bClosing /\ ~bConnected
          /\ bConnected' = TRUE /\ mPeer' = Top.arg
          /\ SetState("kConnected", Rest)
       \/ /\ stack' = <<User("error")>> \o Rest
          /\ UNCHANGED <<mState, mPeer, bConnected>>
    /\ UNCHANGED <<closing, dones, onDatagram, broadcast, handle, bClosing, bOnDatagram,
                   recvArmed, inFlight, history>>

Arm ==
    /\ At("arm")
    /\ onDatagram' = TRUE
    /\ IF bClosing
       THEN UNCHANGED <<bOnDatagram, recvArmed>>
       ELSE bOnDatagram' = TRUE /\ recvArmed' = TRUE
    /\ stack' = Rest
    /\ UNCHANGED <<mState, closing, dones, mPeer, broadcast, handle, bClosing, bConnected,
                   inFlight, history>>

(***************************************************************************)
(* UvDgramBackend::send_to().  A closed backend and a uv_udp_send() that   *)
(* fails at once complete inline.  For an address that does not parse the  *)
(* callback was moved into the request before it is called, and is lost.   *)
(***************************************************************************)
Submit ==
    /\ At("send_to") \/ At("send")
    /\ dones' = Append(dones, Top.arg)
    /\ \/ /\ \/ bClosing \/ handle = "none"
             \/ dones # <<>> => "refused behind" \in Cases
          /\ stack' = <<Done("done", FALSE)>> \o Rest
          /\ UNCHANGED inFlight
       \/ /\ ~bClosing /\ handle # "none"
          /\ stack' = Rest
          /\ \/ inFlight' = Append(inFlight, Top.arg)
             \/ /\ Top.pc = "send_to" /\ "bad address" \in Cases
                /\ UNCHANGED inFlight
    /\ UNCHANGED <<mState, closing, onDatagram, mPeer, broadcast, handle, bClosing,
                   bConnected, bOnDatagram, recvArmed, history>>

(***************************************************************************)
(* UdpSocketPrivate::send_done(d, ok).                                     *)
(***************************************************************************)
SendDone ==
    /\ At("done")
    /\ stack' = (IF Top.ok \/ life = "dying" THEN <<>> ELSE <<User("error")>>)
                   \o <<Done("done pop", Top.ok)>> \o Rest
    /\ UNCHANGED <<socketVars, backendVars, history>>

\* mutant: the newest callback is taken
PopNewest ==
    /\ At("done pop")
    /\ IF dones = <<>>
       THEN stack' = Rest /\ UNCHANGED <<dones, answers>>
       ELSE /\ dones' = SubSeq(dones, 1, Len(dones) - 1)
            /\ Answer(dones[Len(dones)], Top.ok)
            /\ stack' = <<User("sent")>> \o Rest
    /\ UNCHANGED <<mState, closing, onDatagram, mPeer, broadcast, backendVars,
                   life, called, through>>

SendDonePop ==
    /\ At("done pop")
    /\ IF dones = <<>>
       THEN stack' = Rest /\ UNCHANGED <<dones, answers>>
       ELSE /\ dones' = Tail(dones)
            /\ Answer(Head(dones), Top.ok)
            /\ stack' = <<User("sent")>> \o Rest
    /\ UNCHANGED <<mState, closing, onDatagram, mPeer, broadcast, backendVars,
                   life, called, through>>

(***************************************************************************)
(* UdpSocketPrivate::begin_close(): the latch, the callbacks of the queued *)
(* sends, and then at once the backend's begin_close() and kClosed.        *)
(***************************************************************************)
CloseEntry ==
    /\ At("close")
    /\ closing' = TRUE
    /\ IF closing
       THEN stack' = Rest /\ UNCHANGED dones
       ELSE /\ dones' = <<>>
            /\ stack' = <<[Frame("discard") EXCEPT !.ds = dones]>> \o Rest
    /\ UNCHANGED <<mState, onDatagram, mPeer, broadcast, backendVars, history>>

Discard ==
    /\ At("discard") /\ Top.ds # <<>>
    /\ Answer(Head(Top.ds), FALSE)
    /\ stack' = <<User("sent"), [Top EXCEPT !.ds = Tail(@)]>> \o Rest
    /\ UNCHANGED <<socketVars, backendVars, life, called, through>>

\* UvDgramBackend::begin_close(); the sends libuv has stay with it.
BackendClose ==
    /\ bClosing' = TRUE
    /\ IF bClosing \/ handle = "none"
       THEN UNCHANGED <<handle, bOnDatagram, recvArmed>>
       ELSE handle' = "uv_close" /\ bOnDatagram' = FALSE /\ recvArmed' = FALSE
    /\ UNCHANGED <<bConnected, inFlight>>

\* The members begin_close() clears after the callbacks.
Cleared ==
    /\ dones' = <<>> /\ onDatagram' = FALSE /\ broadcast' = FALSE /\ mPeer' = NoPeer

\* mutant: the backend is not closed
CloseLeavesBackend ==
    /\ At("discard") /\ Top.ds = <<>>
    /\ Cleared
    /\ SetState("kClosed", Rest)
    /\ UNCHANGED <<closing, backendVars, history>>

CloseEnds ==
    /\ At("discard") /\ Top.ds = <<>>
    /\ Cleared
    /\ BackendClose
    /\ SetState("kClosed", Rest)
    /\ UNCHANGED <<closing, history>>

(***************************************************************************)
(* The callbacks libuv makes from a round of the loop, which runs when no  *)
(* function of the socket does, or inside the destructor's drain.          *)
(***************************************************************************)
InRound == (stack = <<>> /\ life = "live") \/ At("drain")

OnSendDone ==
    /\ InRound /\ inFlight # <<>>
    /\ inFlight' = Tail(inFlight)
    /\ \E ok \in BOOLEAN :
          /\ through' = IF ok THEN through \cup {Head(inFlight)} ELSE through
          /\ stack' = <<Done("done", ok)>> \o stack
    /\ UNCHANGED <<socketVars, handle, bClosing, bConnected, bOnDatagram, recvArmed,
                   life, called, answers>>

\* mutant: datagram_event() delivers whatever arrives
AnySender(p) == onDatagram

\* datagram_event(): the kernel filters by peer too, but not what it had queued before.
Deliverable(p) == onDatagram /\ (mState = "kConnected" => p = mPeer)

OnRecv(p) ==
    /\ InRound /\ recvArmed /\ handle = "open" /\ bOnDatagram
    /\ Deliverable(p)
    /\ stack' = <<[User("datagram") EXCEPT !.arg = p]>> \o stack
    /\ UNCHANGED <<socketVars, backendVars, history>>

OnRecvError ==
    /\ InRound /\ recvArmed /\ handle = "open"
    /\ recvArmed' = FALSE /\ bOnDatagram' = FALSE
    /\ UNCHANGED <<socketVars, handle, bClosing, bConnected, inFlight, stack, history>>

OnClosed ==
    /\ InRound /\ handle = "uv_close" /\ inFlight = <<>>
    /\ handle' = "none"
    /\ UNCHANGED <<socketVars, bClosing, bConnected, bOnDatagram, recvArmed, inFlight,
                   stack, history>>

(***************************************************************************)
(* ~UdpSocket, outside every callback and every round: the callbacks are   *)
(* dropped first, so that begin_close() makes none; then the rounds until  *)
(* the handle is gone.                                                     *)
(***************************************************************************)
Destroy ==
    /\ stack = <<>> /\ life = "live"
    /\ life' = "dying"
    /\ dones' = <<>> /\ onDatagram' = FALSE
    /\ IF mState \in {"kClosed", "kIdle"} \/ closing
       THEN UNCHANGED <<mState, closing, mPeer, broadcast>>
       ELSE /\ mState' = "kClosed" /\ closing' = TRUE
            /\ mPeer' = NoPeer /\ broadcast' = FALSE
    /\ BackendClose
    /\ stack' = <<Frame("drain")>>
    /\ UNCHANGED <<called, answers, through>>

Drained ==
    /\ At("drain") /\ handle = "none"
    /\ life' = "destroyed" /\ stack' = <<>>
    /\ UNCHANGED <<socketVars, backendVars, called, answers, through>>

Calls ==
    \/ Bind \/ SendTo \/ Send \/ DisconnectRemote \/ SetOnDatagram \/ Close
    \/ \E p \in Peers : ConnectTo(p)
    \/ \E enable \in BOOLEAN : SetBroadcast(enable)
Run ==
    \/ ApplyPendingBroadcast \/ Bound \/ Unsent \/ Pin \/ Arm \/ Submit
    \/ SendDone \/ SendDonePop \/ CloseEntry \/ Discard \/ CloseEnds
    \/ Drained \/ UserReturns
Round == OnSendDone \/ OnRecvError \/ OnClosed \/ \E p \in Peers : OnRecv(p)

Next == Calls \/ Run \/ Round \/ Destroy

\* The socket's functions run to their end, callbacks return, and the loop goes on
\* making rounds.  libuv serves both directions of a handle in one round, so arriving
\* datagrams do not starve a completion (strong fairness).  Nobody has to call the
\* socket or to destroy it.
Fairness ==
    /\ WF_vars(Run) /\ SF_vars(OnClosed)
    /\ SF_vars(OnSendDone)
Spec == Init /\ [][Next]_vars /\ Fairness

-----------------------------------------------------------------------------
\* udp_socket.hpp: "Each send's callback is invoked on the loop thread with false on
\* failure".  No send is answered twice, one is answered true only when libuv completed
\* that very send with success, and false in spite of that only when the socket was
\* closed meanwhile: the queue of callbacks stays aligned with the requests of libuv.
SendsAnswered ==
    \A w \in Sends :
        /\ Len(answers[w]) <= 1
        /\ answers[w] = <<TRUE>> => w \in through
        /\ answers[w] = <<FALSE>> /\ w \in through => closing

\* At rest the state the socket shows is that of its backend: kIdle has no handle, kBound
\* and kConnected an open one, pinned when kConnected; a closed socket is kClosed, with
\* no callback queued and every send answered; a destroyed one has nothing with libuv.
SocketAgrees ==
    stack = <<>> =>
        IF life = "destroyed"
        THEN handle = "none" /\ inFlight = <<>> /\ dones = <<>>
        ELSE IF closing
        THEN /\ mState = "kClosed" /\ handle # "open" /\ ~recvArmed /\ dones = <<>>
             /\ \A w \in 1 .. called.sends : answers[w] # <<>>
        ELSE /\ handle = IF mState = "kIdle" THEN "none" ELSE "open"
             /\ bConnected = (mState = "kConnected")
             /\ (mPeer # NoPeer) = bConnected
             /\ dones = inFlight

\* "While kConnected, only peer datagrams arrive", also of those that came before the
\* connect, and close() drops the datagram callback: none is delivered after it.
DatagramWanted ==
    Len(stack') > Len(stack) /\ Head(stack').cb = "datagram" =>
        /\ ~closing
        /\ mState = "kConnected" => Head(stack').arg = mPeer

\* While the loop makes rounds every send is answered, unless the socket is destroyed
\* first, and a close that was begun ends with the handle freed.
SendsComplete ==
    /\ \A w \in Sends : called.sends >= w ~> answers[w] # <<>> \/ life # "live"
    /\ closing ~> handle = "none" /\ (mState = "kClosed" \/ life = "destroyed")
=============================================================================
