----------------------------- MODULE MCSockets -----------------------------
(***************************************************************************)
(* Small instances of TcpSocket and of UdpSocket: a behaviour is one of    *)
(* one of them.                                                            *)
(***************************************************************************)
EXTENDS TcpSocket

CONSTANTS Peers, MaxSends, UdpCloses, MaxCalls, Cases

VARIABLES machine,
          uState, uClosing, dones, onDatagram, mPeer, broadcast,
          uHandle, uBClosing, bConnected, bOnDatagram, recvArmed, uInFlight,
          uStack, uLife, uCalled, uAnswers, through

udpVars == <<uState, uClosing, dones, onDatagram, mPeer, broadcast,
             uHandle, uBClosing, bConnected, bOnDatagram, recvArmed, uInFlight,
             uStack, uLife, uCalled, uAnswers, through>>

U == INSTANCE UdpSocket WITH
        mState <- uState, closing <- uClosing, handle <- uHandle, bClosing <- uBClosing,
        inFlight <- uInFlight, stack <- uStack, life <- uLife, called <- uCalled,
        answers <- uAnswers, MaxCloses <- UdpCloses

MCInit == Init /\ U!Init /\ machine \in {"tcp", "udp"}

MCNext ==
    \/ machine = "tcp" /\ Next /\ UNCHANGED <<machine, udpVars>>
    \/ machine = "udp" /\ mState = "kIdle" /\ U!Next /\ UNCHANGED <<machine, vars>>

MCSpec == MCInit /\ [][MCNext]_<<machine, vars, udpVars>> /\ Fairness /\ U!Fairness

\* write() and connect() of TcpSocket, send_to() and send() of UdpSocket: no operation is
\* answered twice, and each gets the result of what libuv did with that very operation.
OperationsAnswered == AnswersInOrder /\ U!SendsAnswered

\* What the sockets show at rest is what their backends hold; kClosed and the destructors
\* leave no handle, no request and no callback behind, and no operation unanswered.
SocketsAgree == NothingLeftBehind /\ U!SocketAgrees

\* begin_close() ends the deliveries of either socket, and datagram_event() those of a
\* connected UdpSocket that do not come from its peer.
DeliveriesWanted == [][NoDataAfterClose /\ U!DatagramWanted]_<<vars, udpVars>>

\* While the loop makes rounds every operation is answered and a close comes to its end.
OperationsComplete == CallsComplete /\ U!SendsComplete
=============================================================================
