---------------------------- MODULE KernelSocket ----------------------------
(***************************************************************************)
(* What lthread_socket.c and lthread_kqueue.c ask of the kernel: sockets   *)
(* in non-blocking mode and a kqueue of one-shot filters.  It is modelled  *)
(* from the answers the code tells apart.  Bytes, and connections that     *)
(* wait to be accepted, are counted and not looked at.                     *)
(***************************************************************************)
EXTENDS Integers, FiniteSets

CONSTANTS Fds,        \* the descriptors
          Capacity    \* bound: the size of a descriptor's buffers

ASSUME KernelAssumption == Fds \subseteq Nat /\ Capacity \in [Fds -> Nat \ {0}]

VARIABLES
  recvq,    \* bytes (or connections) that have come in and are not yet taken
  room,     \* bytes that the send buffer still takes
  hup,      \* the descriptors whose peer has closed or refused the connection
  link,     \* none, pending, up or failed: how connect() stands
  filters   \* the filters of the kqueue: pairs of a descriptor and READ or WRITE

sockVars == <<recvq, room, hup, link>>

Dirs == {"READ", "WRITE"}

KernelInit == hup = {} /\ filters = {}

KernelTypeOK ==
  /\ recvq \in [Fds -> Nat]
  /\ room \in [Fds -> Nat]
  /\ hup \subseteq Fds
  /\ link \in [Fds -> {"none", "pending", "up", "failed"}]
  /\ filters \subseteq Fds \X Dirs

\* The conditions of EVFILT_READ and EVFILT_WRITE.
Able(fd, e) ==
  \/ fd \in hup
  \/ e = "READ" /\ recvq[fd] > 0
  \/ e = "WRITE" /\ link[fd] = "up" /\ room[fd] > 0

Active == {f \in filters : Able(f[1], f[2])}

\* The peer sends, takes what was sent, closes, or answers a connect().
PeerSends(fd) ==
  /\ link[fd] = "up" /\ fd \notin hup /\ recvq[fd] < Capacity[fd]
  /\ recvq' = [recvq EXCEPT ![fd] = @ + 1]
  /\ UNCHANGED <<room, hup, link, filters>>

PeerReads(fd) ==
  /\ link[fd] = "up" /\ fd \notin hup /\ room[fd] < Capacity[fd]
  /\ \E n \in room[fd] + 1 .. Capacity[fd] : room' = [room EXCEPT ![fd] = n]
  /\ UNCHANGED <<recvq, hup, link, filters>>

PeerCloses(fd) ==
  /\ link[fd] = "up" /\ fd \notin hup
  /\ hup' = hup \cup {fd}
  /\ UNCHANGED <<recvq, room, link, filters>>

PeerAnswers(fd) ==
  /\ link[fd] = "pending"
  /\ \/ link' = [link EXCEPT ![fd] = "up"] /\ UNCHANGED hup
     \/ link' = [link EXCEPT ![fd] = "failed"] /\ hup' = hup \cup {fd}
  /\ UNCHANGED <<recvq, room, filters>>

Peer ==
  \E fd \in Fds :
    PeerSends(fd) \/ PeerReads(fd) \/ PeerCloses(fd) \/ PeerAnswers(fd)
=============================================================================
