-------------------------- MODULE MCLthreadSocket --------------------------
(***************************************************************************)
(* Instances of LthreadSocket: an lthread that reads, one that connects    *)
(* and writes, a server, two lthreads with a descriptor each; and the uses *)
(* that the poller does not stand: one lthread that reads and writes, two  *)
(* on one descriptor, two whose descriptors agree in the bits of fd_wait.  *)
(***************************************************************************)
EXTENDS LthreadSocket, TLC

CONSTANTS lt1, lt2, lt3

Calls(c1, c2, c3) == lt1 :> c1 @@ lt2 :> c2 @@ lt3 :> c3

Reader == Calls({}, {}, {"recv", "readline"} \X {4})
Writer == Calls({}, {}, {"connect", "send", "writev"} \X {4})
Server == Calls({}, {}, {"accept", "socket", "pipe"} \X {4})
Apart == Calls({<<"recv", 1>>}, {<<"send", 2>>}, {})
Duplex == Calls({}, {}, {"recv", "send"} \X {4})
Shared == Calls({<<"recv", 1>>}, {<<"send", 1>>}, {})
Collide == Calls({<<"recv", 1>>}, {<<"recv", 3>>}, {})

AllPrograms == {Reader, Writer, Server, Apart, Duplex, Shared, Collide}
DuplexPrograms == {Duplex}
ReaderPrograms == {Reader}

CallBounds == Calls(1, 1, 2)
Buffers == <<1, 1, 1, 2>>
TwoIovs == {<<1, 2>>, <<2, 0>>}
=============================================================================
