---------------------------- MODULE EchoReactor ----------------------------
(***************************************************************************)
(* The two echo servers: EchoServerReactor, one thread that accepts, reads *)
(* and writes; and MultiThreadEchoServerReactor, where a boss accepts and  *)
(* workers, one selector each, run the handlers.  Both are non-blocking: a *)
(* thread selects the keys that are ready and then handles one after the   *)
(* other, while the clients go on.                                         *)
(*                                                                         *)
(* The bytes of a client are numbered.  Channels, selectors and clients    *)
(* are external.                                                           *)
(***************************************************************************)
EXTENDS Integers, Sequences

CONSTANTS
    Clients,
    Acceptor,      \* the key of the server socket
    NumWorkers,    \* workSelectors.length
    BufferSize,    \* capacity of a ByteBuffer
    SocketBuffer,  \* bytes the connection holds towards a client
    MaxBytes       \* bound: client -> bytes that it sends

ASSUME SizesAssumption ==
    /\ NumWorkers \in Nat \ {0} /\ BufferSize \in Nat \ {0}
    /\ SocketBuffer \in Nat \ {0} /\ MaxBytes \in [Clients -> Nat]
ASSUME AcceptorAssumption == Acceptor \notin Clients

VARIABLES
    server,       \* "single" | "multi"
    alive,        \* reactor -> its loop is running
    selected,     \* reactor -> selected keys that it has yet to handle
    registering,  \* clients whose handler is registered, but has no sk yet
    next,         \* the worker that gets the next client
    conn,         \* client -> "none" | "pending" | "open" | "closed"
    worker,       \* client -> the reactor that has its key
    interest,     \* client -> "read" | "write", with it the handler's state
    taken,        \* client -> number of its bytes that were read
    buffer,       \* client -> bytes to be written
    sent,         \* client -> number of bytes it has sent
    eof, reset,   \* clients that have shut down their output, or the connection
    wire,         \* client -> bytes on their way to it
    got,          \* client -> bytes it has received
    greedy,       \* clients that sent a byte with SocketBuffer unanswered ones
    hasty         \* clients that did something before their handler was complete

threads == <<alive, selected, registering, next>>
handlers == <<worker, interest, taken, buffer>>
clients == <<sent, eof, reset, got, greedy, hasty>>
vars == <<server, threads, handlers, clients, conn, wire>>

\* The thread that accepts; in EchoServerReactor the only one.
Boss == NumWorkers
Reactors == 0..NumWorkers

Init ==
    /\ server \in {"single", "multi"}
    /\ alive = [r \in Reactors |-> TRUE]
    /\ selected = [r \in Reactors |-> {}]
    /\ registering = {} /\ next = 0
    /\ conn = [c \in Clients |-> "none"]
    /\ worker = [c \in Clients |-> Boss]
    /\ interest = [c \in Clients |-> "read"]
    /\ taken = [c \in Clients |-> 0] /\ buffer = [c \in Clients |-> <<>>]
    /\ sent = [c \in Clients |-> 0] /\ eof = {} /\ reset = {}
    /\ wire = [c \in Clients |-> <<>>] /\ got = [c \in Clients |-> <<>>]
    /\ greedy = {} /\ hasty = {}
-----------------------------------------------------------------------------
(* Channels *)

Smaller(a, b) == IF a < b THEN a ELSE b

Readable(c) == sent[c] > taken[c] \/ c \in eof \cup reset
Writable(c) == Len(wire[c]) < SocketBuffer \/ c \in reset
Ready(c) == IF interest[c] = "read" THEN Readable(c) ELSE Writable(c)

\* The bytes that read() finds, as many as the buffer holds.
Available(c) ==
    [i \in 1..Smaller(BufferSize, sent[c] - taken[c]) |-> taken[c] + i]

\* The bytes that write() takes: as many as the socket has room for.
Room(c) == Smaller(Len(buffer[c]), SocketBuffer - Len(wire[c]))
PutOnWire(c) == wire' = [wire EXCEPT ![c] = @ \o SubSeq(buffer[c], 1, Room(c))]
Unwritten(c) == SubSeq(buffer[c], Room(c) + 1, Len(buffer[c]))

\* select() returns when a key is ready, with all that are.
Select(r) ==
    /\ alive[r] /\ selected[r] = {}
    /\ LET keys == {c \in Clients : conn[c] = "open" /\ worker[c] = r /\ Ready(c)}
           accept == IF r = Boss /\ \E c \in Clients : conn[c] = "pending"
                     THEN {Acceptor} ELSE {}
       IN  /\ keys \cup accept # {}
           /\ selected' = [selected EXCEPT ![r] = keys \cup accept]
    /\ UNCHANGED <<server, alive, registering, next, handlers, clients, conn, wire>>

Handled(r, key) == selected' = [selected EXCEPT ![r] = @ \ {key}]
-----------------------------------------------------------------------------
(* EchoServerReactor *)

Accept(c) ==
    /\ server = "single" /\ alive[Boss] /\ Acceptor \in selected[Boss]
    /\ conn[c] = "pending"
    /\ conn' = [conn EXCEPT ![c] = "open"]
    /\ Handled(Boss, Acceptor)
    /\ UNCHANGED <<server, alive, registering, next, handlers, clients, wire>>

\* The key of c is the next one, and its channel throws no IOException.
Serves(c, ops) ==
    /\ server = "single" /\ alive[Boss] /\ c \in selected[Boss] \ reset
    /\ interest[c] = ops
    /\ Handled(Boss, c)

Read(c) ==
    /\ Serves(c, "read")
    /\ \/ /\ Available(c) = <<>>
          /\ conn' = [conn EXCEPT ![c] = "closed"]
          /\ UNCHANGED <<taken, buffer, interest>>
       \/ /\ Available(c) # <<>>
          /\ taken' = [taken EXCEPT ![c] = @ + Len(Available(c))]
          /\ buffer' = [buffer EXCEPT ![c] = Available(c)]
          /\ interest' = [interest EXCEPT ![c] = "write"]
          /\ UNCHANGED conn
    /\ UNCHANGED <<server, alive, registering, next, worker, clients, wire>>

\* Mutant of Write: what the socket did not take is not waited for.
WriteOnce(c) ==
    /\ Serves(c, "write")
    /\ PutOnWire(c)
    /\ buffer' = [buffer EXCEPT ![c] = Unwritten(c)]
    /\ interest' = [interest EXCEPT ![c] = "read"]
    /\ UNCHANGED <<server, alive, registering, next, worker, taken, clients, conn>>

\* Mutant of Write: once a write is due, it stays so.
WriteForever(c) ==
    /\ Serves(c, "write")
    /\ PutOnWire(c)
    /\ buffer' = [buffer EXCEPT ![c] = Unwritten(c)]
    /\ UNCHANGED <<server, alive, registering, next, worker, interest, taken, clients,
                   conn>>

Write(c) ==
    /\ Serves(c, "write")
    /\ PutOnWire(c)
    /\ buffer' = [buffer EXCEPT ![c] = Unwritten(c)]
    /\ interest' = [interest EXCEPT ![c] = IF Unwritten(c) = <<>> THEN "read" ELSE @]
    /\ UNCHANGED <<server, alive, registering, next, worker, taken, clients, conn>>

\* An IOException of one channel leaves run(), and main() with it.
ServerEnds(c) ==
    /\ server = "single" /\ alive[Boss] /\ c \in selected[Boss] \cap reset
    /\ alive' = [alive EXCEPT ![Boss] = FALSE]
    /\ selected' = [selected EXCEPT ![Boss] = {}]
    /\ UNCHANGED <<server, registering, next, handlers, clients, conn, wire>>
-----------------------------------------------------------------------------
(* MultiThreadEchoServerReactor *)

\* AcceptorHandler: the constructor of MultiThreadEchoHandler registers this.
Register(c) ==
    /\ server = "multi" /\ Acceptor \in selected[Boss] /\ registering = {}
    /\ conn[c] = "pending"
    /\ conn' = [conn EXCEPT ![c] = "open"]
    /\ worker' = [worker EXCEPT ![c] = next]
    /\ registering' = {c}
    /\ UNCHANGED <<server, alive, selected, next, interest, taken, buffer, clients, wire>>

\* Mutant of AssignKey: next is not set back.
AssignKeyOnly ==
    /\ registering # {}
    /\ registering' = {}
    /\ next' = next + 1
    /\ Handled(Boss, Acceptor)
    /\ UNCHANGED <<server, alive, handlers, clients, conn, wire>>

\* It assigns sk, and the acceptor goes on to the next worker.
AssignKey ==
    /\ registering # {}
    /\ registering' = {}
    /\ next' = IF next + 1 = NumWorkers THEN 0 ELSE next + 1
    /\ Handled(Boss, Acceptor)
    /\ UNCHANGED <<server, alive, handlers, clients, conn, wire>>

Runs(w, c, state) ==
    /\ server = "multi" /\ alive[w] /\ c \in selected[w] /\ interest[c] = state

\* asyncRun() in state RECIEVING; the end of the stream is not told from a
\* lack of bytes.
Receive(w, c) ==
    /\ Runs(w, c, "read") /\ c \notin reset \cup registering
    /\ taken' = [taken EXCEPT ![c] = @ + Len(Available(c))]
    /\ buffer' = [buffer EXCEPT ![c] = Available(c)]
    /\ interest' = [interest EXCEPT ![c] = "write"]
    /\ Handled(w, c)
    /\ UNCHANGED <<server, alive, registering, next, worker, clients, conn, wire>>

\* The same before sk is assigned: a NullPointerException ends the worker.
ReceiveWithoutKey(w, c) ==
    /\ Runs(w, c, "read") /\ c \in registering \ reset
    /\ taken' = [taken EXCEPT ![c] = @ + Len(Available(c))]
    /\ buffer' = [buffer EXCEPT ![c] = Available(c)]
    /\ alive' = [alive EXCEPT ![w] = FALSE]
    /\ selected' = [selected EXCEPT ![w] = {}]
    /\ UNCHANGED <<server, registering, next, worker, interest, clients, conn, wire>>

\* In state SENDING: clear() drops what write() has left.
Send(w, c) ==
    /\ Runs(w, c, "write") /\ c \notin reset
    /\ PutOnWire(c)
    /\ buffer' = [buffer EXCEPT ![c] = <<>>]
    /\ interest' = [interest EXCEPT ![c] = "read"]
    /\ Handled(w, c)
    /\ UNCHANGED <<server, alive, registering, next, worker, taken, clients, conn>>

\* Mutant of Caught: the exception is not caught.
CaughtNowhere(w, c) ==
    /\ server = "multi" /\ alive[w] /\ c \in selected[w] \cap reset
    /\ alive' = [alive EXCEPT ![w] = FALSE]
    /\ Handled(w, c)
    /\ UNCHANGED <<server, registering, next, handlers, clients, conn, wire>>

\* asyncRun() catches the IOException of a channel, and nothing else is done.
Caught(w, c) ==
    /\ server = "multi" /\ alive[w] /\ c \in selected[w] \cap reset
    /\ Handled(w, c)
    /\ UNCHANGED <<server, alive, registering, next, handlers, clients, conn, wire>>
-----------------------------------------------------------------------------
(* The clients *)

Connect(c) ==
    /\ conn[c] = "none"
    /\ conn' = [conn EXCEPT ![c] = "pending"]
    /\ UNCHANGED <<server, threads, handlers, clients, wire>>

\* The server may not be through with the constructor of its handler.
Hasty(c) ==
    hasty' = IF server = "multi" /\ (conn[c] = "pending" \/ c \in registering)
             THEN hasty \cup {c} ELSE hasty

Connected(c) == conn[c] \in {"pending", "open"} /\ c \notin reset

ClientSends(c) ==
    /\ Connected(c) /\ c \notin eof /\ sent[c] < MaxBytes[c]
    /\ sent' = [sent EXCEPT ![c] = @ + 1]
    /\ greedy' = IF sent[c] - Len(got[c]) >= SocketBuffer
                 THEN greedy \cup {c} ELSE greedy
    /\ Hasty(c)
    /\ UNCHANGED <<server, threads, handlers, eof, reset, got, conn, wire>>

\* The connection delivers what is on the wire also after it was closed.
ClientReceives(c) ==
    /\ c \notin reset /\ wire[c] # <<>>
    /\ got' = [got EXCEPT ![c] = Append(@, Head(wire[c]))]
    /\ wire' = [wire EXCEPT ![c] = Tail(@)]
    /\ UNCHANGED <<server, threads, handlers, sent, eof, reset, greedy, hasty, conn>>

ClientShutsDown(c) ==
    /\ Connected(c) /\ c \notin eof
    /\ eof' = eof \cup {c}
    /\ Hasty(c)
    /\ UNCHANGED <<server, threads, handlers, sent, reset, got, greedy, conn, wire>>

ClientResets(c) ==
    /\ Connected(c)
    /\ reset' = reset \cup {c}
    /\ UNCHANGED <<server, threads, handlers, sent, eof, got, greedy, hasty, conn, wire>>

Reactor(r) ==
    \/ Select(r)
    \/ /\ r = Boss
       /\ \/ AssignKey
          \/ \E c \in Clients : Accept(c) \/ Read(c) \/ Write(c) \/ ServerEnds(c)
                                \/ Register(c)
    \/ \E c \in Clients : Receive(r, c) \/ ReceiveWithoutKey(r, c) \/ Send(r, c)
                          \/ Caught(r, c)

Client(c) ==
    \/ Connect(c) \/ ClientSends(c) \/ ClientReceives(c)
    \/ ClientShutsDown(c) \/ ClientResets(c)

Next ==
    \/ \E r \in Reactors : Reactor(r)
    \/ \E c \in Clients : Client(c)

Spec == Init /\ [][Next]_vars

\* The threads go on, and a client reads what has arrived for it.
FairSpec ==
    /\ Spec
    /\ \A r \in Reactors : WF_vars(Reactor(r))
    /\ \A c \in Clients : WF_vars(ClientReceives(c))
-----------------------------------------------------------------------------
TypeOK ==
    /\ server \in {"single", "multi"}
    /\ alive \in [Reactors -> BOOLEAN]
    /\ selected \in [Reactors -> SUBSET (Clients \cup {Acceptor})]
    /\ registering \subseteq Clients /\ next \in 0..(NumWorkers - 1)
    /\ conn \in [Clients -> {"none", "pending", "open", "closed"}]
    /\ worker \in [Clients -> Reactors]
    /\ interest \in [Clients -> {"read", "write"}]
    /\ \A c \in Clients :
          /\ sent[c] \in 0..MaxBytes[c] /\ taken[c] \in 0..sent[c]
          /\ buffer[c] \in Seq(1..taken[c]) /\ Len(buffer[c]) <= BufferSize
          /\ wire[c] \in Seq(1..taken[c]) /\ Len(wire[c]) <= SocketBuffer
          /\ got[c] \in Seq(1..taken[c])
    /\ eof \subseteq Clients /\ reset \subseteq Clients
    /\ greedy \subseteq Clients /\ hasty \subseteq Clients

Answer(c) == got[c] \o wire[c]

\* The bytes that a server has read come back in their order, each at most once.
\* EchoServerReactor loses none, and closes a connection only when all that the
\* client has sent is answered.  MultiThreadEchoServerReactor loses none of a
\* client that never has more unanswered bytes than the socket buffer holds.
NothingLost ==
    \A c \in Clients :
        LET line == Answer(c) \o buffer[c]
        IN  /\ IF server = "multi" /\ c \in greedy
               THEN \A i, j \in 1..Len(line) : i < j => line[i] < line[j]
               ELSE line = [i \in 1..taken[c] |-> i]
            /\ conn[c] = "closed" => Answer(c) = [i \in 1..sent[c] |-> i]

\* Nothing more is done for c: it is gone, a client that is gone has ended
\* EchoServerReactor, or one that was hasty has ended the worker of c.
Abandoned(c) ==
    \/ c \in reset
    \/ server = "single" /\ ~alive[Boss] /\ reset # {}
    \/ /\ server = "multi" /\ ~alive[worker[c]]
       /\ \E d \in hasty : worker[d] = worker[c]

\* Every byte is answered in the end, whatever the other clients do, unless the
\* byte was dropped because its client was greedy: in
\* MultiThreadEchoServerReactor a client that is gone does no harm to others.
Echoed ==
    \A c \in Clients : \A n \in 1..MaxBytes[c] :
        sent[c] >= n ~>
            \/ \E i \in 1..Len(got[c]) : got[c][i] = n
            \/ Abandoned(c)
            \/ server = "multi" /\ c \in greedy

\* EchoServerReactor closes the connection of a client that has shut down its
\* output.  (MultiThreadEchoServerReactor never does.)
HangsUp ==
    \A c \in Clients :
        server = "single" /\ c \in eof ~> conn[c] = "closed" \/ Abandoned(c)

(* The inductive strengthening *)

\* A key that is selected belongs to an open connection of that reactor.
SelectedOpen ==
    \A r \in Reactors : \A c \in selected[r] \cap Clients :
        worker[c] = r /\ conn[c] = "open"

\* A handler that is to read has written everything, unless it was hasty and its
\* worker is gone.
HandlersClean ==
    \A c \in Clients :
        /\ interest[c] = "read" =>
              buffer[c] = <<>> \/ (server = "multi" /\ ~alive[worker[c]])
        /\ conn[c] # "open" => buffer[c] = <<>>
        /\ conn[c] = "closed" => server = "single"

\* A client that is not greedy has at most SocketBuffer bytes unanswered, so
\* that its answers always fit.
AnswersFit ==
    \A c \in Clients : c \notin greedy => sent[c] - Len(got[c]) <= SocketBuffer

HandlerInv == SelectedOpen /\ HandlersClean /\ AnswersFit
=============================================================================
