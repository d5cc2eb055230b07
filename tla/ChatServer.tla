----------------------------- MODULE ChatServer -----------------------------
(***************************************************************************)
(* The chat server of internet/d9_chat: one ServerReader thread per client *)
(* reads its messages and writes to the sockets of the others, all without *)
(* a lock.                                                                 *)
(*                                                                         *)
(* They share onLineSockets, a plain HashMap. A put or remove has a begin  *)
(* and an end. Two that overlap corrupt the map: they, and all that come   *)
(* later, may lose entries or keep removed ones. A reader that overlaps    *)
(* with one may miss any entry, and an iterator over a map that has        *)
(* changed since, or is corrupt, may throw or not notice. A thread is      *)
(* taken to see what the others had done before it began.                  *)
(*                                                                         *)
(* A message is written as a type and a text. When two threads write to    *)
(* one socket at the same time, its client cannot tell them apart any      *)
(* more. A write to a client that has gone may throw, or be accepted by    *)
(* the operating system. Writes do not block: the clients are taken to     *)
(* read what they get, and messages to fit into writeUTF().                *)
(***************************************************************************)
CONSTANTS
    Clients,     \* each with its one name
    Talkers      \* bound: the clients that send messages

ASSUME TalkersAssumption == Talkers \subseteq Clients
ASSUME JobAssumption == "list" \notin Clients /\ "all" \notin Clients

VARIABLES
    connected,      \* clients whose end of the connection is open
    onLineSockets,  \* the clients that are in the map
    corrupt,        \* two updates of the map have overlapped
    pc,             \* client -> what its ServerReader does
    leaving,        \* client -> its ServerReader is in the catch block
    job,            \* client -> what it is sending: the list of names ("list"),
                    \* a message to all ("all") or to one client (the client)
    names,          \* client -> the list of names it has read from the map
    todo,           \* client -> sockets its iterator has yet to return
    stale,          \* client -> the map has changed under its iterator
    writing,        \* client -> the socket that it is writing to, if any
    list,           \* client -> the list of names that it shows
    garbled,        \* clients that have been written to by two at a time
    overlap,        \* history: two lists were on the way at the same time
    cut             \* history: an exception ended the sending of a list

map == <<onLineSockets, corrupt>>
loop == <<job, names, todo, stale, writing>>
screens == <<list, garbled>>
history == <<overlap, cut>>
vars == <<connected, map, pc, leaving, loop, screens, history>>

Init ==
    /\ connected = {} /\ onLineSockets = {} /\ corrupt = FALSE
    /\ pc = [c \in Clients |-> "none"]
    /\ leaving = [c \in Clients |-> FALSE]
    /\ job = [c \in Clients |-> "list"]
    /\ names = [c \in Clients |-> {}]
    /\ todo = [c \in Clients |-> {}]
    /\ stale = [c \in Clients |-> FALSE]
    /\ writing = [c \in Clients |-> {}]
    /\ list = [c \in Clients |-> {}] /\ garbled = {}
    /\ overlap = FALSE /\ cut = FALSE

\* From the change of the map to the end of telling everybody.
Listing(c) == pc[c] \in {"put", "remove", "collect", "open", "send"} /\ job[c] = "list"
-----------------------------------------------------------------------------
(* The clients *)

\* Mutant of Connect: the socket is put into the map by accept().
ConnectPuts(c) ==
    /\ pc[c] = "none"
    /\ connected' = connected \cup {c}
    /\ onLineSockets' = onLineSockets \cup {c}
    /\ pc' = [pc EXCEPT ![c] = "hello"]
    /\ UNCHANGED <<corrupt, leaving, loop, screens, history>>

\* accept() returns the socket of c, whose ServerReader starts.
Connect(c) ==
    /\ pc[c] = "none"
    /\ connected' = connected \cup {c}
    /\ pc' = [pc EXCEPT ![c] = "hello"]
    /\ UNCHANGED <<map, leaving, loop, screens, history>>

\* The client goes away; the server learns of it when it reads or writes.
Drop(c) ==
    /\ c \in connected
    /\ connected' = connected \ {c}
    /\ list' = [list EXCEPT ![c] = {}]
    /\ garbled' = garbled \ {c}
    /\ UNCHANGED <<map, pc, leaving, loop, history>>
-----------------------------------------------------------------------------
(* The map *)

\* The thread of c is inside put() or remove(). A remove() of what is not there
\* changes nothing.
Updating(c) == pc[c] = "put" \/ (pc[c] = "remove" /\ c \in onLineSockets)

\* A step of c on the map can meet with an update by another thread.
Disturbed(c) == \E d \in Clients \ {c} : Updating(d)

\* onLineSockets is modified by c: all other iterators over it are stale. Those
\* over a corrupt map may fail as it is.
Modified(c) ==
    stale' = [d \in Clients |->
                 /\ d # c /\ ~corrupt
                 /\ stale[d] \/ pc[d] \in {"collect", "send"}]

\* Those who have come as far as put() or remove(): only they can be in the map.
Named == {c \in Clients : pc[c] \notin {"none", "hello"}}

\* What is in the map after an update.
After(updated) == IF corrupt THEN SUBSET Named ELSE {updated}

\* What an iteration by c finds.
Seen(c) == IF Disturbed(c) THEN SUBSET Named ELSE {onLineSockets}

\* The thread of c enters put() or remove(), which a list will follow.
BeginUpdate(c, update) ==
    LET changes == update = "put" \/ c \in onLineSockets IN
    /\ pc' = [pc EXCEPT ![c] = update]
    /\ job' = [job EXCEPT ![c] = "list"]
    /\ corrupt' = (corrupt \/ (changes /\ Disturbed(c)))
    /\ overlap' = (overlap \/ \E d \in Clients \ {c} : Listing(d))
    /\ IF changes THEN Modified(c) ELSE stale' = [stale EXCEPT ![c] = FALSE]
-----------------------------------------------------------------------------
(* ServerReader *)

\* Flag 1: the client gives its name, which it does first and once.
Login(c) ==
    /\ pc[c] = "hello" /\ c \in connected
    /\ BeginUpdate(c, "put")
    /\ UNCHANGED <<connected, onLineSockets, leaving, names, todo, writing, screens, cut>>

Put(c) ==
    /\ pc[c] = "put"
    /\ onLineSockets' \in After(onLineSockets \cup {c})
    /\ Modified(c)
    /\ pc' = [pc EXCEPT ![c] = "collect"]
    /\ UNCHANGED <<connected, corrupt, leaving, job, names, todo, writing, screens, history>>

Remove(c) ==
    /\ pc[c] = "remove"
    /\ onLineSockets' \in After(onLineSockets \ {c})
    /\ IF Updating(c) THEN Modified(c) ELSE stale' = stale
    /\ pc' = [pc EXCEPT ![c] = "collect"]
    /\ UNCHANGED <<connected, corrupt, leaving, job, names, todo, writing, screens, history>>

\* Flags 2 and 3: a message to all, or to one client, who need not be there. The
\* iteration over the sockets begins.
Message(c) ==
    /\ pc[c] = "read" /\ c \in connected \cap Talkers
    /\ \E to \in {"all"} \cup Clients : job' = [job EXCEPT ![c] = to]
    /\ \E seen \in Seen(c) : todo' = [todo EXCEPT ![c] = seen]
    /\ pc' = [pc EXCEPT ![c] = "send"]
    /\ UNCHANGED <<connected, map, leaving, names, stale, writing, screens, history>>

\* Where a thread goes after writeMsg(): to the next message, or it ends.
AfterMessage(c) == IF leaving[c] THEN "dead" ELSE "read"

\* The names are read; when there are none, nothing is sent.
Collect(c) ==
    /\ pc[c] = "collect"
    /\ \E seen \in Seen(c) :
          /\ names' = [names EXCEPT ![c] = seen]
          /\ pc' = [pc EXCEPT ![c] = IF seen = {} THEN AfterMessage(c) ELSE "open"]
    /\ stale' = [stale EXCEPT ![c] = FALSE]
    /\ UNCHANGED <<connected, map, leaving, job, todo, writing, screens, history>>

\* The variables of writeMsg() go out of scope.
LoopOver(c) ==
    /\ names' = [names EXCEPT ![c] = {}]
    /\ todo' = [todo EXCEPT ![c] = {}]
    /\ writing' = [writing EXCEPT ![c] = {}]

\* Mutant of Open: the sender skips its own socket.
OpenOthers(c) ==
    /\ pc[c] = "open"
    /\ \E seen \in Seen(c) : todo' = [todo EXCEPT ![c] = seen \ {c}]
    /\ pc' = [pc EXCEPT ![c] = "send"]
    /\ UNCHANGED <<connected, map, leaving, job, names, stale, writing, screens, history>>

\* sendMsgToAll() begins to iterate over the sockets, by now perhaps others.
Open(c) ==
    /\ pc[c] = "open"
    /\ \E seen \in Seen(c) : todo' = [todo EXCEPT ![c] = seen]
    /\ pc' = [pc EXCEPT ![c] = "send"]
    /\ UNCHANGED <<connected, map, leaving, job, names, stale, writing, screens, history>>

\* sendMsgToAll() writes to every socket, sendMsgToOne() to that of one name.
Writes(c, sk) == job[c] \in {"list", "all", sk}

\* The iterator returns the next socket; writeInt(), if it is to be written to.
Send(c) ==
    /\ pc[c] = "send" /\ writing[c] = {}
    /\ \E sk \in todo[c] :
          /\ todo' = [todo EXCEPT ![c] = @ \ {sk}]
          /\ writing' = [writing EXCEPT ![c] = {s \in {sk} : Writes(c, s)}]
          /\ garbled' = garbled \cup {s \in {sk} \cap connected :
                                         /\ Writes(c, s)
                                         /\ \E d \in Clients \ {c} : s \in writing[d]}
    /\ UNCHANGED <<connected, map, pc, leaving, job, names, stale, list, history>>

\* writeUTF() and flush(): the client gets the message.
Written(c) ==
    /\ pc[c] = "send" /\ writing[c] # {}
    /\ writing' = [writing EXCEPT ![c] = {}]
    /\ list' = [d \in Clients |->
                   IF job[c] = "list" /\ d \in (writing[c] \cap connected) \ garbled
                   THEN names[c] ELSE list[d]]
    /\ UNCHANGED <<connected, map, pc, leaving, job, names, todo, stale, garbled, history>>

\* The iterator, the lookup of a name, or the write throws.
Throws(c) ==
    \/ pc[c] = "collect" /\ (stale[c] \/ corrupt \/ Disturbed(c))
    \/ pc[c] = "send" /\ todo[c] # {} /\ writing[c] = {} /\ (stale[c] \/ corrupt \/ Disturbed(c))
    \/ pc[c] = "send" /\ writing[c] \ connected # {}

\* readInt() from a client that has gone.
ReadFails(c) == pc[c] \in {"hello", "read"} /\ c \notin connected

\* The loop is over: the next message, or the end of the catch block.
SendEnd(c) ==
    /\ pc[c] = "send" /\ todo[c] = {} /\ writing[c] = {}
    /\ pc' = [pc EXCEPT ![c] = AfterMessage(c)]
    /\ job' = [job EXCEPT ![c] = "list"]
    /\ stale' = [stale EXCEPT ![c] = FALSE]
    /\ LoopOver(c)
    /\ UNCHANGED <<connected, map, leaving, screens, history>>

\* Mutant of Catch: the list is sent before the socket is removed, which an
\* exception then skips.
CatchLate(c) ==
    /\ ~leaving[c]
    /\ Throws(c) \/ ReadFails(c)
    /\ leaving' = [leaving EXCEPT ![c] = TRUE]
    /\ BeginUpdate(c, "collect")
    /\ LoopOver(c)
    /\ cut' = (cut \/ Listing(c))
    /\ UNCHANGED <<connected, onLineSockets, screens>>

\* Mutant of Catch: the exception is caught inside the loop, which reads on.
CatchAndReadOn(c) ==
    /\ ~leaving[c]
    /\ Throws(c) \/ ReadFails(c)
    /\ pc' = [pc EXCEPT ![c] = "read"]
    /\ stale' = [stale EXCEPT ![c] = FALSE]
    /\ LoopOver(c)
    /\ cut' = (cut \/ Listing(c))
    /\ UNCHANGED <<connected, map, leaving, job, screens, overlap>>

\* An exception, of the read or of writing to anybody else: c is about to be
\* removed, and the others to be sent the names again.
Catch(c) ==
    /\ ~leaving[c]
    /\ Throws(c) \/ ReadFails(c)
    /\ leaving' = [leaving EXCEPT ![c] = TRUE]
    /\ BeginUpdate(c, "remove")
    /\ LoopOver(c)
    /\ cut' = (cut \/ Listing(c))
    /\ UNCHANGED <<connected, onLineSockets, screens>>

\* An exception in the catch block is printed, and the thread ends.
GiveUp(c) ==
    /\ leaving[c] /\ Throws(c)
    /\ pc' = [pc EXCEPT ![c] = "dead"]
    /\ stale' = [stale EXCEPT ![c] = FALSE]
    /\ LoopOver(c)
    /\ cut' = TRUE
    /\ UNCHANGED <<connected, map, leaving, job, screens, overlap>>

Reader(c) ==
    \/ Put(c) \/ Remove(c) \/ Collect(c) \/ Open(c)
    \/ Send(c) \/ Written(c) \/ SendEnd(c) \/ Catch(c) \/ GiveUp(c)

\* All clients have come and gone.
Over == (\A c \in Clients : pc[c] = "dead") /\ UNCHANGED vars

Next ==
    \/ \E c \in Clients : Connect(c) \/ Drop(c) \/ Login(c) \/ Message(c) \/ Reader(c)
    \/ Over

Spec == Init /\ [][Next]_vars

\* Every ServerReader goes on with what it has read, and a read from a client
\* that has gone throws. No client has to connect, to speak or to leave.
FairSpec == Spec /\ \A c \in Clients : WF_vars(Reader(c))
-----------------------------------------------------------------------------
\* Besides the types: only those who have given a name are in the map.
TypeOK ==
    /\ connected \subseteq Clients
    /\ onLineSockets \subseteq Named
    /\ corrupt \in BOOLEAN
    /\ pc \in [Clients -> {"none", "hello", "put", "remove", "collect", "open", "send",
                           "read", "dead"}]
    /\ leaving \in [Clients -> BOOLEAN]
    /\ job \in [Clients -> {"list", "all"} \cup Clients]
    /\ names \in [Clients -> SUBSET Clients]
    /\ todo \in [Clients -> SUBSET Clients]
    /\ stale \in [Clients -> BOOLEAN]
    /\ writing \in [Clients -> SUBSET Clients]
    /\ list \in [Clients -> SUBSET Clients] /\ garbled \subseteq connected
    /\ overlap \in BOOLEAN /\ cut \in BOOLEAN

\* Whatever throws in whichever thread: a client whose thread has ended, or has
\* begun to tell the others, is not among those who are shown as being there,
\* unless two updates of the map have overlapped.
NoGhost ==
    ~corrupt => \A c \in Clients : leaving[c] /\ pc[c] # "remove" => c \notin onLineSockets

\* The threads are reading, have ended or have not begun.
AtRest == \A c \in Clients : pc[c] \in {"none", "hello", "read", "dead"}

\* "The names of all who are there are sent to all clients": when all threads
\* are at rest, every client that can still make out its messages shows who is
\* there, unless two lists were on the way at the same time, in which case the
\* older one may have come last or the map be corrupt, or an exception ended the
\* sending of one.
ListsAgree ==
    AtRest /\ ~overlap /\ ~cut =>
        \A c \in (onLineSockets \cap connected) \ garbled : list[c] = onLineSockets

\* A client that has gone is taken off and its thread ends, whatever that and the
\* others were doing, unless two updates of the map have overlapped.
DropsLeave ==
    \A c \in Clients :
        pc[c] # "none" /\ c \notin connected ~>
            corrupt \/ (pc[c] = "dead" /\ c \notin onLineSockets)

=============================================================================
