-------------------------- MODULE ChatServer_proofs --------------------------
(***************************************************************************)
(* Type correctness of the chat server, that no client stays listed whose  *)
(* ServerReader has left its loop, and that the clients' lists of names    *)
(* agree with the server's, for any set of clients: as far as the shared   *)
(* map and the sockets, used without a lock, allow.                        *)
(***************************************************************************)
EXTENDS ChatServer, TLAPS

\* The beginning of an update leaves what it changes well typed.
LEMMA BeginType ==
    ASSUME TypeOK, NEW c \in Clients, NEW update \in {"put", "remove"},
           BeginUpdate(c, update)
    PROVE  /\ pc' \in [Clients -> {"none", "hello", "put", "remove", "collect", "open",
                                   "send", "read", "dead"}]
           /\ job' \in [Clients -> {"list", "all"} \cup Clients]
           /\ corrupt' \in BOOLEAN /\ overlap' \in BOOLEAN
           /\ stale' \in [Clients -> BOOLEAN]
           /\ Named \subseteq Named'
<1>1. /\ pc' = [pc EXCEPT ![c] = update]
      /\ job' = [job EXCEPT ![c] = "list"]
      /\ corrupt' \in BOOLEAN /\ overlap' \in BOOLEAN
      /\ Modified(c) \/ stale' = [stale EXCEPT ![c] = FALSE]
    BY Zenon DEF BeginUpdate
<1>2. stale' \in [Clients -> BOOLEAN]
    BY <1>1, Zenon DEF TypeOK, Modified
<1>3. /\ pc' \in [Clients -> {"none", "hello", "put", "remove", "collect", "open",
                              "send", "read", "dead"}]
      /\ job' \in [Clients -> {"list", "all"} \cup Clients]
    BY <1>1 DEF TypeOK
<1>4. Named \subseteq Named'
    BY <1>1 DEF TypeOK, Named
<1> QED
    BY <1>1, <1>2, <1>3, <1>4

\* An iteration finds clients.
LEMMA SeenType ==
    ASSUME TypeOK, NEW c \in Clients, NEW seen \in Seen(c)
    PROVE  seen \in SUBSET Clients
BY DEF TypeOK, Seen, Named

\* What a client does leaves every variable well typed.
LEMMA ClientType ==
    ASSUME TypeOK, NEW c \in Clients, Connect(c) \/ Drop(c) \/ Login(c) \/ Message(c)
    PROVE  TypeOK'
<1>1. CASE Connect(c)
    BY <1>1 DEF TypeOK, Named, Connect, map, loop, screens, history
<1>2. CASE Drop(c)
    BY <1>2 DEF TypeOK, Named, Drop, map, loop, history
<1>3. CASE Login(c)
    BY <1>3, BeginType DEF TypeOK, Login, screens
<1>4. CASE Message(c)
    <2>1. PICK seen \in Seen(c) : todo' = [todo EXCEPT ![c] = seen]
        BY <1>4 DEF Message
    <2> QED
        BY <1>4, <2>1, SeenType DEF TypeOK, Named, Message, map, screens, history
<1> QED
    BY <1>1, <1>2, <1>3, <1>4

\* So does every step of a ServerReader.
LEMMA ReaderType ==
    ASSUME TypeOK, NEW c \in Clients, Reader(c)
    PROVE  TypeOK'
<1>1. CASE Put(c) \/ Remove(c)
    <2>1. /\ pc' = [pc EXCEPT ![c] = "collect"] /\ pc[c] \in {"put", "remove"}
          /\ UNCHANGED <<connected, corrupt, leaving, job, names, todo, writing,
                         list, garbled, overlap, cut>>
        BY <1>1 DEF Put, Remove, screens, history
    <2>2. Named' = Named /\ c \in Named
        BY <2>1 DEF TypeOK, Named
    <2>3. onLineSockets' \subseteq Named'
        BY <1>1, <2>2 DEF TypeOK, Put, Remove, After
    <2>4. stale' \in [Clients -> BOOLEAN]
        <3>1. Modified(c) \/ stale' = stale
            BY <1>1 DEF Put, Remove
        <3> QED
            BY <3>1, Zenon DEF TypeOK, Modified
    <2> QED
        BY <2>1, <2>3, <2>4 DEF TypeOK
<1>2. CASE Collect(c)
    <2>1. PICK seen \in Seen(c) :
              /\ names' = [names EXCEPT ![c] = seen]
              /\ pc' = [pc EXCEPT ![c] = IF seen = {} THEN AfterMessage(c) ELSE "open"]
        BY <1>2 DEF Collect
    <2> QED
        BY <1>2, <2>1, SeenType
        DEF TypeOK, Named, Collect, AfterMessage, map, screens, history
<1>3. CASE Open(c)
    <2>1. PICK seen \in Seen(c) : todo' = [todo EXCEPT ![c] = seen]
        BY <1>3 DEF Open
    <2> QED
        BY <1>3, <2>1, SeenType DEF TypeOK, Named, Open, map, screens, history
<1>4. CASE Send(c)
    BY <1>4 DEF TypeOK, Named, Send, map, history
<1>5. CASE Written(c)
    BY <1>5 DEF TypeOK, Named, Written, map, history
<1>6. CASE SendEnd(c)
    BY <1>6 DEF TypeOK, Named, SendEnd, AfterMessage, LoopOver, map, screens, history
<1>7. CASE Catch(c)
    <2>1. cut' \in BOOLEAN
        BY <1>7, Zenon DEF Catch
    <2> QED
        BY <1>7, <2>1, BeginType DEF TypeOK, Catch, LoopOver, screens
<1>8. CASE GiveUp(c)
    BY <1>8 DEF TypeOK, Named, GiveUp, Throws, LoopOver, map, screens
<1> QED
    BY <1>1, <1>2, <1>3, <1>4, <1>5, <1>6, <1>7, <1>8 DEF Reader

\* Every state of the server is well typed, and only those who have given a name
\* are in the map.
THEOREM TypeCorrect == Spec => []TypeOK
<1>1. Init => TypeOK
    BY DEF Init, TypeOK
<1>2. TypeOK /\ [Next]_vars => TypeOK'
    <2> SUFFICES ASSUME TypeOK, [Next]_vars PROVE TypeOK'
        OBVIOUS
    <2>1. CASE UNCHANGED vars
        BY <2>1 DEF TypeOK, Named, vars, map, loop, screens, history
    <2>2. CASE Over
        BY <2>1, <2>2 DEF Over
    <2> QED
        BY <2>1, <2>2, ClientType, ReaderType DEF Next
<1> QED
    BY <1>1, <1>2, PTL DEF Spec
-----------------------------------------------------------------------------
\* A thread in the catch block is not reading, so that its client cannot log in
\* again: with that, NoGhost is inductive.
GhostInv ==
    \A c \in Clients :
        leaving[c] =>
            /\ pc[c] \in {"remove", "collect", "open", "send", "dead"}
            /\ ~corrupt /\ pc[c] # "remove" => c \notin onLineSockets

\* A map that is corrupt stays so.
LEMMA CorruptStays ==
    ASSUME NEW c \in Clients, NEW update, BeginUpdate(c, update), ~corrupt'
    PROVE  ~corrupt
BY Zenon DEF BeginUpdate

\* What a client does keeps GhostInv: a client that logs in is being read from.
LEMMA ClientGhost ==
    ASSUME TypeOK, GhostInv, NEW c \in Clients,
           Connect(c) \/ Drop(c) \/ Login(c) \/ Message(c)
    PROVE  GhostInv'
<1>1. leaving' = leaving /\ onLineSockets' = onLineSockets
    BY DEF Connect, Drop, Login, Message, map
<1>2. ~corrupt' => ~corrupt
    BY CorruptStays DEF Connect, Drop, Login, Message, map
<1>3. \A d \in Clients : pc'[d] = pc[d] \/ pc[d] \in {"none", "hello", "read"}
    BY DEF TypeOK, Connect, Drop, Login, Message, BeginUpdate
<1> QED
    BY <1>1, <1>2, <1>3 DEF GhostInv

\* So does a step of a ServerReader: the catch block begins with the removal.
LEMMA ReaderGhost ==
    ASSUME TypeOK, GhostInv, NEW c \in Clients, Reader(c)
    PROVE  GhostInv'
<1>1. CASE Put(c)
    <2>1. ~leaving[c] /\ UNCHANGED <<leaving, corrupt>>
        BY <1>1 DEF GhostInv, Put
    <2>2. ~corrupt => onLineSockets' = onLineSockets \cup {c}
        BY <1>1 DEF Put, After
    <2>3. \A d \in Clients : d # c => pc'[d] = pc[d]
        BY <1>1 DEF TypeOK, Put
    <2> QED
        BY <2>1, <2>2, <2>3 DEF GhostInv
<1>2. CASE Remove(c)
    <2>1. UNCHANGED <<leaving, corrupt>> /\ pc'[c] = "collect"
        BY <1>2 DEF TypeOK, Remove
    <2>2. ~corrupt => onLineSockets' = onLineSockets \ {c}
        BY <1>2 DEF Remove, After
    <2>3. \A d \in Clients : d # c => pc'[d] = pc[d]
        BY <1>2 DEF TypeOK, Remove
    <2> QED
        BY <2>1, <2>2, <2>3 DEF GhostInv
<1>3. CASE Collect(c)
    BY <1>3 DEF TypeOK, GhostInv, Collect, AfterMessage, map
<1>4. CASE Open(c) \/ Send(c) \/ Written(c)
    BY <1>4 DEF TypeOK, GhostInv, Open, Send, Written, map
<1>5. CASE SendEnd(c) \/ GiveUp(c)
    BY <1>5 DEF TypeOK, GhostInv, SendEnd, GiveUp, Throws, AfterMessage, map
<1>6. CASE Catch(c)
    <2>1. /\ pc' = [pc EXCEPT ![c] = "remove"] /\ onLineSockets' = onLineSockets
          /\ leaving' = [leaving EXCEPT ![c] = TRUE] /\ (~corrupt' => ~corrupt)
        BY <1>6, CorruptStays DEF Catch, BeginUpdate
    <2> QED
        BY <2>1 DEF TypeOK, GhostInv
<1> QED
    BY <1>1, <1>2, <1>3, <1>4, <1>5, <1>6 DEF Reader

\* ServerReader.run(): whatever throws in whichever thread, a client whose
\* thread has ended, or is telling the others, is not in onLineSockets, as long
\* as no two threads have been in put() or remove() at the same time.
THEOREM NoGhosts == Spec => []NoGhost
<1>1. Init => GhostInv
    BY DEF Init, GhostInv
<1>2. TypeOK /\ GhostInv /\ [Next]_vars => GhostInv'
    <2> SUFFICES ASSUME TypeOK, GhostInv, [Next]_vars PROVE GhostInv'
        OBVIOUS
    <2>1. CASE UNCHANGED vars
        BY <2>1 DEF GhostInv, vars, map
    <2>2. CASE Over
        BY <2>1, <2>2 DEF Over
    <2> QED
        BY <2>1, <2>2, ClientGhost, ReaderGhost DEF Next
<1>3. GhostInv => NoGhost
    BY DEF GhostInv, NoGhost
<1> QED
    BY <1>1, <1>2, <1>3, TypeCorrect, PTL DEF Spec
-----------------------------------------------------------------------------
\* A thread changes the map and collects names only to send a list.
JobInv ==
    \A c \in Clients : pc[c] \in {"put", "remove", "collect", "open"} => job[c] = "list"

\* Between lists all clients show who is there; the one list that is on its way
\* is up to date, and whoever it has reached shows it.
CurrentInv ==
    /\ \A c, d \in Clients : Listing(c) /\ Listing(d) => c = d
    /\ (\A c \in Clients : ~Listing(c)) =>
          \A d \in (onLineSockets \cap connected) \ garbled : list[d] = onLineSockets
    /\ \A c \in Clients : pc[c] \in {"open", "send"} /\ job[c] = "list" =>
          names[c] = onLineSockets
    /\ \A c \in Clients : pc[c] = "send" /\ job[c] = "list" =>
          \A d \in (onLineSockets \cap connected) \ (todo[c] \cup writing[c] \cup garbled) :
                list[d] = onLineSockets

\* With these ListsAgree is inductive.
ListInv == ~overlap /\ ~cut => CurrentInv

\* Every step keeps JobInv.
LEMMA JobStep == TypeOK /\ JobInv /\ [Next]_vars => JobInv'
<1> SUFFICES ASSUME TypeOK, JobInv, [Next]_vars PROVE JobInv'
    OBVIOUS
<1> USE DEF TypeOK, JobInv
<1>1. ASSUME NEW c \in Clients, Connect(c) \/ Drop(c) \/ Login(c) \/ Message(c)
      PROVE  JobInv'
    BY <1>1 DEF Connect, Drop, Login, Message, BeginUpdate, loop
<1>2. ASSUME NEW c \in Clients, Put(c) \/ Remove(c) \/ Collect(c) PROVE JobInv'
    BY <1>2 DEF Put, Remove, Collect, AfterMessage
<1>3. ASSUME NEW c \in Clients, Open(c) \/ Send(c) \/ Written(c) PROVE JobInv'
    BY <1>3 DEF Open, Send, Written
<1>4. ASSUME NEW c \in Clients, SendEnd(c) \/ Catch(c) \/ GiveUp(c) PROVE JobInv'
    BY <1>4 DEF SendEnd, Catch, GiveUp, BeginUpdate, AfterMessage
<1>5. CASE UNCHANGED vars
    BY <1>5 DEF vars, loop
<1> QED
    BY <1>1, <1>2, <1>3, <1>4, <1>5 DEF Next, Over, Reader

\* Once two lists have overlapped, or one was cut short, that is remembered.
LEMMA HistoryStep ==
    TypeOK /\ [Next]_vars /\ ~overlap' /\ ~cut' => ~overlap /\ ~cut
<1> SUFFICES ASSUME TypeOK, [Next]_vars, ~overlap', ~cut' PROVE ~overlap /\ ~cut
    OBVIOUS
<1>1. ASSUME NEW c \in Clients, NEW update, BeginUpdate(c, update) PROVE ~overlap
    BY <1>1, Zenon DEF BeginUpdate
<1>2. ASSUME NEW c \in Clients, Catch(c) PROVE ~cut
    BY <1>2, Zenon DEF Catch
<1>3. ASSUME NEW c \in Clients, Connect(c) \/ Drop(c) \/ Message(c) \/ Put(c) \/ Remove(c)
      PROVE  overlap' = overlap /\ cut' = cut
    BY <1>3 DEF Connect, Drop, Message, Put, Remove, history
<1>4. ASSUME NEW c \in Clients,
             Collect(c) \/ Open(c) \/ Send(c) \/ Written(c) \/ SendEnd(c)
      PROVE  overlap' = overlap /\ cut' = cut
    BY <1>4 DEF Collect, Open, Send, Written, SendEnd, history
<1>5. ASSUME NEW c \in Clients, Login(c) PROVE BeginUpdate(c, "put") /\ cut' = cut
    BY <1>5 DEF Login
<1>6. ASSUME NEW c \in Clients, Catch(c) PROVE BeginUpdate(c, "remove")
    BY <1>6 DEF Catch
<1>7. ASSUME NEW c \in Clients, GiveUp(c) PROVE cut'
    BY <1>7 DEF GiveUp
<1>8. CASE UNCHANGED vars
    BY <1>8 DEF vars, history
<1> QED
    BY <1>1, <1>2, <1>3, <1>4, <1>5, <1>6, <1>7, <1>8 DEF Next, Over, Reader

\* A thread that begins an update while no list is on its way is the only one
\* that is going to send a list.
LEMMA BeginAlone ==
    ASSUME TypeOK, NEW c \in Clients, NEW update \in {"put", "remove"},
           BeginUpdate(c, update), ~overlap'
    PROVE  CurrentInv'
<1>1. \A d \in Clients \ {c} : ~Listing(d)
    BY DEF BeginUpdate
<1>2. pc'[c] = update /\ job'[c] = "list"
    BY DEF TypeOK, BeginUpdate
<1>3. \A d \in Clients \ {c} : pc'[d] = pc[d] /\ job'[d] = job[d]
    BY DEF TypeOK, BeginUpdate
<1>4. Listing(c)' /\ \A d \in Clients : Listing(d)' => d = c
    BY <1>1, <1>2, <1>3 DEF Listing
<1> QED
    BY <1>2, <1>4 DEF CurrentInv, Listing

\* What a client does keeps the lists current: whoever logs in begins a list.
LEMMA ClientCurrent ==
    ASSUME TypeOK, CurrentInv, NEW c \in Clients,
           ~overlap', Connect(c) \/ Drop(c) \/ Login(c) \/ Message(c)
    PROVE  CurrentInv'
<1>1. CASE Connect(c)
  <2>1. \A d \in Clients : Listing(d)' <=> Listing(d)
    BY <1>1 DEF TypeOK, Connect, Listing, loop
  <2>2. /\ c \notin onLineSockets
        /\ \A d \in Clients : /\ pc'[d] = "send" <=> pc[d] = "send"
                              /\ pc'[d] = "open" <=> pc[d] = "open"
    BY <1>1 DEF TypeOK, Named, Connect
  <2> QED
    BY <1>1, <2>1, <2>2 DEF TypeOK, CurrentInv, Connect, map, loop, screens
<1>2. CASE Drop(c)
  <2>1. \A d \in Clients : Listing(d)' <=> Listing(d)
    BY <1>2 DEF Drop, Listing, loop
  <2>2. \A d \in connected' \ garbled' :
            d \in connected /\ d \notin garbled /\ list'[d] = list[d]
    BY <1>2 DEF TypeOK, Drop
  <2> QED
    BY <1>2, <2>1, <2>2 DEF CurrentInv, Drop, map, loop
<1>3. CASE Login(c)
    BY <1>3, BeginAlone DEF Login
<1>4. CASE Message(c)
  <2>1. job'[c] # "list" /\ ~Listing(c)
    BY <1>4, JobAssumption DEF TypeOK, Message, Listing
  <2>2. \A d \in Clients : d # c =>
            pc'[d] = pc[d] /\ job'[d] = job[d] /\ todo'[d] = todo[d]
    BY <1>4 DEF TypeOK, Message
  <2>3. \A d \in Clients : Listing(d)' <=> Listing(d)
    BY <2>1, <2>2 DEF Listing
  <2>4. UNCHANGED <<connected, onLineSockets, names, writing, list, garbled>>
    BY <1>4 DEF Message, map, screens
  <2> QED
    BY <2>1, <2>2, <2>3, <2>4 DEF CurrentInv
<1> QED
    BY <1>1, <1>2, <1>3, <1>4

\* A thread that is sending a list is not disturbed.
LEMMA Undisturbed ==
    ASSUME TypeOK, JobInv, CurrentInv, NEW c \in Clients, Listing(c)
    PROVE  Seen(c) = {onLineSockets}
<1>1. \A d \in Clients : Updating(d) => Listing(d)
    BY DEF JobInv, Updating, Listing
<1> QED
    BY <1>1 DEF CurrentInv, Seen, Disturbed

\* So do the steps by which a ServerReader prepares to send.
LEMMA PrepareCurrent ==
    ASSUME TypeOK, JobInv, CurrentInv, NEW c \in Clients,
           Put(c) \/ Remove(c) \/ Collect(c) \/ Open(c)
    PROVE  CurrentInv'
<1>1. Listing(c) /\ job' = job
    BY DEF JobInv, Put, Remove, Collect, Open, Listing
<1>2. \A d \in Clients : d # c => pc'[d] = pc[d]
    BY DEF TypeOK, Put, Remove, Collect, Open
<1>3. \A d \in Clients : Listing(d)' => d = c
    BY <1>1, <1>2 DEF CurrentInv, Listing
<1>4. CASE Put(c) \/ Remove(c)
  <2>1. pc'[c] = "collect"
    BY <1>4 DEF TypeOK, Put, Remove
  <2>2. Listing(c)'
    BY <1>1, <2>1 DEF Listing
  <2> QED
    BY <1>3, <2>1, <2>2 DEF CurrentInv, Listing
<1>5. CASE Collect(c)
  <2>1. names'[c] = onLineSockets /\ UNCHANGED <<connected, onLineSockets, list, garbled>>
    BY <1>1, <1>5, Undisturbed DEF TypeOK, Collect, map, screens
  <2>2. pc'[c] = IF onLineSockets = {} THEN AfterMessage(c) ELSE "open"
    BY <1>1, <1>5, Undisturbed DEF TypeOK, Collect
  <2>3. CASE onLineSockets = {}
    <3>1. pc'[c] \in {"dead", "read"}
      BY <2>2, <2>3 DEF AfterMessage
    <3> QED
      BY <1>3, <2>1, <2>3, <3>1 DEF CurrentInv, Listing
  <2>4. CASE onLineSockets # {}
    <3>1. pc'[c] = "open" /\ Listing(c)'
      BY <1>1, <2>2, <2>4 DEF Listing
    <3> QED
      BY <1>3, <2>1, <3>1 DEF CurrentInv, Listing
  <2> QED
    BY <2>3, <2>4
<1>6. CASE Open(c)
  <2>1. todo'[c] = onLineSockets
    BY <1>1, <1>6, Undisturbed DEF TypeOK, Open
  <2>2. /\ pc[c] = "open" /\ pc'[c] = "send"
        /\ UNCHANGED <<onLineSockets, names, writing, garbled>>
    BY <1>6 DEF TypeOK, Open, map, screens
  <2>3. names[c] = onLineSockets
    BY <1>1, <2>2 DEF CurrentInv, Listing
  <2>4. Listing(c)'
    BY <1>1, <2>2 DEF Listing
  <2> QED
    BY <1>3, <2>1, <2>2, <2>3, <2>4 DEF CurrentInv, Listing
<1> QED
    BY <1>4, <1>5, <1>6

\* So do the steps of the loop that sends.
LEMMA SendCurrent ==
    ASSUME TypeOK, CurrentInv, NEW c \in Clients, Send(c) \/ Written(c) \/ SendEnd(c)
    PROVE  CurrentInv'
<1>1. CASE Send(c)
  <2>1. PICK sk \in todo[c] :
            /\ todo' = [todo EXCEPT ![c] = @ \ {sk}]
            /\ writing' = [writing EXCEPT ![c] = {s \in {sk} : Writes(c, s)}]
    BY <1>1 DEF Send
  <2>2. /\ UNCHANGED <<connected, onLineSockets, pc, job, names, list>>
        /\ writing[c] = {} /\ garbled \subseteq garbled'
    BY <1>1 DEF Send, map
  <2>3. \A d \in Clients : Listing(d)' <=> Listing(d)
    BY <2>2 DEF Listing
  <2>4. \A d \in Clients : d # c => todo'[d] = todo[d] /\ writing'[d] = writing[d]
    BY <2>1 DEF TypeOK
  <2>5. job[c] = "list" => todo[c] \subseteq todo'[c] \cup writing'[c]
    BY <2>1 DEF TypeOK, Writes
  <2> QED
    BY <2>2, <2>3, <2>4, <2>5 DEF CurrentInv
<1>2. CASE Written(c)
  <2>1. /\ UNCHANGED <<connected, onLineSockets, pc, job, names, todo, garbled>>
        /\ pc[c] = "send"
    BY <1>2 DEF Written, map
  <2>2. \A d \in Clients : Listing(d)' <=> Listing(d)
    BY <2>1 DEF Listing
  <2>3. \A d \in Clients : d # c => writing'[d] = writing[d]
    BY <1>2 DEF TypeOK, Written
  <2>4. CASE job[c] = "list"
    <3>1. Listing(c) /\ names[c] = onLineSockets
      BY <2>1, <2>4 DEF CurrentInv, Listing
    <3>2. \A d \in Clients : Listing(d) <=> d = c
      BY <3>1 DEF CurrentInv
    <3>3. ASSUME NEW d \in (onLineSockets \cap connected) \ (todo[c] \cup garbled)
          PROVE  list'[d] = onLineSockets
      <4>1. d \in Clients
        BY DEF TypeOK
      <4>2. list'[d] = IF d \in (writing[c] \cap connected) \ garbled
                       THEN names[c] ELSE list[d]
        BY <1>2, <2>4, <4>1 DEF Written
      <4> QED
        BY <2>1, <2>4, <3>1, <4>2 DEF CurrentInv
    <3> QED
      BY <2>1, <2>2, <3>1, <3>2, <3>3 DEF CurrentInv, Listing
  <2>5. CASE job[c] # "list"
    <3>1. \A d \in Clients : list'[d] = list[d]
      BY <1>2, <2>5 DEF Written
    <3>2. onLineSockets \subseteq Clients
      BY DEF TypeOK, Named
    <3> QED
      BY <2>1, <2>2, <2>3, <2>5, <3>1, <3>2 DEF CurrentInv
  <2> QED
    BY <2>4, <2>5
<1>3. CASE SendEnd(c)
  <2>1. /\ pc[c] = "send" /\ todo[c] = {} /\ writing[c] = {}
        /\ pc'[c] \in {"dead", "read"}
        /\ UNCHANGED <<connected, onLineSockets, list, garbled>>
    BY <1>3 DEF TypeOK, SendEnd, AfterMessage, map, screens
  <2>2. \A d \in Clients : d # c => /\ pc'[d] = pc[d] /\ job'[d] = job[d]
                                    /\ todo'[d] = todo[d] /\ names'[d] = names[d]
                                    /\ writing'[d] = writing[d]
    BY <1>3 DEF TypeOK, SendEnd, LoopOver
  <2>3. \A d \in Clients : Listing(d)' <=> d # c /\ Listing(d)
    BY <2>1, <2>2 DEF Listing
  <2>4. CASE Listing(c)
    <3>1. \A d \in (onLineSockets \cap connected) \ garbled : list[d] = onLineSockets
      BY <2>1, <2>4 DEF CurrentInv, Listing
    <3>2. \A d \in Clients : ~Listing(d)'
      BY <2>3, <2>4 DEF CurrentInv
    <3> QED
      BY <2>1, <3>1, <3>2 DEF CurrentInv, Listing
  <2>5. CASE ~Listing(c)
    BY <2>1, <2>2, <2>3, <2>5 DEF CurrentInv
  <2> QED
    BY <2>4, <2>5
<1> QED
    BY <1>1, <1>2, <1>3

\* ServerChat.java, line 69, sends the names of those who are there to all
\* clients: when the threads are at rest every client shows exactly those who
\* are logged in, provided that no two lists overlapped, none was cut short, and
\* no two threads wrote to that client at the same time.
THEOREM ListsStayCurrent == Spec => []ListsAgree
<1>1. Init => JobInv /\ ListInv
    BY DEF Init, JobInv, ListInv, CurrentInv, Listing
<1>2. TypeOK /\ JobInv /\ ListInv /\ [Next]_vars => JobInv' /\ ListInv'
  <2> SUFFICES ASSUME TypeOK, JobInv, ListInv, [Next]_vars, ~overlap', ~cut'
               PROVE  CurrentInv'
    BY JobStep DEF ListInv
  <2>1. CurrentInv
    BY HistoryStep DEF ListInv
  <2>2. CASE UNCHANGED vars
    BY <2>1, <2>2 DEF CurrentInv, Listing, vars, map, loop, screens
  <2>3. ASSUME NEW c \in Clients, Catch(c) PROVE CurrentInv'
    BY <2>3, BeginAlone DEF Catch
  <2>4. ASSUME NEW c \in Clients, GiveUp(c) PROVE FALSE
    BY <2>4 DEF GiveUp
  <2> QED
    BY <2>1, <2>2, <2>3, <2>4, ClientCurrent, PrepareCurrent, SendCurrent
    DEF Next, Over, Reader
<1>3. ListInv => ListsAgree
    BY DEF ListInv, CurrentInv, ListsAgree, AtRest, Listing
<1> QED
    BY <1>1, <1>2, <1>3, TypeCorrect, PTL DEF Spec
==============================================================================
