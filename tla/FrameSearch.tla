---------------------------- MODULE FrameSearch ----------------------------
(***************************************************************************)
(* search-strings-db-plugins.js: a search typed into the console of one    *)
(* frame is flooded with postMessage() to every frame of the page. Each    *)
(* frame has its own strings database and its own set of message ids; the  *)
(* id of a search is the time in milliseconds at which it is sent.         *)
(***************************************************************************)
EXTENDS Naturals

CONSTANTS
    Frames,
    Parent,      \* Frame -> window.parent, which is the frame itself at the top
    Searches,    \* commands typed by the user, each at most once
    Failing,     \* <<frame, search>> whose local search throws
    MaxMs        \* bound: the last millisecond of the clock

ASSUME ParentAssumption == Parent \in [Frames -> Frames]
ASSUME FailingAssumption == Failing \subseteq Frames \X Searches
ASSUME MaxMsAssumption == MaxMs \in Nat

VARIABLES
    loaded,      \* frames in which the plugin has run
    alreadyProcessMessageIdSet,
    net,         \* messages posted and not yet delivered
    clock,
    started,     \* searches that were sent
    messageId,   \* Search -> its id
    searched,    \* history: Frame -> Search -> times it was searched there
    origin,      \* history: Search -> the frame it was typed in
    audience     \* history: Search -> frames loaded when it was sent

history == <<searched, origin, audience>>
vars == <<loaded, alreadyProcessMessageIdSet, net, clock, started, messageId, history>>

Ids == 0..MaxMs
Messages == [from : Frames, to : Frames, messageId : Ids, search : Searches]

Init ==
    /\ loaded = {}
    /\ alreadyProcessMessageIdSet = [f \in Frames |-> {}]
    /\ net = {} /\ clock = 0 /\ started = {}
    /\ messageId = [s \in Searches |-> 0]
    /\ searched = [f \in Frames |-> [s \in Searches |-> 0]]
    /\ origin = [s \in Searches |-> {}]
    /\ audience = [s \in Searches |-> {}]
----------------------------------------------------------------------------
\* Mutant of Targets: the parent is forgotten.
TargetsChildren(f) == {g \in Frames : Parent[g] = f}

\* The iframes of f and its parent; the top frame posts to itself.
Targets(f) == {g \in Frames : Parent[g] = f} \cup {Parent[f]}

\* _searchParentAndChildren()
Posts(f, id, s) ==
    {[from |-> f, to |-> g, messageId |-> id, search |-> s] : g \in Targets(f)}

\* _search() runs to its end in f.
Searched(f, s) == searched' = [searched EXCEPT ![f][s] = @ + 1]

Tick ==
    /\ clock < MaxMs
    /\ clock' = clock + 1
    /\ UNCHANGED <<loaded, alreadyProcessMessageIdSet, net, started, messageId, history>>

\* The plugin runs in f and registers its listener.
Load(f) ==
    /\ f \notin loaded
    /\ loaded' = loaded \cup {f}
    /\ UNCHANGED <<alreadyProcessMessageIdSet, net, clock, started, messageId, history>>

\* Mutant of Search: the search is left to the messages.
SearchOthers(f, s) ==
    /\ f \in loaded /\ s \notin started /\ <<f, s>> \notin Failing
    /\ started' = started \cup {s}
    /\ messageId' = [messageId EXCEPT ![s] = clock]
    /\ alreadyProcessMessageIdSet' = [alreadyProcessMessageIdSet EXCEPT ![f] = @ \cup {clock}]
    /\ net' = net \cup Posts(f, clock, s)
    /\ origin' = [origin EXCEPT ![s] = {f}]
    /\ audience' = [audience EXCEPT ![s] = loaded]
    /\ UNCHANGED <<loaded, clock, searched>>

\* Mutant of Search: the frame does not record the id of its own search.
SearchUnrecorded(f, s) ==
    /\ f \in loaded /\ s \notin started /\ <<f, s>> \notin Failing
    /\ Searched(f, s)
    /\ started' = started \cup {s}
    /\ messageId' = [messageId EXCEPT ![s] = clock]
    /\ net' = net \cup Posts(f, clock, s)
    /\ origin' = [origin EXCEPT ![s] = {f}]
    /\ audience' = [audience EXCEPT ![s] = loaded]
    /\ UNCHANGED <<loaded, clock, alreadyProcessMessageIdSet>>

\* searchByValue() or searchByName(), typed into the console of f. When the
\* local search throws, nothing is sent.
Search(f, s) ==
    /\ f \in loaded /\ s \notin started /\ <<f, s>> \notin Failing
    /\ Searched(f, s)
    /\ started' = started \cup {s}
    /\ messageId' = [messageId EXCEPT ![s] = clock]
    /\ alreadyProcessMessageIdSet' = [alreadyProcessMessageIdSet EXCEPT ![f] = @ \cup {clock}]
    /\ net' = net \cup Posts(f, clock, s)
    /\ origin' = [origin EXCEPT ![s] = {f}]
    /\ audience' = [audience EXCEPT ![s] = loaded]
    /\ UNCHANGED <<loaded, clock>>

Processed(f, id) == id \in alreadyProcessMessageIdSet[f]

\* Mutant of Ignore: the message is forwarded before it is recognised.
IgnoreForwarding(m) ==
    /\ m \in net
    /\ m.to \notin loaded \/ Processed(m.to, m.messageId)
    /\ net' = (net \ {m}) \cup (IF m.to \in loaded THEN Posts(m.to, m.messageId, m.search) ELSE {})
    /\ UNCHANGED <<loaded, alreadyProcessMessageIdSet, clock, started, messageId, history>>

\* No listener yet, or the id has been processed.
Ignore(m) ==
    /\ m \in net
    /\ m.to \notin loaded \/ Processed(m.to, m.messageId)
    /\ net' = net \ {m}
    /\ UNCHANGED <<loaded, alreadyProcessMessageIdSet, clock, started, messageId, history>>

\* The local search throws: the id is not recorded, the message not forwarded.
Fail(m) ==
    /\ m \in net
    /\ m.to \in loaded /\ ~Processed(m.to, m.messageId) /\ <<m.to, m.search>> \in Failing
    /\ net' = net \ {m}
    /\ UNCHANGED <<loaded, alreadyProcessMessageIdSet, clock, started, messageId, history>>

\* Mutant of Answer: the id is counted up on every hop.
AnswerCounting(m) ==
    /\ m \in net
    /\ m.to \in loaded /\ ~Processed(m.to, m.messageId) /\ <<m.to, m.search>> \notin Failing
    /\ Searched(m.to, m.search)
    /\ alreadyProcessMessageIdSet' =
          [alreadyProcessMessageIdSet EXCEPT ![m.to] = @ \cup {m.messageId}]
    /\ net' = (net \ {m}) \cup Posts(m.to, m.messageId + 1, m.search)
    /\ UNCHANGED <<loaded, clock, started, messageId, origin, audience>>

\* The listener searches, records the id and forwards the message.
Answer(m) ==
    /\ m \in net
    /\ m.to \in loaded /\ ~Processed(m.to, m.messageId) /\ <<m.to, m.search>> \notin Failing
    /\ Searched(m.to, m.search)
    /\ alreadyProcessMessageIdSet' =
          [alreadyProcessMessageIdSet EXCEPT ![m.to] = @ \cup {m.messageId}]
    /\ net' = (net \ {m}) \cup Posts(m.to, m.messageId, m.search)
    /\ UNCHANGED <<loaded, clock, started, messageId, origin, audience>>

Deliver == \E m \in net : Ignore(m) \/ Fail(m) \/ Answer(m)

\* The clock has reached its bound, everything was typed and delivered.
Rest ==
    /\ clock = MaxMs /\ loaded = Frames /\ net = {}
    /\ \A s \in Searches : s \in started \/ \A f \in Frames : <<f, s>> \in Failing
    /\ UNCHANGED vars

Next ==
    \/ Tick
    \/ \E f \in Frames : Load(f) \/ \E s \in Searches : Search(f, s)
    \/ Deliver
    \/ Rest

Spec == Init /\ [][Next]_vars

\* The event loop of every frame goes on delivering messages.
FairSpec == Spec /\ WF_vars(Deliver)
----------------------------------------------------------------------------
TypeOK ==
    /\ loaded \subseteq Frames
    /\ alreadyProcessMessageIdSet \in [Frames -> SUBSET Ids]
    /\ net \subseteq Messages
    /\ clock \in Ids
    /\ started \subseteq Searches
    /\ messageId \in [Searches -> Ids]
    /\ searched \in [Frames -> [Searches -> Nat]]
    /\ origin \in [Searches -> SUBSET Frames]
    /\ audience \in [Searches -> SUBSET Frames]

\* Another search was sent in the same millisecond: its id is the same.
Clash(s) ==
    \E t \in started \ {s} : s \in started /\ messageId[t] = messageId[s]

Adjacent(f, g) == f # g /\ (Parent[f] = g \/ Parent[g] = f)

\* A frame that was there when s was sent and can search.
Listens(f, s) == f \in audience[s] /\ <<f, s>> \notin Failing

\* However many copies of a message reach a frame, along whichever way and
\* with whatever ids: no frame shows the results of a search twice.
AtMostOnce ==
    \A f \in Frames, s \in Searches : searched[f][s] <= 1

\* The search never stops in the middle of the page: a frame that has
\* processed it has its neighbours processed, or has a message on the way to
\* them, unless another search took the same id.
Frontier ==
    \A s \in started, f, g \in Frames :
        /\ ~Clash(s)
        /\ Adjacent(f, g) /\ Listens(g, s)
        /\ Processed(f, messageId[s])
        => \/ Processed(g, messageId[s])
           \/ [from |-> f, to |-> g, messageId |-> messageId[s], search |-> s] \in net

\* The frames that a chain of listening frames joins to the origin.
Reach(s) ==
    {f \in Frames :
        \A S \in SUBSET Frames :
            /\ origin[s] \subseteq S
            /\ \A g \in S, h \in Frames : Adjacent(g, h) /\ Listens(h, s) => h \in S
            => f \in S}

\* "A command spreads to all threads": every search that does not share its
\* millisecond is in the end made in every frame a chain of frames joins to it.
Spreads ==
    \A s \in Searches :
        s \in started ~> (Clash(s) \/ \A f \in Reach(s) : searched[f][s] = 1)

\* Frames do not go on sending one another the same searches for ever.
Quiet == <>[](net = {})

============================================================================
