------------------------- MODULE FrameSearch_proofs -------------------------
(***************************************************************************)
(* The flooding of searches, for any page, any number of searches and any  *)
(* clock: no frame searches twice, and the flood leaves no gap behind it.  *)
(***************************************************************************)
EXTENDS FrameSearch, TLAPS

\* Messages carry the id of a search that was sent, and ids in the sets of the
\* frames come from searches too.
IdInv ==
    /\ \A m \in net : m.search \in started /\ m.messageId = messageId[m.search]
    /\ \A f \in Frames : \A id \in alreadyProcessMessageIdSet[f] :
          \E s \in started : messageId[s] = id

\* A frame that has searched has the id in its set.
OnceInv ==
    \A f \in Frames, s \in Searches :
        \/ searched[f][s] = 0
        \/ searched[f][s] = 1 /\ s \in started /\ Processed(f, messageId[s])

\* Frames do not unload.
AudienceInv == \A s \in Searches : audience[s] \subseteq loaded

IInv == TypeOK /\ IdInv /\ OnceInv /\ AudienceInv /\ Frontier

\* What _searchParentAndChildren() posts.
LEMMA PostsType ==
    ASSUME NEW f \in Frames, NEW id \in Ids, NEW s \in Searches
    PROVE  /\ Posts(f, id, s) \subseteq Messages
           /\ \A m \in Posts(f, id, s) : m.search = s /\ m.messageId = id
           /\ \A g \in Frames : Adjacent(f, g) =>
                 [from |-> f, to |-> g, messageId |-> id, search |-> s] \in Posts(f, id, s)
<1>1. Targets(f) \subseteq Frames
    BY ParentAssumption DEF Targets
<1>2. \A g \in Frames : Adjacent(f, g) => g \in Targets(f)
    BY DEF Adjacent, Targets
<1> QED
    BY <1>1, <1>2 DEF Posts, Messages

\* The messages that are removed from net are messages.
LEMMA NetType ==
    ASSUME TypeOK, NEW m \in net
    PROVE  m.from \in Frames /\ m.to \in Frames /\ m.messageId \in Ids /\ m.search \in Searches
BY DEF TypeOK, Messages

\* Typing a search keeps the types.
LEMMA SearchType ==
    ASSUME TypeOK, NEW f \in Frames, NEW s \in Searches, Search(f, s)
    PROVE  TypeOK'
<1>1. searched' \in [Frames -> [Searches -> Nat]]
    BY DEF TypeOK, Search, Searched
<1>2. net' \subseteq Messages
    BY PostsType DEF TypeOK, Search
<1> QED
    BY <1>1, <1>2 DEF TypeOK, Search

\* The listener keeps the types.
LEMMA AnswerType ==
    ASSUME TypeOK, NEW m \in net, Answer(m)
    PROVE  TypeOK'
<1>1. searched' \in [Frames -> [Searches -> Nat]]
    BY NetType DEF TypeOK, Answer, Searched
<1>2. net' \subseteq Messages
    BY NetType, PostsType DEF TypeOK, Answer
<1> QED
    BY <1>1, <1>2, NetType DEF TypeOK, Answer

\* Typing a search keeps the invariant: another search of the same millisecond
\* is a clash.
LEMMA SearchInv ==
    ASSUME IInv, NEW f \in Frames, NEW s \in Searches, Search(f, s)
    PROVE  IInv'
<1>0. TypeOK /\ TypeOK' /\ clock \in Ids
    BY SearchType DEF IInv, TypeOK
<1>1. /\ s \notin started /\ started' = started \cup {s}
      /\ messageId' = [messageId EXCEPT ![s] = clock]
      /\ alreadyProcessMessageIdSet' = [alreadyProcessMessageIdSet EXCEPT ![f] = @ \cup {clock}]
      /\ net' = net \cup Posts(f, clock, s)
    BY DEF Search
<1>2. IdInv'
    <2>1. \A m \in net' : m.search \in started' /\ m.messageId = messageId'[m.search]
        BY <1>0, <1>1, PostsType, NetType DEF IInv, IdInv, TypeOK
    <2>2. \A h \in Frames : \A id \in alreadyProcessMessageIdSet'[h] :
             \E t \in started' : messageId'[t] = id
        <3> SUFFICES ASSUME NEW h \in Frames, NEW id \in alreadyProcessMessageIdSet'[h]
                     PROVE  \E t \in started' : messageId'[t] = id
            OBVIOUS
        <3>1. CASE id = clock
            BY <1>0, <1>1, <3>1 DEF TypeOK
        <3>2. CASE id \in alreadyProcessMessageIdSet[h]
            BY <1>0, <1>1, <3>2 DEF IInv, IdInv, TypeOK
        <3> QED
            BY <1>0, <1>1, <3>1, <3>2 DEF TypeOK
    <2> QED
        BY <2>1, <2>2 DEF IdInv
<1>3. OnceInv'
    <2> SUFFICES ASSUME NEW g \in Frames, NEW t \in Searches
                 PROVE  \/ searched'[g][t] = 0
                        \/ searched'[g][t] = 1 /\ t \in started' /\ Processed(g, messageId[t])'
        BY DEF OnceInv
    <2>1. CASE g = f /\ t = s
        BY <1>0, <1>1, <2>1 DEF IInv, OnceInv, TypeOK, Search, Searched, Processed
    <2>2. CASE ~(g = f /\ t = s)
        <3>1. searched'[g][t] = searched[g][t]
            BY <1>0, <2>2 DEF TypeOK, Search, Searched
        <3> QED
            BY <1>0, <1>1, <3>1 DEF IInv, OnceInv, TypeOK, Processed
    <2> QED
        BY <2>1, <2>2
<1>4. AudienceInv'
    BY <1>0 DEF IInv, AudienceInv, TypeOK, Search
<1>5. Frontier'
    <2> SUFFICES ASSUME NEW t \in started', NEW g \in Frames, NEW h \in Frames,
                        ~Clash(t)', Adjacent(g, h), Listens(h, t)', Processed(g, messageId[t])'
                 PROVE  \/ Processed(h, messageId[t])'
                        \/ [from |-> g, to |-> h, messageId |-> messageId'[t], search |-> t] \in net'
        BY DEF Frontier, Adjacent
    <2>1. CASE t = s
        <3>1. messageId'[t] = clock
            BY <1>0, <1>1, <2>1 DEF TypeOK
        <3>2. g = f
            <4> SUFFICES ASSUME g # f PROVE FALSE
                OBVIOUS
            <4>1. clock \in alreadyProcessMessageIdSet[g]
                BY <1>0, <1>1, <3>1 DEF Processed, TypeOK
            <4>2. PICK r \in started : messageId[r] = clock
                BY <4>1 DEF IInv, IdInv
            <4>3. r \in started' \ {s} /\ messageId'[r] = messageId'[s]
                BY <1>0, <1>1, <2>1, <3>1, <4>2 DEF TypeOK
            <4> QED
                BY <2>1, <4>3 DEF Clash
        <3> QED
            BY <1>0, <1>1, <2>1, <3>1, <3>2, PostsType
    <2>2. CASE t # s
        <3>1. t \in started /\ messageId'[t] = messageId[t]
            BY <1>0, <1>1, <2>2 DEF TypeOK
        <3>2. ~Clash(t)
            BY <1>0, <1>1, <3>1 DEF Clash, TypeOK
        <3>3. messageId[t] # clock
            BY <1>0, <1>1, <2>2, <3>1 DEF Clash, TypeOK
        <3>4. Listens(h, t)
            BY <1>0, <2>2 DEF Listens, Search, TypeOK
        <3>5. Processed(g, messageId[t])
            BY <1>0, <1>1, <3>1, <3>3 DEF Processed, TypeOK
        <3>6. \/ Processed(h, messageId[t])
              \/ [from |-> g, to |-> h, messageId |-> messageId[t], search |-> t] \in net
            BY <3>1, <3>2, <3>4, <3>5 DEF IInv, Frontier
        <3> QED
            BY <1>0, <1>1, <3>1, <3>6 DEF Processed, TypeOK
    <2> QED
        BY <2>1, <2>2
<1> QED
    BY <1>0, <1>2, <1>3, <1>4, <1>5 DEF IInv

\* A message that is dropped was for a frame that is not listening, has
\* processed the id, or cannot search.
LEMMA DropInv ==
    ASSUME IInv, NEW m \in net, Ignore(m) \/ Fail(m)
    PROVE  IInv'
<1>0. /\ net' = net \ {m}
      /\ UNCHANGED <<loaded, alreadyProcessMessageIdSet, clock, started, messageId, history>>
    BY DEF Ignore, Fail
<1>1. TypeOK' /\ IdInv' /\ OnceInv' /\ AudienceInv'
    BY <1>0 DEF IInv, TypeOK, IdInv, OnceInv, AudienceInv, Processed, history
<1>2. Frontier'
    <2> SUFFICES ASSUME NEW t \in started, NEW g \in Frames, NEW h \in Frames,
                        ~Clash(t), Adjacent(g, h), Listens(h, t), Processed(g, messageId[t])
                 PROVE  \/ Processed(h, messageId[t])
                        \/ [from |-> g, to |-> h, messageId |-> messageId[t], search |-> t] \in net'
        BY <1>0 DEF Frontier, Clash, Listens, Processed, history, Adjacent
    <2> DEFINE n == [from |-> g, to |-> h, messageId |-> messageId[t], search |-> t]
    <2>1. Processed(h, messageId[t]) \/ n \in net
        BY DEF IInv, Frontier
    <2>2. ASSUME n = m PROVE Processed(h, messageId[t])
        <3>1. m.to = h /\ m.messageId = messageId[t] /\ m.search = t
            BY <2>2
        <3>2. h \in loaded /\ <<h, t>> \notin Failing
            BY DEF IInv, TypeOK, AudienceInv, Listens
        <3> QED
            BY <3>1, <3>2 DEF Ignore, Fail
    <2> QED
        BY <1>0, <2>1, <2>2
<1> QED
    BY <1>1, <1>2 DEF IInv

\* The listener has not seen the id, so it has not searched; afterwards all its
\* neighbours have a message on the way.
LEMMA AnswerInv ==
    ASSUME IInv, NEW m \in net, Answer(m)
    PROVE  IInv'
<1>0. TypeOK /\ TypeOK' /\ m.to \in Frames /\ m.messageId \in Ids /\ m.search \in Searches
    BY AnswerType, NetType DEF IInv
<1>1. /\ m.search \in started /\ m.messageId = messageId[m.search]
      /\ ~Processed(m.to, m.messageId)
    BY DEF IInv, IdInv, Answer
<1>2. /\ UNCHANGED <<loaded, clock, started, messageId, origin, audience>>
      /\ alreadyProcessMessageIdSet' =
            [alreadyProcessMessageIdSet EXCEPT ![m.to] = @ \cup {m.messageId}]
      /\ net' = (net \ {m}) \cup Posts(m.to, m.messageId, m.search)
    BY DEF Answer
<1>3. IdInv'
    <2>1. \A n \in net' : n.search \in started' /\ n.messageId = messageId'[n.search]
        BY <1>0, <1>1, <1>2, PostsType DEF IInv, IdInv
    <2>2. \A h \in Frames : \A id \in alreadyProcessMessageIdSet'[h] :
             \E t \in started' : messageId'[t] = id
        BY <1>0, <1>1, <1>2 DEF IInv, IdInv, TypeOK
    <2> QED
        BY <2>1, <2>2 DEF IdInv
<1>4. OnceInv'
    <2> SUFFICES ASSUME NEW g \in Frames, NEW t \in Searches
                 PROVE  \/ searched'[g][t] = 0
                        \/ searched'[g][t] = 1 /\ t \in started' /\ Processed(g, messageId[t])'
        BY DEF OnceInv
    <2>1. CASE g = m.to /\ t = m.search
        <3>1. searched[g][t] = 0
            BY <1>1, <2>1 DEF IInv, OnceInv
        <3> QED
            BY <1>0, <1>1, <1>2, <2>1, <3>1 DEF TypeOK, Answer, Searched, Processed
    <2>2. CASE ~(g = m.to /\ t = m.search)
        <3>1. searched'[g][t] = searched[g][t]
            BY <1>0, <2>2 DEF TypeOK, Answer, Searched
        <3> QED
            BY <1>0, <1>2, <3>1 DEF IInv, OnceInv, TypeOK, Processed
    <2> QED
        BY <2>1, <2>2
<1>5. AudienceInv'
    BY <1>2 DEF IInv, AudienceInv
<1>6. Frontier'
    <2> SUFFICES ASSUME NEW t \in started, NEW g \in Frames, NEW h \in Frames,
                        ~Clash(t), Adjacent(g, h), Listens(h, t), Processed(g, messageId[t])'
                 PROVE  \/ Processed(h, messageId[t])'
                        \/ [from |-> g, to |-> h, messageId |-> messageId[t], search |-> t] \in net'
        BY <1>2 DEF Frontier, Clash, Listens, Adjacent
    <2> DEFINE n == [from |-> g, to |-> h, messageId |-> messageId[t], search |-> t]
    <2>1. CASE Processed(g, messageId[t])
        <3>1. Processed(h, messageId[t]) \/ n \in net
            BY <2>1 DEF IInv, Frontier
        <3>2. n = m => Processed(h, messageId[t])'
            BY <1>0, <1>2 DEF Processed, TypeOK
        <3>3. Processed(h, messageId[t]) => Processed(h, messageId[t])'
            BY <1>0, <1>2 DEF Processed, TypeOK
        <3> QED
            BY <1>2, <3>1, <3>2, <3>3
    <2>2. CASE ~Processed(g, messageId[t])
        <3>1. g = m.to /\ messageId[t] = m.messageId
            BY <1>0, <1>2, <2>2 DEF Processed, TypeOK
        <3>2. t = m.search
            BY <1>1, <3>1 DEF Clash
        <3> QED
            BY <1>0, <1>2, <3>1, <3>2, PostsType
    <2> QED
        BY <2>1, <2>2
<1> QED
    BY <1>0, <1>3, <1>4, <1>5, <1>6 DEF IInv

\* The initial states satisfy the invariant.
LEMMA InitInv == Init => IInv
<1> SUFFICES ASSUME Init PROVE IInv
    OBVIOUS
<1>1. TypeOK
    BY MaxMsAssumption DEF Init, TypeOK, Ids
<1>2. IdInv /\ OnceInv /\ AudienceInv /\ Frontier
    BY DEF Init, IdInv, OnceInv, AudienceInv, Frontier
<1> QED
    BY <1>1, <1>2 DEF IInv

\* Every step keeps the invariant.
LEMMA NextInv == IInv /\ [Next]_vars => IInv'
<1> SUFFICES ASSUME IInv, [Next]_vars PROVE IInv'
    OBVIOUS
<1>1. CASE Tick
    BY <1>1, MaxMsAssumption DEF Tick, IInv, TypeOK, IdInv, OnceInv, AudienceInv, Frontier,
                Processed, Clash, Listens, Adjacent, history, Ids
<1>2. ASSUME NEW f \in Frames, Load(f) PROVE IInv'
    BY <1>2 DEF Load, IInv, TypeOK, IdInv, OnceInv, AudienceInv, Frontier,
                Processed, Clash, Listens, Adjacent, history
<1>3. CASE UNCHANGED vars
    BY <1>3 DEF vars, IInv, TypeOK, IdInv, OnceInv, AudienceInv, Frontier,
                Processed, Clash, Listens, Adjacent, history
<1>4. CASE Rest
    BY <1>3, <1>4 DEF Rest
<1> QED
    BY <1>1, <1>2, <1>3, <1>4, SearchInv, DropInv, AnswerInv DEF Next, Deliver
-----------------------------------------------------------------------------
\* Every state of the frames is well typed.
THEOREM TypeCorrect == Spec => []TypeOK
<1>1. IInv => TypeOK
    BY DEF IInv
<1> QED
    BY <1>1, InitInv, NextInv, PTL DEF Spec

\* The message listener: however the copies of a message travel, and with
\* whatever ids, no frame makes a search twice.
THEOREM SearchedOnce == Spec => []AtMostOnce
<1>1. IInv => AtMostOnce
    BY DEF IInv, OnceInv, AtMostOnce
<1> QED
    BY <1>1, InitInv, NextInv, PTL DEF Spec

\* The message listener: the flood of a search that shares its millisecond with
\* no other leaves no listening neighbour of a searched frame behind.
THEOREM NoGaps == Spec => []Frontier
<1>1. IInv => Frontier
    BY DEF IInv
<1> QED
    BY <1>1, InitInv, NextInv, PTL DEF Spec
=============================================================================
