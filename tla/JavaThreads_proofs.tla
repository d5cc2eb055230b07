------------------------- MODULE JavaThreads_proofs -------------------------
(***************************************************************************)
(* Proofs about the two Java programs whose threads share state: the echo  *)
(* servers of EchoReactor, for any clients, workers and buffers, and the   *)
(* account of ThreadCommunication_11 (Account), for any number of drawers, *)
(* depositors and calls. The two modules share no name.                    *)
(*                                                                         *)
(* The servers answer every byte that they have read, in order. The        *)
(* argument is about the line of a client's bytes: received, on the wire,  *)
(* in the buffer of the handler. The account implements a buffer for one   *)
(* deposit, no signal is lost, and drawers and depositors never wait for   *)
(* each other.                                                             *)
(***************************************************************************)
EXTENDS EchoReactor, Account, SequenceTheorems, TLAPS

-----------------------------------------------------------------------------
(* Sequences of numbered bytes *)

\* What is read is the next bytes of the client, no more than the buffer holds.
LEMMA AvailableBytes ==
    ASSUME TypeOK, NEW c \in Clients
    PROVE  LET n == Len(Available(c)) IN
           /\ n \in Nat /\ n <= BufferSize /\ n <= sent[c] - taken[c]
           /\ Available(c) = [i \in 1..n |-> taken[c] + i]
           /\ Available(c) \in Seq(1..(taken[c] + n))
           /\ Available(c) = <<>> => taken[c] = sent[c]
<1> DEFINE n == Smaller(BufferSize, sent[c] - taken[c])
           s == Available(c)
<1>1. /\ sent[c] \in Nat /\ taken[c] \in Nat /\ taken[c] <= sent[c]
      /\ BufferSize \in Nat \ {0}
    BY SizesAssumption DEF TypeOK
<1>2. /\ n \in Nat /\ n <= BufferSize /\ n <= sent[c] - taken[c]
      /\ n = 0 => taken[c] = sent[c]
    BY <1>1 DEF Smaller
<1>3. s = [i \in 1..n |-> taken[c] + i]
    BY DEF Available
<1> HIDE DEF n, s
<1>4. \A i \in 1..n : taken[c] + i \in 1..(taken[c] + n)
    BY <1>1, <1>2
<1>5. s \in [1..n -> 1..(taken[c] + n)]
    BY <1>3, <1>4
<1>6. s \in Seq(1..(taken[c] + n))
    BY <1>2, <1>5, SeqDef
<1>7. Len(s) = n
    BY <1>2, <1>5, <1>6, LenProperties
<1>8. s = <<>> => n = 0
    BY <1>7
<1> QED BY <1>2, <1>3, <1>6, <1>7, <1>8 DEF s

\* A write moves the first bytes of the buffer to the end of the wire, as many
\* as fit, and changes nothing in the order of the bytes.
LEMMA WrittenBytes ==
    ASSUME TypeOK, NEW c \in Clients
    PROVE  LET sub == SubSeq(buffer[c], 1, Room(c)) IN
           /\ Room(c) \in 0..Len(buffer[c])
           /\ sub \in Seq(1..taken[c])
           /\ wire[c] \o sub \in Seq(1..taken[c])
           /\ Len(wire[c] \o sub) <= SocketBuffer
           /\ Unwritten(c) \in Seq(1..taken[c])
           /\ Len(Unwritten(c)) <= BufferSize
           /\ sub \o Unwritten(c) = buffer[c]
           /\ Len(wire[c]) + Len(buffer[c]) <= SocketBuffer => sub = buffer[c]
<1> DEFINE b == buffer[c]
           w == wire[c]
           n == Room(c)
           S == 1..taken[c]
           sub == SubSeq(b, 1, n)
<1>1. b \in Seq(S) /\ Len(b) <= BufferSize /\ w \in Seq(S) /\ Len(w) <= SocketBuffer
    BY DEF TypeOK
<1>2. Len(b) \in Nat /\ Len(w) \in Nat /\ SocketBuffer \in Nat /\ BufferSize \in Nat
    BY <1>1, LenProperties, SizesAssumption
<1>3. n = Smaller(Len(b), SocketBuffer - Len(w))
    BY DEF Room
<1>4. Unwritten(c) = SubSeq(b, n + 1, Len(b))
    BY DEF Unwritten
<1> HIDE DEF b, w, n, S
<1>5. n \in 0..Len(b) /\ Len(w) + n <= SocketBuffer
      /\ (Len(w) + Len(b) <= SocketBuffer => n = Len(b))
    BY <1>1, <1>2, <1>3 DEF Smaller
<1>6. \A i \in 1..Len(b) : b[i] \in S
    BY <1>1, ElementOfSeq
<1>7. sub \in Seq(S) /\ Len(sub) = n
  <2>1. \A i \in 1..n : b[i] \in S
      BY <1>2, <1>5, <1>6
  <2>2. sub \in Seq(S) /\ Len(sub) = IF 1 <= n THEN n - 1 + 1 ELSE 0
      BY <1>5, <2>1, SubSeqProperties
  <2> QED BY <2>2, <1>5
<1>8. Unwritten(c) \in Seq(S) /\ Len(Unwritten(c)) <= Len(b)
  <2>1. \A i \in (n + 1)..Len(b) : b[i] \in S
      BY <1>2, <1>5, <1>6
  <2>2. /\ SubSeq(b, n + 1, Len(b)) \in Seq(S)
        /\ Len(SubSeq(b, n + 1, Len(b))) =
              IF n + 1 <= Len(b) THEN Len(b) - (n + 1) + 1 ELSE 0
      BY <1>2, <1>5, <2>1, SubSeqProperties
  <2> QED BY <1>2, <1>4, <1>5, <2>2
<1>9. w \o sub \in Seq(S) /\ Len(w \o sub) = Len(w) + n
    BY <1>1, <1>7, ConcatProperties
<1>10. sub \o Unwritten(c) = b
  <2>1. 1 \in 1..(Len(b) + 1) /\ n \in (1 - 1)..Len(b) /\ Len(b) \in n..Len(b)
      BY <1>2, <1>5
  <2>2. sub \o SubSeq(b, n + 1, Len(b)) = SubSeq(b, 1, Len(b))
      BY <1>1, <2>1, ConcatAdjacentSubSeq
  <2> QED BY <1>1, <1>4, <2>2, SubSeqFull
<1>11. n = Len(b) => sub = b
    BY <1>1, SubSeqFull
<1>12. Len(w \o sub) <= SocketBuffer /\ Len(Unwritten(c)) <= BufferSize
    BY <1>1, <1>2, <1>5, <1>8, <1>9, LenProperties
<1>13. Len(w) + Len(b) <= SocketBuffer => sub = b
    BY <1>5, <1>11
<1> QED BY <1>5, <1>7, <1>8, <1>9, <1>10, <1>12, <1>13, Zenon DEF b, w, n, S

Numbered(n) == [i \in 1..n |-> i]
Increasing(s) == \A i, j \in 1..Len(s) : i < j => s[i] < s[j]

\* A byte that is received leaves the wire for the end of what was received.
LEMMA ReceivedByte ==
    ASSUME NEW S, NEW g \in Seq(S), NEW w \in Seq(S), w # <<>>
    PROVE  /\ Append(g, Head(w)) \in Seq(S) /\ Len(Append(g, Head(w))) = Len(g) + 1
           /\ Tail(w) \in Seq(S) /\ Len(Tail(w)) = Len(w) - 1
           /\ Append(g, Head(w)) \o Tail(w) = g \o w
<1>1. Head(w) \in S /\ Tail(w) \in Seq(S) /\ Len(Tail(w)) = Len(w) - 1
    BY HeadTailProperties
<1>2. /\ Append(g, Head(w)) \in Seq(S) /\ Len(Append(g, Head(w))) = Len(g) + 1
      /\ Append(g, Head(w)) = g \o <<Head(w)>>
    BY <1>1, AppendProperties, AppendIsConcat
<1>3. <<Head(w)>> \o Tail(w) = w
  <2>1. Len(w) \in Nat \ {0} /\ w[1] = Head(w)
      BY EmptySeq, LenProperties
  <2>2. 1 \in 1..Len(w) /\ Len(w) \in 1..Len(w)
      BY <2>1
  <2>3. SubSeq(w, 1, Len(w)) = <<w[1]>> \o SubSeq(w, 1 + 1, Len(w))
      BY <2>2, SubSeqRecursiveFirst
  <2>4. Tail(w) = SubSeq(w, 2, Len(w)) /\ SubSeq(w, 1, Len(w)) = w
      BY TailIsSubSeq, SubSeqFull
  <2> QED BY <2>1, <2>3, <2>4
<1>4. (g \o <<Head(w)>>) \o Tail(w) = g \o (<<Head(w)>> \o Tail(w))
  <2>1. <<Head(w)>> \in Seq(S)
      BY <1>1
  <2> QED BY <1>1, <2>1, ConcatAssociative
<1> QED BY <1>1, <1>2, <1>3, <1>4

\* The first bytes, followed by the next ones.
LEMMA NumberedOn ==
    ASSUME NEW t \in Nat, NEW n \in Nat
    PROVE  Numbered(t) \o [i \in 1..n |-> t + i] = Numbered(t + n)
<1> DEFINE a == Numbered(t)
           b == [i \in 1..n |-> t + i]
           l == Numbered(t + n)
<1>1. a \in [1..t -> Nat] /\ b \in [1..n -> Nat] /\ l \in [1..(t + n) -> Nat]
    BY DEF Numbered
<1>2. /\ \A i \in 1..t : a[i] = i
      /\ \A i \in 1..n : b[i] = t + i
      /\ \A i \in 1..(t + n) : l[i] = i
    BY DEF Numbered
<1> HIDE DEF a, b, l
<1>3. a \in Seq(Nat) /\ b \in Seq(Nat) /\ l \in Seq(Nat)
    BY <1>1, SeqDef
<1>4. Len(a) = t /\ Len(b) = n /\ Len(l) = t + n
    BY <1>1, <1>3, LenProperties
<1>5. /\ a \o b \in Seq(Nat) /\ Len(a \o b) = t + n
      /\ \A i \in 1..(t + n) : (a \o b)[i] = IF i <= t THEN a[i] ELSE b[i - t]
    BY <1>3, <1>4, ConcatProperties
<1>6. \A i \in 1..(t + n) : (a \o b)[i] = i
    BY <1>2, <1>5
<1>7. a \o b = l
    BY <1>2, <1>3, <1>4, <1>5, <1>6, SeqEqual
<1> QED BY <1>7 DEF a, b, l

\* Bytes in order stay so when the next ones follow.
LEMMA IncreasingOn ==
    ASSUME NEW t \in Nat, NEW n \in Nat, NEW s \in Seq(1..t), Increasing(s)
    PROVE  Increasing(s \o [i \in 1..n |-> t + i])
<1> DEFINE b == [i \in 1..n |-> t + i]
<1>1. b \in [1..n -> Nat] /\ \A i \in 1..n : b[i] = t + i
    OBVIOUS
<1> HIDE DEF b
<1>2. b \in Seq(Nat) /\ s \in Seq(Nat)
    BY <1>1, SeqDef, SeqMonotonic
<1>3. Len(b) = n /\ Len(s) \in Nat
    BY <1>1, <1>2, LenProperties
<1>4. \A i \in 1..Len(s) : s[i] \in 1..t
    BY ElementOfSeq
<1>5. /\ Len(s \o b) = Len(s) + n
      /\ \A i \in 1..(Len(s) + n) :
            (s \o b)[i] = IF i <= Len(s) THEN s[i] ELSE b[i - Len(s)]
    BY <1>2, <1>3, ConcatProperties
<1>6. SUFFICES ASSUME NEW i \in 1..(Len(s) + n), NEW j \in 1..(Len(s) + n), i < j
               PROVE  (s \o b)[i] < (s \o b)[j]
    BY <1>5 DEF Increasing, b
<1>7. CASE j <= Len(s)
    BY <1>3, <1>5, <1>6, <1>7 DEF Increasing
<1>8. CASE i <= Len(s) /\ Len(s) < j
  <2>1. (s \o b)[i] = s[i] /\ (s \o b)[j] = t + (j - Len(s))
      BY <1>1, <1>3, <1>5, <1>8
  <2>2. s[i] \in 1..t
      BY <1>3, <1>4, <1>8
  <2> QED BY <1>3, <1>8, <2>1, <2>2
<1>9. CASE Len(s) < i
  <2>1. (s \o b)[i] = t + (i - Len(s)) /\ (s \o b)[j] = t + (j - Len(s))
      BY <1>1, <1>3, <1>5, <1>6, <1>9
  <2> QED BY <1>3, <1>6, <1>9, <2>1
<1> QED BY <1>3, <1>7, <1>8, <1>9

\* The beginning of bytes in order is in order.
LEMMA IncreasingBegin ==
    ASSUME NEW t \in Nat, NEW s \in Seq(1..t), NEW r \in Seq(1..t),
           Increasing(s \o r)
    PROVE  Increasing(s)
<1>1. /\ Len(s \o r) = Len(s) + Len(r) /\ Len(s) \in Nat /\ Len(r) \in Nat
      /\ \A i \in 1..(Len(s) + Len(r)) :
            (s \o r)[i] = IF i <= Len(s) THEN s[i] ELSE r[i - Len(s)]
    BY ConcatProperties, LenProperties
<1> QED BY <1>1 DEF Increasing

\* All bytes up to some number are in order.
LEMMA NumberedIncreasing ==
    ASSUME NEW t \in Nat
    PROVE  Increasing(Numbered(t)) /\ Numbered(t) \in Seq(1..t) /\ Len(Numbered(t)) = t
<1>1. Numbered(t) \in [1..t -> 1..t] /\ \A i \in 1..t : Numbered(t)[i] = i
    BY DEF Numbered
<1>2. Numbered(t) \in Seq(1..t)
    BY <1>1, SeqDef
<1>3. Len(Numbered(t)) = t
    BY <1>1, <1>2, LenProperties
<1> QED BY <1>1, <1>2, <1>3 DEF Increasing

-----------------------------------------------------------------------------
(* The echo servers: types *)

ControlTypes ==
    /\ server \in {"single", "multi"}
    /\ alive \in [Reactors -> BOOLEAN]
    /\ selected \in [Reactors -> SUBSET (Clients \cup {Acceptor})]
    /\ registering \subseteq Clients /\ next \in 0..(NumWorkers - 1)
    /\ conn \in [Clients -> {"none", "pending", "open", "closed"}]
    /\ worker \in [Clients -> Reactors]
    /\ interest \in [Clients -> {"read", "write"}]
    /\ eof \subseteq Clients /\ reset \subseteq Clients
    /\ greedy \subseteq Clients /\ hasty \subseteq Clients

\* With the domains of the functions, which TypeOK leaves out.
ByteTypes ==
    /\ sent = [c \in Clients |-> sent[c]] /\ taken = [c \in Clients |-> taken[c]]
    /\ buffer = [c \in Clients |-> buffer[c]] /\ wire = [c \in Clients |-> wire[c]]
    /\ got = [c \in Clients |-> got[c]]
    /\ \A c \in Clients :
          /\ sent[c] \in 0..MaxBytes[c] /\ taken[c] \in 0..sent[c]
          /\ buffer[c] \in Seq(1..taken[c]) /\ Len(buffer[c]) <= BufferSize
          /\ wire[c] \in Seq(1..taken[c]) /\ Len(wire[c]) <= SocketBuffer
          /\ got[c] \in Seq(1..taken[c])

Types == ControlTypes /\ ByteTypes

\* Bytes that were read by then have been read later.
LEMMA Widen ==
    ASSUME NEW a \in Nat, NEW b \in Nat, a <= b, NEW s \in Seq(1..a)
    PROVE  s \in Seq(1..b)
<1>1. 1..a \subseteq 1..b
    OBVIOUS
<1> QED BY <1>1, SeqMonotonic

\* A read keeps the types of the bytes.
LEMMA TakeTypes ==
    ASSUME Types, NEW c \in Clients,
           taken' = [taken EXCEPT ![c] = @ + Len(Available(c))],
           buffer' = [buffer EXCEPT ![c] = Available(c)],
           UNCHANGED <<sent, wire, got>>
    PROVE  ByteTypes'
<1> DEFINE n == Len(Available(c))
<1>1. /\ n \in Nat /\ n <= BufferSize /\ n <= sent[c] - taken[c]
      /\ Available(c) \in Seq(1..(taken[c] + n))
    BY AvailableBytes DEF Types, ControlTypes, ByteTypes, TypeOK
<1>2. sent[c] \in Nat /\ taken[c] \in Nat /\ taken[c] + n \in 0..sent[c]
    BY <1>1, SizesAssumption DEF Types, ByteTypes
<1>3. wire[c] \in Seq(1..(taken[c] + n)) /\ got[c] \in Seq(1..(taken[c] + n))
  <2>1. wire[c] \in Seq(1..taken[c]) /\ got[c] \in Seq(1..taken[c])
      BY DEF Types, ByteTypes
  <2>2. taken[c] \in Nat /\ taken[c] + n \in Nat /\ taken[c] <= taken[c] + n
      BY <1>1, <1>2
  <2> QED BY <2>1, <2>2, Widen
<1>4. taken'[c] = taken[c] + n /\ buffer'[c] = Available(c)
    BY DEF Types, ByteTypes
<1>5. \A d \in Clients \ {c} : taken'[d] = taken[d] /\ buffer'[d] = buffer[d]
    BY DEF Types, ByteTypes
<1> HIDE DEF n
<1>6. \A d \in Clients : /\ sent'[d] \in 0..MaxBytes[d] /\ taken'[d] \in 0..sent'[d]
          /\ buffer'[d] \in Seq(1..taken'[d]) /\ Len(buffer'[d]) <= BufferSize
          /\ wire'[d] \in Seq(1..taken'[d]) /\ Len(wire'[d]) <= SocketBuffer
          /\ got'[d] \in Seq(1..taken'[d])
  <2>1. TAKE d \in Clients
  <2>2. CASE d = c
      BY <1>1, <1>2, <1>3, <1>4, <2>2 DEF Types, ByteTypes, n
  <2>3. CASE d # c
      BY <1>5, <2>3 DEF Types, ByteTypes
  <2> QED BY <2>2, <2>3
<1>7. /\ taken' = [d \in Clients |-> taken'[d]] /\ buffer' = [d \in Clients |-> buffer'[d]]
    BY DEF Types, ByteTypes
<1> QED BY <1>6, <1>7 DEF Types, ByteTypes

\* A write keeps the types of the bytes, whether it drops the rest or not.
LEMMA PutTypes ==
    ASSUME Types, NEW c \in Clients, PutOnWire(c),
           NEW rest \in {<<>>, Unwritten(c)},
           buffer' = [buffer EXCEPT ![c] = rest],
           UNCHANGED <<sent, taken, got>>
    PROVE  ByteTypes'
<1> DEFINE out == wire[c] \o SubSeq(buffer[c], 1, Room(c))
<1>1. /\ out \in Seq(1..taken[c]) /\ Len(out) <= SocketBuffer
      /\ Unwritten(c) \in Seq(1..taken[c]) /\ Len(Unwritten(c)) <= BufferSize
    BY WrittenBytes DEF Types, ControlTypes, ByteTypes, TypeOK
<1>2. rest \in Seq(1..taken[c]) /\ Len(rest) <= BufferSize
  <2>1. CASE rest = <<>>
    <3>1. <<>> \in Seq(1..taken[c]) /\ Len(<<>>) = 0
        BY EmptySeq
    <3> QED BY <2>1, <3>1, SizesAssumption
  <2>2. CASE rest = Unwritten(c)
      BY <1>1, <2>2
  <2> QED BY <2>1, <2>2
<1>3. wire' = [wire EXCEPT ![c] = out]
    BY DEF PutOnWire
<1> HIDE DEF out
<1>4. wire'[c] = out /\ buffer'[c] = rest
    BY <1>3 DEF Types, ByteTypes
<1>5. \A d \in Clients \ {c} : wire'[d] = wire[d] /\ buffer'[d] = buffer[d]
    BY <1>3 DEF Types, ByteTypes
<1>6. \A d \in Clients : /\ sent'[d] \in 0..MaxBytes[d] /\ taken'[d] \in 0..sent'[d]
          /\ buffer'[d] \in Seq(1..taken'[d]) /\ Len(buffer'[d]) <= BufferSize
          /\ wire'[d] \in Seq(1..taken'[d]) /\ Len(wire'[d]) <= SocketBuffer
          /\ got'[d] \in Seq(1..taken'[d])
  <2>1. TAKE d \in Clients
  <2>2. CASE d = c
      BY <1>1, <1>2, <1>4, <2>2 DEF Types, ByteTypes
  <2>3. CASE d # c
      BY <1>5, <2>3 DEF Types, ByteTypes
  <2> QED BY <2>2, <2>3
<1>7. wire' = [d \in Clients |-> wire'[d]] /\ buffer' = [d \in Clients |-> buffer'[d]]
    BY <1>3 DEF Types, ByteTypes
<1> QED BY <1>6, <1>7 DEF Types, ByteTypes

\* The same for a byte that the client sends.
LEMMA SendTypes ==
    ASSUME Types, NEW c \in Clients, ClientSends(c)
    PROVE  ByteTypes'
<1>1. /\ sent' = [sent EXCEPT ![c] = @ + 1] /\ sent[c] < MaxBytes[c]
      /\ UNCHANGED <<taken, buffer, wire, got>>
    BY DEF ClientSends, handlers
<1>2. MaxBytes[c] \in Nat
    BY SizesAssumption
<1>3. \A d \in Clients : sent'[d] \in 0..MaxBytes[d] /\ taken[d] \in 0..sent'[d]
    BY <1>1, <1>2 DEF Types, ByteTypes
<1> QED BY <1>1, <1>3 DEF Types, ByteTypes

\* The same for a byte that it receives.
LEMMA ReceiveTypes ==
    ASSUME Types, NEW c \in Clients, ClientReceives(c)
    PROVE  ByteTypes'
<1>1. /\ got' = [got EXCEPT ![c] = Append(@, Head(wire[c]))]
      /\ wire' = [wire EXCEPT ![c] = Tail(@)] /\ wire[c] # <<>>
      /\ UNCHANGED <<taken, buffer, sent>>
    BY DEF ClientReceives, handlers
<1>2. /\ Append(got[c], Head(wire[c])) \in Seq(1..taken[c])
      /\ Tail(wire[c]) \in Seq(1..taken[c]) /\ Len(Tail(wire[c])) <= SocketBuffer
  <2>1. wire[c] \in Seq(1..taken[c]) /\ Len(wire[c]) <= SocketBuffer
        /\ got[c] \in Seq(1..taken[c])
      BY DEF Types, ByteTypes
  <2>2. /\ Append(got[c], Head(wire[c])) \in Seq(1..taken[c])
        /\ Tail(wire[c]) \in Seq(1..taken[c]) /\ Len(Tail(wire[c])) = Len(wire[c]) - 1
      BY <1>1, <2>1, ReceivedByte
  <2>3. Len(wire[c]) \in Nat
      BY <2>1, LenProperties
  <2> QED BY <2>1, <2>2, <2>3, SizesAssumption
<1>3. \A d \in Clients : /\ got'[d] \in Seq(1..taken[d])
                         /\ wire'[d] \in Seq(1..taken[d]) /\ Len(wire'[d]) <= SocketBuffer
  <2>1. TAKE d \in Clients
  <2>2. CASE d = c
      BY <1>1, <1>2, <2>2 DEF Types, ByteTypes
  <2>3. CASE d # c
      BY <1>1, <2>3 DEF Types, ByteTypes
  <2> QED BY <2>2, <2>3
<1> QED BY <1>1, <1>3 DEF Types, ByteTypes

\* The states that the types of threads, handlers and clients allow are closed
\* under every step.
LEMMA ControlStep ==
    ASSUME Types, [Next]_vars
    PROVE  ControlTypes'
<1> USE DEF Types, ControlTypes, Handled, threads, handlers, clients
<1>1. Boss \in Reactors /\ 0..(NumWorkers - 1) \subseteq Reactors
    BY SizesAssumption DEF Boss, Reactors
<1>2. ASSUME NEW r \in Reactors, Select(r) PROVE ControlTypes'
    BY <1>2 DEF Select
<1>3. ASSUME AssignKey PROVE ControlTypes'
    BY <1>1, <1>3, SizesAssumption DEF AssignKey
<1>4. ASSUME NEW c \in Clients, Accept(c) PROVE ControlTypes'
    BY <1>1, <1>4 DEF Accept
<1>5. ASSUME NEW c \in Clients, Read(c) PROVE ControlTypes'
    BY <1>1, <1>5 DEF Read, Serves
<1>6. ASSUME NEW c \in Clients, Write(c) PROVE ControlTypes'
    BY <1>1, <1>6 DEF Write, Serves
<1>7. ASSUME NEW c \in Clients, ServerEnds(c) PROVE ControlTypes'
    BY <1>1, <1>7 DEF ServerEnds
<1>8. ASSUME NEW c \in Clients, Register(c) PROVE ControlTypes'
    BY <1>1, <1>8 DEF Register
<1>9. ASSUME NEW w \in Reactors, NEW c \in Clients, Receive(w, c) PROVE ControlTypes'
    BY <1>9 DEF Receive
<1>10. ASSUME NEW w \in Reactors, NEW c \in Clients, ReceiveWithoutKey(w, c)
       PROVE  ControlTypes'
    BY <1>10 DEF ReceiveWithoutKey
<1>11. ASSUME NEW w \in Reactors, NEW c \in Clients, Send(w, c) PROVE ControlTypes'
    BY <1>11 DEF Send
<1>12. ASSUME NEW w \in Reactors, NEW c \in Clients, Caught(w, c) PROVE ControlTypes'
    BY <1>12 DEF Caught
<1>13. ASSUME NEW c \in Clients, Client(c) PROVE ControlTypes'
    BY <1>13 DEF Client, Connect, ClientSends, ClientReceives, ClientShutsDown,
                 ClientResets, Hasty
<1>14. CASE UNCHANGED vars
    BY <1>14 DEF vars
<1> QED BY <1>2, <1>3, <1>4, <1>5, <1>6, <1>7, <1>8, <1>9, <1>10, <1>11, <1>12,
           <1>13, <1>14 DEF Next, Reactor

\* No step takes the bytes out of their types.
LEMMA ByteStep ==
    ASSUME Types, [Next]_vars
    PROVE  ByteTypes'
<1> USE DEF threads, handlers, clients
<1>1. ASSUME UNCHANGED <<sent, taken, buffer, wire, got>> PROVE ByteTypes'
    BY <1>1 DEF Types, ByteTypes
<1>2. ASSUME NEW r \in Reactors, Reactor(r), ~UNCHANGED <<sent, taken, buffer, wire, got>>
      PROVE  \E c \in Clients : \/ Read(c) \/ Write(c) \/ Send(r, c)
                                \/ Receive(r, c) \/ ReceiveWithoutKey(r, c)
    BY <1>2 DEF Reactor, Select, AssignKey, Accept, ServerEnds, Register, Caught
<1>3. ASSUME NEW c \in Clients, Read(c) PROVE ByteTypes'
    BY <1>1, <1>3, TakeTypes DEF Read
<1>4. ASSUME NEW c \in Clients, Write(c) PROVE ByteTypes'
    BY <1>4, PutTypes DEF Write
<1>5. ASSUME NEW w \in Reactors, NEW c \in Clients, Receive(w, c) PROVE ByteTypes'
    BY <1>5, TakeTypes DEF Receive
<1>6. ASSUME NEW w \in Reactors, NEW c \in Clients, ReceiveWithoutKey(w, c)
      PROVE  ByteTypes'
    BY <1>6, TakeTypes DEF ReceiveWithoutKey
<1>7. ASSUME NEW w \in Reactors, NEW c \in Clients, Send(w, c) PROVE ByteTypes'
    BY <1>7, PutTypes DEF Send
<1>8. ASSUME NEW c \in Clients, Client(c) PROVE ByteTypes'
    BY <1>1, <1>8, SendTypes, ReceiveTypes
       DEF Client, Connect, ClientShutsDown, ClientResets
<1>9. CASE UNCHANGED vars
    BY <1>1, <1>9 DEF vars
<1> QED BY <1>1, <1>2, <1>3, <1>4, <1>5, <1>6, <1>7, <1>8, <1>9 DEF Next

\* Before the first connection.
LEMMA StartTypes == Init => Types
<1> SUFFICES ASSUME Init PROVE Types
    OBVIOUS
<1>1. ControlTypes
    BY SizesAssumption DEF Init, ControlTypes, Boss, Reactors
<1>2. ByteTypes
  <2>1. ASSUME NEW c \in Clients
        PROVE  /\ sent[c] \in 0..MaxBytes[c] /\ taken[c] \in 0..sent[c]
               /\ buffer[c] \in Seq(1..taken[c]) /\ Len(buffer[c]) <= BufferSize
               /\ wire[c] \in Seq(1..taken[c]) /\ Len(wire[c]) <= SocketBuffer
               /\ got[c] \in Seq(1..taken[c])
    <3>1. <<>> \in Seq(1..taken[c]) /\ Len(<<>>) = 0
        BY EmptySeq
    <3>2. MaxBytes[c] \in Nat
        BY SizesAssumption
    <3> QED BY <3>1, <3>2, SizesAssumption DEF Init
  <2> QED BY <2>1 DEF Init, ByteTypes
<1> QED BY <1>1, <1>2 DEF Types

\* Every state of the echo servers is well typed: a reactor that is selected
\* exists, next points to a worker, and the buffers never overflow.
THEOREM EchoTypeCorrect == Spec => []TypeOK
<1>1. Types /\ [Next]_vars => Types'
    BY ControlStep, ByteStep DEF Types
<1>2. Types => TypeOK
    BY DEF Types, ControlTypes, ByteTypes, TypeOK
<1> QED BY StartTypes, <1>1, <1>2, PTL DEF Spec

-----------------------------------------------------------------------------
(* The echo servers: no byte is lost *)

\* A selected key stays with an open connection of its reactor: a connection is
\* closed by the thread that takes its key, and given to a worker before any
\* reactor can select it.
LEMMA SelectedStep ==
    ASSUME Types, SelectedOpen, [Next]_vars
    PROVE  SelectedOpen'
<1> USE DEF Types, ControlTypes, SelectedOpen, Handled, threads, handlers, clients
<1>1. Boss \in Reactors
    BY SizesAssumption DEF Boss, Reactors
<1>2. ASSUME NEW r \in Reactors, Select(r) PROVE SelectedOpen'
    BY <1>2, AcceptorAssumption DEF Select
<1>3. ASSUME AssignKey PROVE SelectedOpen'
    BY <1>1, <1>3 DEF AssignKey
<1>4. ASSUME NEW c \in Clients, Accept(c) PROVE SelectedOpen'
    BY <1>1, <1>4 DEF Accept
<1>5. ASSUME NEW c \in Clients, Read(c) PROVE SelectedOpen'
    BY <1>1, <1>5 DEF Read, Serves
<1>6. ASSUME NEW c \in Clients, Write(c) PROVE SelectedOpen'
    BY <1>1, <1>6 DEF Write, Serves
<1>7. ASSUME NEW c \in Clients, ServerEnds(c) PROVE SelectedOpen'
    BY <1>1, <1>7 DEF ServerEnds
<1>8. ASSUME NEW c \in Clients, Register(c) PROVE SelectedOpen'
    BY <1>8 DEF Register
<1>9. ASSUME NEW w \in Reactors, NEW c \in Clients, Receive(w, c) PROVE SelectedOpen'
    BY <1>9 DEF Receive
<1>10. ASSUME NEW w \in Reactors, NEW c \in Clients, ReceiveWithoutKey(w, c)
       PROVE  SelectedOpen'
    BY <1>10 DEF ReceiveWithoutKey
<1>11. ASSUME NEW w \in Reactors, NEW c \in Clients, Send(w, c) PROVE SelectedOpen'
    BY <1>11 DEF Send
<1>12. ASSUME NEW w \in Reactors, NEW c \in Clients, Caught(w, c) PROVE SelectedOpen'
    BY <1>12 DEF Caught
<1>13. ASSUME NEW c \in Clients, Client(c) PROVE SelectedOpen'
    BY <1>13 DEF Client, Connect, ClientSends, ClientReceives, ClientShutsDown,
                 ClientResets
<1>14. CASE UNCHANGED vars
    BY <1>14 DEF vars
<1> QED BY <1>2, <1>3, <1>4, <1>5, <1>6, <1>7, <1>8, <1>9, <1>10, <1>11, <1>12,
           <1>13, <1>14 DEF Next, Reactor

\* A handler that has its turn to read has nothing left to write.
LEMMA ReadsWhenEmpty ==
    ASSUME Types, SelectedOpen, HandlersClean, NEW c \in Clients
    PROVE  /\ \A ops : Serves(c, ops) => conn[c] = "open"
           /\ Serves(c, "read") => buffer[c] = <<>>
           /\ \A w \in Reactors : \A ops : Runs(w, c, ops) => conn[c] = "open"
           /\ \A w \in Reactors : Runs(w, c, "read") => buffer[c] = <<>>
<1>1. Boss \in Reactors
    BY SizesAssumption DEF Boss, Reactors
<1> QED BY <1>1 DEF Serves, Runs, Types, ControlTypes, SelectedOpen, HandlersClean

\* A handler turns to reading only with an empty buffer, except in the worker
\* that a missing key is about to end.
LEMMA CleanStep ==
    ASSUME Types, SelectedOpen, HandlersClean, [Next]_vars
    PROVE  HandlersClean'
<1> USE DEF Types, ControlTypes, ByteTypes, HandlersClean, threads, handlers, clients
<1>1. ASSUME UNCHANGED <<interest, buffer, server, alive, worker, conn>>
      PROVE  HandlersClean'
    BY <1>1
<1>2. ASSUME NEW r \in Reactors, Select(r) PROVE HandlersClean'
    BY <1>1, <1>2 DEF Select
<1>3. ASSUME AssignKey PROVE HandlersClean'
    BY <1>1, <1>3 DEF AssignKey
<1>4. ASSUME NEW c \in Clients, Accept(c) PROVE HandlersClean'
    BY <1>4 DEF Accept
<1>5. ASSUME NEW c \in Clients, Read(c) PROVE HandlersClean'
    BY <1>5, ReadsWhenEmpty DEF Read, Serves
<1>6. ASSUME NEW c \in Clients, Write(c) PROVE HandlersClean'
  <2>1. conn[c] = "open" /\ interest[c] = "write"
      BY <1>6, ReadsWhenEmpty DEF Write, Serves
  <2>2. /\ buffer'[c] = Unwritten(c)
        /\ interest'[c] = "read" => Unwritten(c) = <<>>
        /\ UNCHANGED <<server, alive, worker, conn>>
      BY <1>6, <2>1 DEF Write
  <2>3. \A d \in Clients \ {c} : buffer'[d] = buffer[d] /\ interest'[d] = interest[d]
      BY <1>6 DEF Write
  <2> QED BY <2>1, <2>2, <2>3
<1>7. ASSUME NEW c \in Clients, ServerEnds(c) PROVE HandlersClean'
    BY <1>7 DEF ServerEnds
<1>8. ASSUME NEW c \in Clients, Register(c) PROVE HandlersClean'
    BY <1>8 DEF Register
<1>9. ASSUME NEW w \in Reactors, NEW c \in Clients, Receive(w, c) PROVE HandlersClean'
    BY <1>9, ReadsWhenEmpty DEF Receive
<1>10. ASSUME NEW w \in Reactors, NEW c \in Clients, ReceiveWithoutKey(w, c)
       PROVE  HandlersClean'
  <2>1. worker[c] = w /\ server = "multi" /\ conn[c] = "open"
      BY <1>10 DEF ReceiveWithoutKey, Runs, SelectedOpen
  <2> QED BY <1>10, <2>1 DEF ReceiveWithoutKey
<1>11. ASSUME NEW w \in Reactors, NEW c \in Clients, Send(w, c) PROVE HandlersClean'
    BY <1>11 DEF Send
<1>12. ASSUME NEW w \in Reactors, NEW c \in Clients, Caught(w, c) PROVE HandlersClean'
    BY <1>1, <1>12 DEF Caught
<1>13. ASSUME NEW c \in Clients, Client(c) PROVE HandlersClean'
  <2>1. CASE Connect(c)
      BY <2>1 DEF Connect
  <2>2. CASE ~Connect(c)
      BY <1>1, <1>13, <2>2 DEF Client, ClientSends, ClientReceives, ClientShutsDown,
                               ClientResets
  <2> QED BY <2>1, <2>2
<1>14. CASE UNCHANGED vars
    BY <1>1, <1>14 DEF vars
<1> QED BY <1>2, <1>3, <1>4, <1>5, <1>6, <1>7, <1>8, <1>9, <1>10, <1>11, <1>12,
           <1>13, <1>14 DEF Next, Reactor

\* Who has sent more than fits is greedy from then on.
LEMMA FitStep ==
    ASSUME Types, AnswersFit, [Next]_vars
    PROVE  AnswersFit'
<1> USE DEF threads, handlers, clients
<1>1. ASSUME UNCHANGED <<sent, got, greedy>> PROVE AnswersFit'
    BY <1>1 DEF AnswersFit
<1>2. ASSUME NEW r \in Reactors, Reactor(r) PROVE UNCHANGED <<sent, got, greedy>>
    BY <1>2 DEF Reactor, Select, AssignKey, Accept, Read, Write, ServerEnds, Register,
                Receive, ReceiveWithoutKey, Send, Caught
<1>3. \A c \in Clients : sent[c] \in Nat /\ Len(got[c]) \in Nat
    BY SizesAssumption, LenProperties DEF Types, ByteTypes
<1>4. ASSUME NEW c \in Clients, ClientSends(c) PROVE AnswersFit'
  <2>1. /\ sent' = [sent EXCEPT ![c] = @ + 1] /\ UNCHANGED got
        /\ greedy' = IF sent[c] - Len(got[c]) >= SocketBuffer
                     THEN greedy \cup {c} ELSE greedy
      BY <1>4 DEF ClientSends
  <2>2. \A d \in Clients : sent'[d] = IF d = c THEN sent[c] + 1 ELSE sent[d]
      BY <2>1 DEF Types, ByteTypes
  <2>3. SUFFICES ASSUME NEW d \in Clients, d \notin greedy'
                 PROVE  sent'[d] - Len(got[d]) <= SocketBuffer
      BY <2>1 DEF AnswersFit
  <2>4. CASE d = c
      BY <1>3, <2>1, <2>2, <2>3, <2>4, SizesAssumption
  <2>5. CASE d # c
      BY <2>1, <2>2, <2>3, <2>5 DEF AnswersFit
  <2> QED BY <2>4, <2>5
<1>5. ASSUME NEW c \in Clients, ClientReceives(c) PROVE AnswersFit'
  <2>1. Len(Append(got[c], Head(wire[c]))) = Len(got[c]) + 1
      BY <1>5, ReceivedByte DEF ClientReceives, Types, ByteTypes
  <2>2. /\ got' = [got EXCEPT ![c] = Append(@, Head(wire[c]))]
        /\ UNCHANGED <<sent, greedy>>
      BY <1>5 DEF ClientReceives
  <2>3. \A d \in Clients : Len(got'[d]) = IF d = c THEN Len(got[c]) + 1 ELSE Len(got[d])
      BY <2>1, <2>2 DEF Types, ByteTypes
  <2> QED BY <1>3, <2>2, <2>3, SizesAssumption DEF AnswersFit
<1>6. ASSUME NEW c \in Clients, Client(c) PROVE AnswersFit'
    BY <1>1, <1>4, <1>5, <1>6 DEF Client, Connect, ClientShutsDown, ClientResets
<1>7. CASE UNCHANGED vars
    BY <1>1, <1>7 DEF vars
<1> QED BY <1>1, <1>2, <1>6, <1>7 DEF Next

\* What a client gets, and the bytes of it that were read and are not dropped.
Answers == [c \in Clients |-> got[c] \o wire[c]]
Lines == [c \in Clients |-> Answers[c] \o buffer[c]]

\* The clients for which NothingLost holds.
Intact ==
    {c \in Clients :
        /\ IF server = "multi" /\ c \in greedy
           THEN Increasing(Lines[c])
           ELSE Lines[c] = Numbered(taken[c])
        /\ conn[c] = "closed" => Answers[c] = Numbered(sent[c])}

\* That is what NothingLost says.
LEMMA IntactMeans == Types /\ Intact = Clients => NothingLost
BY DEF Intact, NothingLost, Lines, Answers, Answer, Numbered, Increasing

\* The bytes of one client, as sequences of numbers up to the last one read.
LEMMA LineTypes ==
    ASSUME Types, NEW c \in Clients
    PROVE  /\ taken[c] \in Nat /\ sent[c] \in Nat
           /\ got[c] \in Seq(1..taken[c]) /\ wire[c] \in Seq(1..taken[c])
           /\ buffer[c] \in Seq(1..taken[c]) /\ Answers[c] \in Seq(1..taken[c])
           /\ Lines[c] \in Seq(1..taken[c])
           /\ Len(Lines[c]) = Len(got[c]) + Len(wire[c]) + Len(buffer[c])
           /\ Len(got[c]) \in Nat /\ Len(wire[c]) \in Nat /\ Len(buffer[c]) \in Nat
<1>1. /\ taken[c] \in Nat /\ sent[c] \in Nat
      /\ got[c] \in Seq(1..taken[c]) /\ wire[c] \in Seq(1..taken[c])
      /\ buffer[c] \in Seq(1..taken[c])
    BY SizesAssumption DEF Types, ByteTypes
<1>2. Answers[c] \in Seq(1..taken[c]) /\ Len(Answers[c]) = Len(got[c]) + Len(wire[c])
    BY <1>1, ConcatProperties DEF Answers
<1>3. /\ Lines[c] \in Seq(1..taken[c])
      /\ Len(Lines[c]) = Len(Answers[c]) + Len(buffer[c])
    BY <1>1, <1>2, ConcatProperties DEF Lines
<1> QED BY <1>1, <1>2, <1>3, LenProperties

\* A step that leaves the line of a client alone leaves the client intact, even
\* if it is greedy from now on.
LEMMA LineKept ==
    ASSUME Types, Intact = Clients, UNCHANGED server, greedy \subseteq greedy',
           NEW d \in Clients, Lines'[d] = Lines[d], taken'[d] = taken[d],
           conn'[d] = "closed" =>
              conn[d] = "closed" /\ sent'[d] = sent[d] /\ Answers'[d] = Answers[d]
    PROVE  d \in Intact'
<1>1. Lines[d] = Numbered(taken[d]) => Increasing(Lines[d])
    BY LineTypes, NumberedIncreasing
<1> QED BY <1>1 DEF Intact

\* A read puts the next bytes at the end of the line.
LEMMA LineTaken ==
    ASSUME Types, Intact = Clients, NEW c \in Clients,
           buffer[c] = <<>>, conn[c] = "open",
           taken' = [taken EXCEPT ![c] = @ + Len(Available(c))],
           buffer' = [buffer EXCEPT ![c] = Available(c)],
           UNCHANGED <<server, greedy, sent, wire, got, conn>>
    PROVE  Intact' = Clients
<1> DEFINE n == Len(Available(c))
           b == [i \in 1..n |-> taken[c] + i]
<1>1. /\ n \in Nat /\ Available(c) = b
    BY AvailableBytes DEF Types, ControlTypes, ByteTypes, TypeOK
<1>2. Lines[c] = Answers[c] /\ Lines[c] \in Seq(1..taken[c]) /\ taken[c] \in Nat
    BY LineTypes, ConcatEmptySeq DEF Lines
<1>3. taken'[c] = taken[c] + n /\ Lines'[c] = Lines[c] \o b
    BY <1>1, <1>2 DEF Types, ByteTypes, Lines, Answers
<1> HIDE DEF n
<1>4. Increasing(Lines[c]) => Increasing(Lines'[c])
    BY <1>1, <1>2, <1>3, IncreasingOn
<1>5. Lines[c] = Numbered(taken[c]) => Lines'[c] = Numbered(taken'[c])
    BY <1>1, <1>2, <1>3, NumberedOn
<1>6. c \in Intact'
    BY <1>4, <1>5 DEF Intact
<1>7. ASSUME NEW d \in Clients \ {c} PROVE d \in Intact'
  <2>1. Lines'[d] = Lines[d] /\ taken'[d] = taken[d] /\ Answers'[d] = Answers[d]
      BY DEF Types, ByteTypes, Lines, Answers
  <2> QED BY <2>1, LineKept
<1> QED BY <1>6, <1>7 DEF Intact

\* A write that keeps what did not fit leaves the line as it is; one that drops
\* it leaves the beginning of the line.
LEMMA LinePut ==
    ASSUME Types, Intact = Clients, NEW c \in Clients, conn[c] = "open",
           NEW sub \in Seq(1..taken[c]), NEW left \in Seq(1..taken[c]),
           sub \o left = buffer[c],
           NEW rest, rest = left \/ (rest = <<>> /\ server = "multi" /\ c \in greedy),
           wire' = [wire EXCEPT ![c] = @ \o sub],
           buffer' = [buffer EXCEPT ![c] = rest],
           UNCHANGED <<server, greedy, sent, taken, got, conn>>
    PROVE  Intact' = Clients
<1> DEFINE S == 1..taken[c]
<1>1. rest \in Seq(S) /\ sub \in Seq(S) /\ left \in Seq(S)
    BY EmptySeq
<1>2. got[c] \in Seq(S) /\ wire[c] \in Seq(S) /\ Answers[c] \in Seq(S)
    BY LineTypes
<1>3. /\ UNCHANGED server /\ greedy \subseteq greedy' /\ taken'[c] = taken[c]
      /\ conn'[c] # "closed"
    OBVIOUS
<1> HIDE DEF S
<1>4. Lines'[c] = (got[c] \o (wire[c] \o sub)) \o rest
    BY DEF Types, ByteTypes, Lines, Answers
<1>5. Lines'[c] = Answers[c] \o (sub \o rest)
  <2>1. (got[c] \o (wire[c] \o sub)) \o rest = (got[c] \o wire[c]) \o (sub \o rest)
    <3>1. \A s, t, u \in Seq(S) : (s \o t) \o u = s \o (t \o u)
        BY ConcatAssociative
    <3>2. got[c] \o (wire[c] \o sub) = (got[c] \o wire[c]) \o sub
        BY <3>1, <1>1, <1>2, Zenon
    <3>3. got[c] \o wire[c] \in Seq(S)
        BY <1>2, ConcatProperties
    <3>4. ((got[c] \o wire[c]) \o sub) \o rest = (got[c] \o wire[c]) \o (sub \o rest)
        BY <3>1, <3>3, <1>1, Zenon
    <3> QED BY <3>2, <3>4, Zenon
  <2> QED BY <1>4, <2>1, Zenon DEF Answers
<1>6. Lines[c] = Answers[c] \o (sub \o left)
    BY Zenon DEF Lines
<1>7. ASSUME rest = left PROVE c \in Intact'
  <2>1. Lines'[c] = Lines[c]
      BY <1>5, <1>6, <1>7, Zenon
  <2> QED BY <1>3, <2>1, LineKept, Zenon
<1>8. ASSUME rest = <<>>, server = "multi", c \in greedy PROVE c \in Intact'
  <2>1. Increasing(Lines[c])
      BY <1>8 DEF Intact
  <2>2. Lines'[c] = Answers[c] \o sub
      BY <1>1, <1>5, <1>8, ConcatEmptySeq, Zenon
  <2>3. Lines[c] = (Answers[c] \o sub) \o left
    <3>1. \A s, t, u \in Seq(S) : (s \o t) \o u = s \o (t \o u)
        BY ConcatAssociative
    <3> QED BY <3>1, <1>1, <1>2, <1>6, Zenon
  <2>4. Answers[c] \o sub \in Seq(S) /\ taken[c] \in Nat
      BY <1>1, <1>2, ConcatProperties, LineTypes
  <2>5. Increasing(Answers[c] \o sub)
      BY <1>1, <2>1, <2>3, <2>4, IncreasingBegin, Zenon DEF S
  <2>6. Increasing(Lines'[c])
      BY <2>2, <2>5, Zenon
  <2>7. server' = "multi" /\ c \in greedy'
      BY <1>8
  <2> QED BY <1>3, <2>6, <2>7, Zenon DEF Intact
<1>9. c \in Intact'
    BY <1>7, <1>8
<1>10. ASSUME NEW d \in Clients \ {c} PROVE d \in Intact'
  <2>1. Lines'[d] = Lines[d] /\ Answers'[d] = Answers[d]
      BY DEF Types, ByteTypes, Lines, Answers
  <2> QED BY <2>1, LineKept
<1> QED BY <1>9, <1>10 DEF Intact

\* No step of a server or a client loses a byte or brings one out of order.
LEMMA IntactStep ==
    ASSUME Types, HandlerInv, Intact = Clients, [Next]_vars
    PROVE  Intact' = Clients
<1> USE DEF threads, handlers, clients
<1>1. ASSUME UNCHANGED <<server, sent, taken, buffer, wire, got>>,
             greedy \subseteq greedy',
             \A c \in Clients : conn'[c] = "closed" => conn[c] = "closed"
      PROVE  Intact' = Clients
  <2>1. \A d \in Clients : Lines'[d] = Lines[d] /\ Answers'[d] = Answers[d]
      BY <1>1 DEF Lines, Answers
  <2>2. \A d \in Clients : d \in Intact'
      BY <1>1, <2>1, LineKept
  <2> QED BY <2>2 DEF Intact
<1>2. ASSUME NEW r \in Reactors, Select(r) PROVE Intact' = Clients
    BY <1>1, <1>2 DEF Select
<1>3. ASSUME AssignKey PROVE Intact' = Clients
    BY <1>1, <1>3 DEF AssignKey
<1>4. ASSUME NEW c \in Clients, Accept(c) PROVE Intact' = Clients
    BY <1>1, <1>4 DEF Accept, Types, ControlTypes
<1>5. ASSUME NEW c \in Clients, Read(c) PROVE Intact' = Clients
  <2>1. buffer[c] = <<>> /\ conn[c] = "open" /\ server = "single"
      BY <1>5, ReadsWhenEmpty DEF Read, Serves, HandlerInv
  <2>2. CASE Available(c) # <<>>
      BY <1>5, <2>1, <2>2, LineTaken DEF Read
  <2>3. CASE Available(c) = <<>>
    <3>1. /\ conn' = [conn EXCEPT ![c] = "closed"]
          /\ UNCHANGED <<server, sent, taken, buffer, wire, got, greedy>>
        BY <1>5, <2>3 DEF Read
    <3>2. \A d \in Clients : Lines'[d] = Lines[d] /\ Answers'[d] = Answers[d]
        BY <3>1 DEF Lines, Answers
    <3>3. taken[c] = sent[c]
        BY <2>3, AvailableBytes DEF Types, ControlTypes, ByteTypes, TypeOK
    <3>4. Lines[c] = Answers[c]
        BY <2>1, LineTypes, ConcatEmptySeq DEF Lines
    <3>5. Lines[c] = Numbered(taken[c])
        BY <2>1 DEF Intact
    <3>6. c \in Intact'
        BY <2>1, <3>1, <3>2, <3>3, <3>4, <3>5 DEF Intact
    <3>7. ASSUME NEW d \in Clients \ {c} PROVE d \in Intact'
        BY <3>1, <3>2, LineKept DEF Types, ControlTypes
    <3> QED BY <3>6, <3>7 DEF Intact
  <2> QED BY <2>2, <2>3
<1>6. ASSUME NEW c \in Clients, Write(c) PROVE Intact' = Clients
  <2>1. conn[c] = "open"
      BY <1>6, ReadsWhenEmpty DEF Write, HandlerInv
  <2>2. /\ SubSeq(buffer[c], 1, Room(c)) \in Seq(1..taken[c])
        /\ Unwritten(c) \in Seq(1..taken[c])
        /\ SubSeq(buffer[c], 1, Room(c)) \o Unwritten(c) = buffer[c]
      BY WrittenBytes DEF Types, ControlTypes, ByteTypes, TypeOK
  <2>3. /\ wire' = [wire EXCEPT ![c] = @ \o SubSeq(buffer[c], 1, Room(c))]
        /\ buffer' = [buffer EXCEPT ![c] = Unwritten(c)]
        /\ UNCHANGED <<server, greedy, sent, taken, got, conn>>
      BY <1>6 DEF Write, PutOnWire
  <2> QED BY <2>1, <2>2, <2>3, LinePut
<1>7. ASSUME NEW c \in Clients, ServerEnds(c) PROVE Intact' = Clients
    BY <1>1, <1>7 DEF ServerEnds
<1>8. ASSUME NEW c \in Clients, Register(c) PROVE Intact' = Clients
    BY <1>1, <1>8 DEF Register, Types, ControlTypes
<1>9. ASSUME NEW w \in Reactors, NEW c \in Clients, Receive(w, c)
      PROVE  Intact' = Clients
    BY <1>9, ReadsWhenEmpty, LineTaken DEF Receive, HandlerInv
<1>10. ASSUME NEW w \in Reactors, NEW c \in Clients, ReceiveWithoutKey(w, c)
       PROVE  Intact' = Clients
    BY <1>10, ReadsWhenEmpty, LineTaken DEF ReceiveWithoutKey, HandlerInv
<1>11. ASSUME NEW w \in Reactors, NEW c \in Clients, Send(w, c)
       PROVE  Intact' = Clients
  <2>1. conn[c] = "open" /\ server = "multi"
      BY <1>11, ReadsWhenEmpty DEF Send, Runs, HandlerInv
  <2>2. /\ SubSeq(buffer[c], 1, Room(c)) \in Seq(1..taken[c])
        /\ Unwritten(c) \in Seq(1..taken[c])
        /\ SubSeq(buffer[c], 1, Room(c)) \o Unwritten(c) = buffer[c]
      BY WrittenBytes DEF Types, ControlTypes, ByteTypes, TypeOK
  <2>3. /\ wire' = [wire EXCEPT ![c] = @ \o SubSeq(buffer[c], 1, Room(c))]
        /\ buffer' = [buffer EXCEPT ![c] = <<>>]
        /\ UNCHANGED <<server, greedy, sent, taken, got, conn>>
      BY <1>11 DEF Send, PutOnWire
  <2>4. CASE c \in greedy
      BY <2>1, <2>2, <2>3, <2>4, LinePut
  <2>5. CASE c \notin greedy
    <3>1. Lines[c] = Numbered(taken[c]) /\ taken[c] \in Nat
        BY <2>5, LineTypes DEF Intact
    <3>2. taken[c] = Len(got[c]) + Len(wire[c]) + Len(buffer[c])
        BY <3>1, LineTypes, NumberedIncreasing
    <3>3. sent[c] - Len(got[c]) <= SocketBuffer /\ taken[c] <= sent[c]
        BY <2>5 DEF HandlerInv, AnswersFit, Types, ByteTypes
    <3>4. Len(wire[c]) + Len(buffer[c]) <= SocketBuffer
      <4>1. /\ taken[c] \in Nat /\ sent[c] \in Nat /\ Len(got[c]) \in Nat
            /\ Len(wire[c]) \in Nat /\ Len(buffer[c]) \in Nat /\ SocketBuffer \in Nat
          BY LineTypes, SizesAssumption
      <4>2. ASSUME NEW t \in Nat, NEW s \in Nat, NEW g \in Nat, NEW w1 \in Nat,
                   NEW b \in Nat, t = g + w1 + b, s - g <= SocketBuffer, t <= s
            PROVE  w1 + b <= SocketBuffer
          BY <4>1, <4>2
      <4> QED BY <4>1, <4>2, <3>2, <3>3
    <3>5. SubSeq(buffer[c], 1, Room(c)) = buffer[c]
        BY <3>4, WrittenBytes DEF Types, ControlTypes, ByteTypes, TypeOK
    <3>6. buffer[c] \in Seq(1..taken[c]) /\ <<>> \in Seq(1..taken[c])
        BY LineTypes, EmptySeq
    <3>7. buffer[c] \o <<>> = buffer[c]
        BY <3>6, ConcatEmptySeq
    <3> QED BY <2>1, <2>3, <3>5, <3>6, <3>7, LinePut
  <2> QED BY <2>4, <2>5
<1>12. ASSUME NEW w \in Reactors, NEW c \in Clients, Caught(w, c)
       PROVE  Intact' = Clients
    BY <1>1, <1>12 DEF Caught
<1>13. ASSUME NEW c \in Clients, ClientSends(c) PROVE Intact' = Clients
  <2>1. /\ UNCHANGED <<server, taken, buffer, wire, got, conn>>
        /\ greedy \subseteq greedy' /\ conn[c] # "closed"
        /\ sent' = [sent EXCEPT ![c] = @ + 1]
      BY <1>13 DEF ClientSends, Connected
  <2>2. \A d \in Clients : Lines'[d] = Lines[d] /\ Answers'[d] = Answers[d]
      BY <2>1 DEF Lines, Answers
  <2>3. \A d \in Clients : conn[d] = "closed" => sent'[d] = sent[d]
      BY <2>1 DEF Types, ByteTypes
  <2>4. \A d \in Clients : d \in Intact'
      BY <2>1, <2>2, <2>3, LineKept
  <2> QED BY <2>4 DEF Intact
<1>14. ASSUME NEW c \in Clients, ClientReceives(c) PROVE Intact' = Clients
  <2>1. /\ got' = [got EXCEPT ![c] = Append(@, Head(wire[c]))]
        /\ wire' = [wire EXCEPT ![c] = Tail(@)] /\ wire[c] # <<>>
        /\ UNCHANGED <<server, greedy, conn, taken, buffer, sent>>
      BY <1>14 DEF ClientReceives
  <2>2. Append(got[c], Head(wire[c])) \o Tail(wire[c]) = got[c] \o wire[c]
      BY <2>1, LineTypes, ReceivedByte
  <2>3. \A d \in Clients : Answers'[d] = Answers[d]
      BY <2>1, <2>2 DEF Types, ByteTypes, Answers
  <2>4. \A d \in Clients : Lines'[d] = Lines[d]
      BY <2>1, <2>3 DEF Lines
  <2>5. \A d \in Clients : d \in Intact'
      BY <2>1, <2>3, <2>4, LineKept
  <2> QED BY <2>5 DEF Intact
<1>15. ASSUME NEW c \in Clients, Connect(c) \/ ClientShutsDown(c) \/ ClientResets(c)
       PROVE  Intact' = Clients
    BY <1>1, <1>15 DEF Connect, ClientShutsDown, ClientResets, Types, ControlTypes
<1>16. CASE UNCHANGED vars
    BY <1>1, <1>16 DEF vars
<1> QED BY <1>2, <1>3, <1>4, <1>5, <1>6, <1>7, <1>8, <1>9, <1>10, <1>11, <1>12,
           <1>13, <1>14, <1>15, <1>16 DEF Next, Reactor, Client

\* The bytes that a server has read come back in their order, each at most once;
\* EchoServerReactor loses none of them, and closes a connection only when all
\* is answered, and MultiThreadEchoServerReactor loses none of a client that
\* leaves at most SocketBuffer bytes unanswered.
THEOREM NoByteLost == Spec => []NothingLost
<1> DEFINE Inv == Types /\ HandlerInv /\ Intact = Clients
<1>1. Init => HandlerInv
    BY SizesAssumption DEF Init, HandlerInv, SelectedOpen, HandlersClean, AnswersFit,
                           Reactors
<1>2. Init => Intact = Clients
  <2>1. SUFFICES ASSUME Init, NEW c \in Clients PROVE c \in Intact
      BY DEF Intact
  <2>2. Lines[c] = (<<>> \o <<>>) \o <<>> /\ taken[c] = 0 /\ conn[c] = "none"
      BY <2>1 DEF Init, Lines, Answers
  <2>3. (<<>> \o <<>>) \o <<>> = <<>>
      OBVIOUS
  <2>4. Numbered(0) = <<>>
      BY DEF Numbered
  <2> QED BY <2>1, <2>2, <2>3, <2>4 DEF Init, Intact
<1>3. Inv /\ [Next]_vars => Inv'
    BY ControlStep, ByteStep, SelectedStep, CleanStep, FitStep, IntactStep
       DEF HandlerInv, Types
<1>4. Inv => NothingLost
    BY IntactMeans
<1> HIDE DEF Inv
<1>5. Init => Inv
    BY <1>1, <1>2, StartTypes DEF Inv
<1> QED BY <1>3, <1>4, <1>5, PTL DEF Spec
-----------------------------------------------------------------------------
(* The account *)

BankInv == BankTypeOK /\ CallInv /\ Alternates /\ NoLostSignal

\* The invariant holds before the first call.
LEMMA BankStart == BankInit => BankInv
<1> SUFFICES ASSUME BankInit PROVE BankInv
    OBVIOUS
<1>1. BankTypeOK /\ CallInv
  <2>1. /\ state \in [Threads -> {"run", "await", "signalled"}]
        /\ calls \in [Threads -> 0 .. Calls]
        /\ moved \in [Threads -> 0 .. Calls]
    BY AmountAssumption DEF BankInit
  <2>2. balance \in Int
    BY DEF BankInit
  <2>3. flag \in BOOLEAN
    BY Zenon DEF BankInit
  <2>4. CallInv
    BY DEF BankInit, CallInv
  <2> QED BY <2>1, <2>2, <2>3, <2>4 DEF BankTypeOK
<1>2. Alternates
    BY DEF BankInit, Alternates
<1>3. NoLostSignal
    BY DEF BankInit, NoLostSignal, Threads
<1> QED BY <1>1, <1>2, <1>3 DEF BankInv

\* A call that moves money: it signals, so nobody is left awaiting.
LEMMA MoveStep ==
    ASSUME BankInv, NEW t \in Threads, InLoop(t), SignalAll, Return(t),
           moved' = [moved EXCEPT ![t] = @ + 1],
           flag' \in BOOLEAN, balance' = IF flag' THEN Amount ELSE 0
    PROVE  BankInv'
<1> USE AmountAssumption DEF BankInv, BankTypeOK, CallInv, InLoop, SignalAll, Return
<1>1. \A u \in Threads : state'[u] \in {"run", "signalled"}
    OBVIOUS
<1>2. NoLostSignal'
    BY <1>1 DEF NoLostSignal, Threads
<1>3. /\ calls' \in [Threads -> 0 .. Calls]
      /\ moved' \in [Threads -> 0 .. Calls]
    OBVIOUS
<1>4. CallInv'
    BY <1>3
<1>5. balance' \in Int /\ Alternates'
    BY DEF Alternates
<1> QED BY <1>1, <1>2, <1>3, <1>4, <1>5

\* Every step keeps the invariant.
LEMMA BankStep == BankInv /\ [BankNext]_bankVars => BankInv'
<1> SUFFICES ASSUME BankInv, [BankNext]_bankVars PROVE BankInv'
    OBVIOUS
<1>1. ASSUME NEW t \in Drawers, Draw(t) PROVE BankInv'
  <2>1. CASE ~flag /\ Await(t)
    BY <1>1, <2>1, ThreadsAssumption
       DEF Draw, InLoop, Await, BankInv, BankTypeOK, CallInv, Alternates, NoLostSignal,
           Threads
  <2>2. CASE flag /\ ~flag'
    <3>1. balance' = 0
      BY <1>1, <2>2, AmountAssumption DEF Draw, Await, BankInv, Alternates
    <3> QED BY <1>1, <2>2, <3>1, MoveStep DEF Draw, Await, Threads
  <2> QED BY <1>1, <2>1, <2>2 DEF Draw
<1>2. ASSUME NEW t \in Depositors, Deposit(t) PROVE BankInv'
  <2>1. CASE flag /\ Await(t)
    BY <1>2, <2>1, ThreadsAssumption
       DEF Deposit, InLoop, Await, BankInv, BankTypeOK, CallInv, Alternates,
           NoLostSignal, Threads
  <2>2. CASE ~flag /\ flag'
    <3>1. balance' = Amount
      <4>1. balance = 0
        BY <2>2 DEF BankInv, Alternates
      <4>2. balance' = balance + Amount
        BY <1>2, <2>2 DEF Deposit, Await
      <4> QED BY <4>1, <4>2, AmountAssumption
    <3> QED BY <1>2, <2>2, <3>1, MoveStep DEF Deposit, Await, Threads
  <2> QED BY <1>2, <2>1, <2>2 DEF Deposit
<1>3. ASSUME NEW t \in Threads, Resume(t) PROVE BankInv'
    BY <1>3, AmountAssumption
       DEF Resume, Return, BankInv, BankTypeOK, CallInv, Alternates, NoLostSignal,
           Threads
<1>4. ASSUME NEW t \in Threads, SpuriousWakeup(t) PROVE BankInv'
    BY <1>4
       DEF SpuriousWakeup, BankInv, BankTypeOK, CallInv, Alternates, NoLostSignal,
           Threads
<1>5. CASE UNCHANGED bankVars
    BY <1>5 DEF bankVars, BankInv, BankTypeOK, CallInv, Alternates, NoLostSignal
<1> QED
    BY <1>1, <1>2, <1>3, <1>4, <1>5 DEF BankNext, Step

\* When everybody has returned or awaits, flag says which side has returned.
LEMMA HaltedSides == BankInv => NoMutualWait
BY DEF BankInv, BankTypeOK, NoMutualWait, NoLostSignal, Halted, Finished, Threads

\* Every state of the account and its threads is well typed.
THEOREM AccountTypeCorrect == BankSpec => []BankTypeOK
<1>1. BankInv => BankTypeOK
    BY DEF BankInv
<1> QED BY BankStart, BankStep, <1>1, PTL DEF BankSpec

\* The account holds one deposit or nothing, and whoever awaits has a reason to.
THEOREM TurnsAreTaken == BankSpec => [](Alternates /\ NoLostSignal)
<1>1. BankInv => Alternates /\ NoLostSignal
    BY DEF BankInv
<1> QED BY BankStart, BankStep, <1>1, PTL DEF BankSpec

\* Drawers and depositors never wait for each other.
THEOREM NeverMutualWait == BankSpec => []NoMutualWait
BY BankStart, BankStep, HaltedSides, PTL DEF BankSpec

\* The account implements a buffer for one deposit, whatever the threads, their
\* signals and spurious wakeups: a draw that moves money is a Take, a deposit
\* that does is a Put, and all other steps leave the account alone.
THEOREM AccountImplements == BankSpec => TakesTurns
<1>1. BankInit => Slot!Init
    BY DEF BankInit, Slot!Init
<1>2. BankInv /\ [BankNext]_bankVars => [Slot!Next]_(Slot!vars)
  <2> SUFFICES ASSUME BankInv, [BankNext]_bankVars
               PROVE  Slot!Next \/ UNCHANGED <<balance, flag>>
      BY DEF Slot!vars
  <2>1. ASSUME NEW t \in Drawers, Draw(t)
        PROVE  Slot!Take \/ UNCHANGED <<balance, flag>>
      BY <2>1, AmountAssumption
         DEF Draw, Await, BankInv, Alternates, Slot!Take
  <2>2. ASSUME NEW t \in Depositors, Deposit(t)
        PROVE  Slot!Put \/ UNCHANGED <<balance, flag>>
      BY <2>2, AmountAssumption
         DEF Deposit, Await, BankInv, Alternates, Slot!Put
  <2>3. ASSUME NEW t \in Threads, Resume(t) \/ SpuriousWakeup(t)
        PROVE  UNCHANGED <<balance, flag>>
      BY <2>3 DEF Resume, SpuriousWakeup
  <2> QED BY <2>1, <2>2, <2>3 DEF BankNext, Step, bankVars, Slot!Next
<1> QED BY BankStart, BankStep, <1>1, <1>2, PTL DEF BankSpec, TakesTurns, Slot!Spec
=============================================================================
