-------------------------- MODULE Connection_proofs --------------------------
(***************************************************************************)
(* The send queue and the links between a Peer and its connection, for any *)
(* message sizes, limits and timeouts and every interleaving of the        *)
(* transport thread, the reactor and the other threads.                    *)
(***************************************************************************)
EXTENDS Connection, FiniteSetTheorems, FunctionTheorems, TLAPS

-----------------------------------------------------------------------------
(* What appending a message and removing the first one do to the number of *)
(* queued bytes.                                                           *)

LEMMA BytesMember ==
    ASSUME NEW q \in Seq(Nat), NEW x
    PROVE  x \in QueuedBytes(q) <=>
               \E i \in 1..Len(q) : \E k \in 1..q[i] : x = <<i, k>>
<1>1. DOMAIN q = 1..Len(q)
  OBVIOUS
<1>2. ASSUME NEW i PROVE x \in {i} \X (1..q[i]) <=> \E k \in 1..q[i] : x = <<i, k>>
  OBVIOUS
<1> QED
  BY <1>1, <1>2 DEF QueuedBytes

LEMMA MessageBytes ==
    ASSUME NEW i, NEW n \in Nat
    PROVE  /\ IsFiniteSet({i} \X (1..n))
           /\ Cardinality({i} \X (1..n)) = n
<1>1. /\ IsFiniteSet({i}) /\ Cardinality({i}) = 1
  BY FS_Singleton
<1>2. IsFiniteSet(1..n) /\ Cardinality(1..n) = n
  BY FS_Interval
<1>3. /\ IsFiniteSet({i} \X (1..n))
      /\ Cardinality({i} \X (1..n)) = Cardinality({i}) * Cardinality(1..n)
  <2> DEFINE S == {i}
             T == 1..n
  <2> HIDE DEF S, T
  <2> QED
    BY <1>1, <1>2, FS_Product DEF S, T
<1> QED
  BY <1>1, <1>2, <1>3

LEMMA NoBytes == IsFiniteSet(QueuedBytes(<<>>)) /\ Cardinality(QueuedBytes(<<>>)) = 0
<1>1. QueuedBytes(<<>>) = {}
  BY DEF QueuedBytes
<1> QED
  BY <1>1, FS_EmptySet

LEMMA AppendBytes ==
    ASSUME NEW q \in Seq(Nat), NEW n \in Nat, IsFiniteSet(QueuedBytes(q))
    PROVE  /\ IsFiniteSet(QueuedBytes(Append(q, n)))
           /\ Cardinality(QueuedBytes(Append(q, n))) = Cardinality(QueuedBytes(q)) + n
<1> DEFINE r == Append(q, n)
           last == {Len(q) + 1} \X (1..n)
<1>1. /\ r \in Seq(Nat) /\ Len(r) = Len(q) + 1 /\ r[Len(q) + 1] = n
      /\ \A i \in 1..Len(q) : r[i] = q[i]
  OBVIOUS
<1>2. QueuedBytes(r) = QueuedBytes(q) \cup last
  <2> HIDE DEF r
  <2>1. ASSUME NEW x PROVE x \in QueuedBytes(r) <=> x \in QueuedBytes(q) \/ x \in last
    <3>1. x \in last <=> \E k \in 1..n : x = <<Len(q) + 1, k>>
      OBVIOUS
    <3>2. Len(q) \in Nat
      OBVIOUS
    <3>3. x \in QueuedBytes(q) <=> \E i \in 1..Len(q) : \E k \in 1..r[i] : x = <<i, k>>
      <4>1. x \in QueuedBytes(q) <=> \E i \in 1..Len(q) : \E k \in 1..q[i] : x = <<i, k>>
        BY BytesMember
      <4>2. \A i \in 1..Len(q) : r[i] = q[i]
        BY <1>1
      <4> QED
        BY <4>1, <4>2
    <3>4. 1..Len(r) = (1..Len(q)) \cup {Len(q) + 1}
      BY <1>1, <3>2
    <3>5. x \in QueuedBytes(r) <=> \E i \in 1..Len(r) : \E k \in 1..r[i] : x = <<i, k>>
      <4>1. r \in Seq(Nat)
        BY <1>1
      <4> QED
        BY <4>1, BytesMember
    <3> HIDE DEF last
    <3> QED
      BY <1>1, <3>1, <3>3, <3>4, <3>5
  <2> QED
    BY <2>1
<1>3. QueuedBytes(q) \cap last = {}
  <2>1. ASSUME NEW x, x \in QueuedBytes(q), x \in last PROVE FALSE
    <3>1. PICK i \in 1..Len(q) : \E k \in 1..q[i] : x = <<i, k>>
      BY <2>1, BytesMember
    <3> QED
      BY <2>1, <3>1
  <2> QED
    BY <2>1
<1>4. IsFiniteSet(last) /\ Cardinality(last) = n
  BY MessageBytes
<1> HIDE DEF r, last
<1>5. /\ IsFiniteSet(QueuedBytes(r))
      /\ Cardinality(QueuedBytes(r)) =
            Cardinality(QueuedBytes(q)) + Cardinality(last) - Cardinality({})
  BY <1>2, <1>3, <1>4, FS_Union
<1>6. Cardinality({}) = 0 /\ Cardinality(QueuedBytes(q)) \in Nat
  BY FS_EmptySet, FS_CardinalityType
<1>7. Cardinality(QueuedBytes(r)) = Cardinality(QueuedBytes(q)) + n
  BY <1>4, <1>5, <1>6
<1> QED
  BY <1>5, <1>7 DEF r

LEMMA TailBytes ==
    ASSUME NEW q \in Seq(Nat), q # <<>>, IsFiniteSet(QueuedBytes(q))
    PROVE  /\ IsFiniteSet(QueuedBytes(Tail(q)))
           /\ Cardinality(QueuedBytes(q)) = Cardinality(QueuedBytes(Tail(q))) + Head(q)
<1> DEFINE r == Tail(q)
           first == {1} \X (1..q[1])
           rest == QueuedBytes(q) \ first
           f == [x \in QueuedBytes(r) |-> <<x[1] + 1, x[2]>>]
<1>1. /\ r \in Seq(Nat) /\ Len(q) \in Nat \ {0} /\ Len(r) = Len(q) - 1
      /\ \A i \in 1..Len(r) : r[i] = q[i + 1]
      /\ q[1] \in Nat /\ Head(q) = q[1]
  OBVIOUS
<1> HIDE DEF r
<1>2. first \subseteq QueuedBytes(q)
  <2>1. ASSUME NEW x \in first PROVE x \in QueuedBytes(q)
    <3>1. PICK k \in 1..q[1] : x = <<1, k>>
      OBVIOUS
    <3> QED
      BY <1>1, <3>1, BytesMember
  <2> QED
    BY <2>1
<1>3. \A x : x \in rest <=> \E i \in 2..Len(q) : \E k \in 1..q[i] : x = <<i, k>>
  <2>1. ASSUME NEW x
        PROVE  x \in rest <=> \E i \in 2..Len(q) : \E k \in 1..q[i] : x = <<i, k>>
    <3>1. x \in first <=> \E k \in 1..q[1] : x = <<1, k>>
      OBVIOUS
    <3>2. x \in rest <=> x \in QueuedBytes(q) /\ ~(x \in first)
      OBVIOUS
    <3>3. ASSUME x \in rest
          PROVE  \E i \in 2..Len(q) : \E k \in 1..q[i] : x = <<i, k>>
      <4>1. PICK i \in 1..Len(q) : \E k \in 1..q[i] : x = <<i, k>>
        BY <3>2, <3>3, BytesMember
      <4>2. i # 1
        BY <3>1, <3>2, <3>3, <4>1
      <4> QED
        BY <1>1, <4>1, <4>2
    <3>4. ASSUME \E i \in 2..Len(q) : \E k \in 1..q[i] : x = <<i, k>>
          PROVE  x \in rest
      <4>1. PICK i \in 2..Len(q) : \E k \in 1..q[i] : x = <<i, k>>
        BY <3>4
      <4>2. i \in 1..Len(q) /\ i # 1
        BY <1>1
      <4>3. x \in QueuedBytes(q)
        BY <4>1, <4>2, BytesMember
      <4>4. x \notin first
        BY <3>1, <4>1, <4>2
      <4> QED
        BY <3>2, <4>3, <4>4
    <3> QED
      BY <3>3, <3>4
  <2> QED
    BY <2>1
<1> HIDE DEF rest, first
<1>4. f \in Bijection(QueuedBytes(r), rest)
  <2>1. ASSUME NEW x \in QueuedBytes(r)
        PROVE  \E i \in 1..Len(r), k \in Nat :
                  k \in 1..q[i + 1] /\ x = <<i, k>> /\ f[x] = <<i + 1, k>>
    <3>1. PICK i \in 1..Len(r) : \E k \in 1..r[i] : x = <<i, k>>
      <4>1. r \in Seq(Nat)
        BY <1>1
      <4> HIDE DEF f
      <4> QED
        BY <4>1, BytesMember
    <3>2. PICK k \in 1..r[i] : x = <<i, k>>
      BY <3>1
    <3>3. r[i] = q[i + 1] /\ r[i] \in Nat
      BY <1>1
    <3>4. f[x] = <<i + 1, k>>
      BY <3>2
    <3> QED
      BY <3>2, <3>3, <3>4
  <2>2. f \in [QueuedBytes(r) -> rest]
    <3>1. ASSUME NEW x \in QueuedBytes(r) PROVE f[x] \in rest
      <4>1. PICK i \in 1..Len(r), k \in Nat : k \in 1..q[i + 1] /\ f[x] = <<i + 1, k>>
        BY <2>1
      <4>2. i + 1 \in 2..Len(q)
        BY <1>1
      <4> HIDE DEF f
      <4> QED
        BY <1>3, <4>1, <4>2
    <3> QED
      BY <3>1
  <2>3. ASSUME NEW x \in QueuedBytes(r), NEW y \in QueuedBytes(r), f[x] = f[y]
        PROVE  x = y
    <3>1. PICK i \in 1..Len(r), k \in Nat : x = <<i, k>> /\ f[x] = <<i + 1, k>>
      BY <2>1
    <3>2. PICK j \in 1..Len(r), l \in Nat : y = <<j, l>> /\ f[y] = <<j + 1, l>>
      BY <2>1
    <3> HIDE DEF f
    <3>3. i + 1 = j + 1 /\ k = l
      BY <2>3, <3>1, <3>2
    <3>4. i = j
      BY <3>3
    <3> QED
      BY <3>1, <3>2, <3>3, <3>4
  <2>4. ASSUME NEW y \in rest PROVE \E x \in QueuedBytes(r) : f[x] = y
    <3>1. PICK i \in 2..Len(q) : \E k \in 1..q[i] : y = <<i, k>>
      BY <1>3
    <3>2. PICK k \in 1..q[i] : y = <<i, k>>
      BY <3>1
    <3>3. i - 1 \in 1..Len(r) /\ r[i - 1] = q[i] /\ (i - 1) + 1 = i
      BY <1>1
    <3>4. <<i - 1, k>> \in QueuedBytes(r)
      BY <1>1, <3>2, <3>3, BytesMember
    <3>5. f[<<i - 1, k>>] = <<i, k>>
      BY <3>3, <3>4
    <3> QED
      BY <3>2, <3>4, <3>5
  <2> QED
    BY <2>2, <2>3, <2>4 DEF Bijection, Injection, Surjection, IsInjective
<1>5. IsFiniteSet(rest)
  BY FS_Subset DEF rest
<1>6. IsFiniteSet(QueuedBytes(r)) /\ Cardinality(QueuedBytes(r)) = Cardinality(rest)
  <2>1. ExistsBijection(QueuedBytes(r), rest)
    BY <1>4 DEF ExistsBijection
  <2>2. ExistsBijection(rest, QueuedBytes(r))
    BY <2>1, Fun_ExistsBijSymmetric
  <2> QED
    BY <1>5, <2>2, FS_Bijection
<1>7. IsFiniteSet(first) /\ Cardinality(first) = q[1]
  BY <1>1, MessageBytes DEF first
<1>8. QueuedBytes(q) = rest \cup first /\ rest \cap first = {}
  BY <1>2 DEF rest
<1>9. Cardinality(QueuedBytes(q)) = Cardinality(rest) + q[1]
  <2>1. Cardinality(QueuedBytes(q)) = Cardinality(rest) + Cardinality(first) - Cardinality({})
    BY <1>5, <1>7, <1>8, FS_Union
  <2>2. Cardinality({}) = 0 /\ Cardinality(rest) \in Nat
    BY <1>5, FS_EmptySet, FS_CardinalityType
  <2> QED
    BY <1>1, <1>7, <2>1, <2>2
<1> QED
  BY <1>1, <1>6, <1>9 DEF r

-----------------------------------------------------------------------------
(* The send queue.  The message being written is the first of the queue    *)
(* until its completion; nothing is queued before the socket is connected. *)

\* The count is exact as long as no completion popped an empty queue; one that
\* did has left a closed connection behind.
Counted ==
    /\ bytes = Cardinality(QueuedBytes(queue))
    /\ bytes <= DEFAULT_SEND_QUEUE_SIZE
    /\ writing => write # "none" /\ queue # <<>>

SendInv ==
    /\ open \in BOOLEAN /\ writing \in BOOLEAN
    /\ queue \in Seq(Sizes) /\ bytes \in 0..SIZE_MAX
    /\ IsFiniteSet(QueuedBytes(queue))
    /\ fault \in {"none", "relock"} => Counted
    /\ fault = "corrupt" => ~open /\ ~writing /\ write = "none"
    /\ NoLostWriteTrigger
    /\ open /\ write # "none" => writing
    /\ starting = "connecting" =>
          /\ ~open /\ queue = <<>> /\ ~writing /\ write = "none"
          /\ past = {} /\ fault # "corrupt"

\* Nobody else starts to connect.
StartingOnward == starting' = "connecting" => starting = "connecting"

LEMMA SizesNat == Sizes \subseteq Nat /\ \A q \in Seq(Sizes) : q \in Seq(Nat)
<1>1. Sizes \subseteq Nat
  BY ConnectionAssumption
<1>2. ASSUME NEW q \in Seq(Sizes) PROVE q \in Seq(Nat)
  <2>1. Len(q) \in Nat /\ q \in [1..Len(q) -> Sizes]
    OBVIOUS
  <2>2. q \in [1..Len(q) -> Nat]
    BY <1>1, <2>1
  <2> QED
    BY <2>1, <2>2
<1> QED
  BY <1>1, <1>2

LEMMA Limits ==
    /\ SIZE_MAX \in Nat /\ DEFAULT_SEND_QUEUE_SIZE \in Nat
    /\ \A size \in Sizes : size \in Nat /\ DEFAULT_SEND_QUEUE_SIZE + size <= SIZE_MAX
  BY ConnectionAssumption, SizesNat

\* A step that leaves the connection's send side alone.
LEMMA QuietKeepsSend ==
    ASSUME SendInv, UNCHANGED <<open, sendVars, writeVars>>, StartingOnward,
           past' \subseteq past \/ open,
           fault' = fault \/ fault' = "crash"
    PROVE  SendInv'
<1>1. starting' = "connecting" => past' = {}
  BY DEF SendInv, StartingOnward
<1> QED
  BY <1>1 DEF SendInv, Counted, sendVars, writeVars, StartingOnward,
     NoLostWriteTrigger, QueuedBytes

\* close() of an open connection.
LEMMA EmptyQueueKeepsSend ==
    ASSUME SendInv, open, UNCHANGED <<past, fault>>, StartingOnward,
           open' = FALSE, queue' = <<>>, bytes' = 0, writing' = FALSE
    PROVE  SendInv'
<1>1. 0 \in 0..SIZE_MAX /\ 0 <= DEFAULT_SEND_QUEUE_SIZE /\ <<>> \in Seq(Sizes)
  BY Limits
<1>2. IsFiniteSet(QueuedBytes(queue')) /\ bytes' = Cardinality(QueuedBytes(queue'))
  BY NoBytes
<1>3. starting # "connecting" /\ fault # "corrupt"
  BY DEF SendInv
<1> QED
  BY <1>1, <1>2, <1>3 DEF SendInv, Counted, NoLostWriteTrigger, StartingOnward

\* The test of open_ changes nothing on the send side.
LEMMA SendKeepsSend ==
    ASSUME SendInv, NEW thread, SendMessage(thread), UNCHANGED <<writeVars, fault>>,
           StartingOnward
    PROVE  SendInv'
<1>1. UNCHANGED <<open, sendVars>> /\ (past' \subseteq past \/ open)
  BY DEF SendMessage, SendOnClosed, SendOnOpen
<1> QED
  BY <1>1, QuietKeepsSend

\* The locked part, whether or not the connection was closed since the test.
LEMMA LockedKeepsSend ==
    ASSUME SendInv, NEW thread \in Threads, SendLocked(thread)
    PROVE  SendInv'
<1>1. /\ thread \in past /\ past' \subseteq past /\ UNCHANGED <<starting, writing, write>>
      /\ fault \notin {"relock", "crash"}
  BY DEF SendLocked, writeVars
<1>2. starting # "connecting"
  BY <1>1 DEF SendInv
<1>3. CASE fault' = "crash" /\ UNCHANGED <<open, sendVars>>
  BY <1>1, <1>3, QuietKeepsSend DEF StartingOnward, writeVars
<1>4. ASSUME NEW size \in Sizes, SendOverflow(size), fault' = fault
      PROVE  SendInv'
  BY <1>1, <1>2, <1>4 DEF SendOverflow, SendInv, Counted, NoLostWriteTrigger, QueuedBytes
<1>5. ASSUME NEW size \in Sizes, SendQueued(size), fault' = fault
      PROVE  SendInv'
  <2>1. /\ queue' = Append(queue, size) /\ bytes' = SizeT(bytes + size)
        /\ open' = open /\ "write" \in posted'
        /\ SizeT(bytes + size) <= DEFAULT_SEND_QUEUE_SIZE
    BY <1>5 DEF SendQueued
  <2>2. queue \in Seq(Nat) /\ size \in Nat /\ queue' \in Seq(Sizes)
    BY <2>1, SizesNat DEF SendInv
  <2>3. IsFiniteSet(QueuedBytes(queue)) /\ bytes \in 0..SIZE_MAX
    BY DEF SendInv
  <2>4. /\ IsFiniteSet(QueuedBytes(queue'))
        /\ Cardinality(QueuedBytes(queue')) = Cardinality(QueuedBytes(queue)) + size
    BY <2>1, <2>2, <2>3, AppendBytes
  <2>5. bytes' \in 0..SIZE_MAX /\ bytes' <= DEFAULT_SEND_QUEUE_SIZE
    BY <2>1, <2>2, <2>3, Limits DEF SizeT
  <2>6. queue' # <<>>
    BY <2>1, <2>2
  <2>7. ASSUME fault = "none" PROVE Counted'
    <3>1. bytes = Cardinality(QueuedBytes(queue)) /\ bytes <= DEFAULT_SEND_QUEUE_SIZE
      BY <2>7 DEF SendInv, Counted
    <3>2. bytes' = bytes + size
      BY <2>1, <2>2, <2>3, <3>1, Limits DEF SizeT
    <3>3. bytes' = Cardinality(QueuedBytes(queue'))
      BY <2>4, <3>1, <3>2
    <3> QED
      BY <1>1, <2>5, <2>6, <2>7, <3>3 DEF SendInv, Counted
  <2>8. fault = "corrupt" => ~open' /\ ~writing' /\ write' = "none"
    BY <1>1, <2>1 DEF SendInv
  <2>9. writing' \in BOOLEAN /\ open' \in BOOLEAN
    BY <1>1, <2>1 DEF SendInv
  <2> QED
    BY <1>1, <1>2, <1>5, <2>1, <2>2, <2>4, <2>5, <2>7, <2>8, <2>9
    DEF SendInv, NoLostWriteTrigger
<1> QED
  BY <1>3, <1>4, <1>5 DEF SendLocked

LEMMA CloseKeepsSend ==
    ASSUME SendInv, Close, UNCHANGED <<posted, past, fault>>, StartingOnward
    PROVE  SendInv'
<1>1. CASE open
  BY <1>1, EmptyQueueKeepsSend DEF Close
<1>2. CASE ~open
  BY <1>2, QuietKeepsSend DEF Close, sendVars, writeVars
<1> QED
  BY <1>1, <1>2

LEMMA DisconnectKeepsSend ==
    ASSUME SendInv, DoDisconnect, UNCHANGED <<posted, past, fault>>, StartingOnward
    PROVE  SendInv'
<1>1. CASE UNCHANGED <<open, queue, bytes, writeVars>>
  BY <1>1, QuietKeepsSend DEF sendVars
<1>2. CASE Close
  BY <1>2, CloseKeepsSend
<1> QED
  BY <1>1, <1>2 DEF DoDisconnect

LEMMA WriteKeepsSend ==
    ASSUME SendInv,
           DoWrite \/ WriteDone \/ WriteError \/ \E r \in {"done", "error"} : WriteFinishes(r)
    PROVE  SendInv'
<1>1. CASE DoWrite
  <2>1. /\ UNCHANGED <<open, queue, bytes, starting, past, fault>>
        /\ IF open /\ ~writing /\ queue # <<>>
           THEN writing' = TRUE /\ write' = "pending"
           ELSE UNCHANGED <<writing, write>>
    BY <1>1 DEF DoWrite, peerVars, writeVars
  <2> QED
    BY <2>1 DEF SendInv, Counted, NoLostWriteTrigger, QueuedBytes
<1>2. CASE WriteDone
  <2>1. /\ UNCHANGED <<open, starting, past>> /\ writing' = FALSE /\ write' = "none"
        /\ write = "done" /\ fault \in {"none", "corrupt"}
    BY <1>2 DEF WriteDone, peerVars, TransportIdle, Transport
  <2>2. fault = "none" /\ Counted /\ starting # "connecting"
    BY <2>1 DEF SendInv
  <2>3. CASE queue = <<>>
    <3>1. ~open
      BY <2>1, <2>2, <2>3 DEF SendInv, Counted
    <3>2. fault' \in {"crash", "corrupt"} /\ queue' = queue /\ bytes' \in 0..SIZE_MAX
      BY <1>2, <2>3 DEF WriteDone, PopEmpty, sendVars, SendInv
    <3> QED
      BY <2>1, <2>2, <3>1, <3>2 DEF SendInv, NoLostWriteTrigger, QueuedBytes
  <2>4. CASE queue # <<>>
    <3>1. /\ queue' = Tail(queue) /\ bytes' = bytes - Head(queue) /\ fault' = fault
          /\ queue' # <<>> => "write" \in posted'
      BY <1>2, <2>4 DEF WriteDone
    <3>2. queue \in Seq(Nat) /\ queue' \in Seq(Sizes) /\ Head(queue) \in Nat
      BY <2>4, <3>1, SizesNat DEF SendInv
    <3>3. IsFiniteSet(QueuedBytes(queue)) /\ bytes = Cardinality(QueuedBytes(queue))
      BY <2>2 DEF SendInv, Counted
    <3>4. /\ IsFiniteSet(QueuedBytes(Tail(queue)))
          /\ bytes = Cardinality(QueuedBytes(Tail(queue))) + Head(queue)
      BY <2>4, <3>2, <3>3, TailBytes
    <3>5. Cardinality(QueuedBytes(Tail(queue))) \in Nat
      BY <3>4, FS_CardinalityType
    <3>6. bytes' = Cardinality(QueuedBytes(Tail(queue)))
      BY <3>1, <3>2, <3>4, <3>5
    <3>7. bytes' \in 0..SIZE_MAX /\ bytes' <= DEFAULT_SEND_QUEUE_SIZE
      BY <2>2, <3>1, <3>2, <3>5, <3>6, Limits DEF SendInv, Counted
    <3>8. IsFiniteSet(QueuedBytes(queue')) /\ bytes' = Cardinality(QueuedBytes(queue'))
      BY <3>1, <3>4, <3>6
    <3> QED
      BY <2>1, <2>2, <3>1, <3>2, <3>7, <3>8 DEF SendInv, Counted, NoLostWriteTrigger
  <2> QED
    BY <2>3, <2>4
<1>3. CASE WriteError
  <2>1. /\ UNCHANGED <<queue, bytes, posted, starting, past>>
        /\ writing' = FALSE /\ write' = "none"
        /\ write = "error" /\ fault \in {"none", "corrupt"} /\ fault' \in {fault, "relock"}
    BY <1>3 DEF WriteError, sendVars, TransportIdle, Transport
  <2>2. open' \in BOOLEAN /\ ~open' /\ fault = "none"
    BY <1>3, <2>1 DEF WriteError, SendInv
  <2> QED
    BY <2>1, <2>2 DEF SendInv, Counted, NoLostWriteTrigger, QueuedBytes
<1>4. CASE \E r \in {"done", "error"} : WriteFinishes(r)
  <2>1. /\ UNCHANGED <<open, queue, bytes, posted, writing, starting, past, fault>>
        /\ write = "pending" /\ write' # "none"
    BY <1>4 DEF WriteFinishes, peerVars, sendVars
  <2> QED
    BY <2>1 DEF SendInv, Counted, NoLostWriteTrigger, QueuedBytes
<1> QED
  BY <1>1, <1>2, <1>3, <1>4

LEMMA SendInit == Init => SendInv
<1> SUFFICES ASSUME Init PROVE SendInv
  OBVIOUS
<1>1. /\ queue = <<>> /\ bytes = 0 /\ writing = FALSE /\ open \in BOOLEAN
      /\ write = "none" /\ past = {} /\ fault = "none"
      /\ starting = "connecting" => ~open
  BY DEF Init
<1>2. 0 \in 0..SIZE_MAX /\ 0 <= DEFAULT_SEND_QUEUE_SIZE /\ <<>> \in Seq(Sizes)
  BY Limits
<1> QED
  BY <1>1, <1>2, NoBytes DEF SendInv, Counted, NoLostWriteTrigger

LEMMA SendStep == SendInv /\ [Next]_vars => SendInv'
<1> SUFFICES ASSUME SendInv, [Next]_vars PROVE SendInv'
  OBVIOUS
<1>1. ASSUME NEW ok \in BOOLEAN, Connected(ok) PROVE SendInv'
  <2>1. /\ starting = "connecting" /\ starting' # "connecting" /\ open' = ok
        /\ UNCHANGED <<queue, bytes, posted, writing, write, past, fault>>
    BY <1>1 DEF Connected, sendVars, writeVars
  <2> QED
    BY <2>1 DEF SendInv, Counted, NoLostWriteTrigger, QueuedBytes
<1>2. ASSUME /\ StartInbound \/ StartReading \/ ReceiveGarbled
                \/ (\E self \in BOOLEAN : ReceiveViolation(self))
                \/ ReceiveVersion \/ HandleVerack \/ HandleFeelerVerack
                \/ HandlePong \/ ReceiveIgnored \/ VersionSent \/ ReceiveChunk
                \/ StartOutbound \/ StartVersionSent \/ DisconnectRequested
      PROVE  SendInv'
  <2>1. /\ UNCHANGED <<open, sendVars, writeVars, past>> /\ StartingOnward
        /\ fault' = fault \/ fault' = "crash"
    <3>1. CASE StartInbound \/ StartReading \/ StartOutbound \/ StartVersionSent
      BY <3>1 DEF StartInbound, StartReading, StartOutbound, StartVersionSent, StartingOnward
    <3>2. CASE ReceiveGarbled \/ ReceiveVersion \/ HandleVerack \/ HandleFeelerVerack
               \/ \E self \in BOOLEAN : ReceiveViolation(self)
      BY <3>2 DEF ReceiveGarbled, ReceiveViolation, ReceiveVersion, HandleVerack,
           HandleFeelerVerack, StartingOnward
    <3>3. CASE HandlePong \/ ReceiveIgnored \/ VersionSent \/ ReceiveChunk \/ DisconnectRequested
      BY <3>3 DEF HandlePong, ReceiveIgnored, VersionSent, ReceiveChunk,
           DisconnectRequested, StartingOnward, peerVars
    <3> QED
      BY <1>2, <3>1, <3>2, <3>3
  <2> QED
    BY <2>1, QuietKeepsSend
<1>3. ASSUME SendVersion \/ SendVerack \/ SendGetAddr \/ ReceiveAnswered
             \/ StartSendVersion \/ PingTimerSends
             \/ \E thread \in {"reactor", "other"} : Announce(thread)
      PROVE  SendInv'
  <2>1. /\ \E thread \in Threads : SendMessage(thread)
        /\ UNCHANGED <<writeVars, fault>> /\ StartingOnward
    BY <1>3 DEF SendVersion, SendVerack, SendGetAddr, ReceiveAnswered,
         StartSendVersion, Announce, PingTimerSends, StartingOnward, Threads
  <2> QED
    BY <2>1, SendKeepsSend
<1>4. ASSUME HandshakeTimeout \/ PingTimerWaits \/ InactivityTimer \/ RunPostedDisconnect
      PROVE  SendInv'
  <2>1. /\ DoDisconnect \/ UNCHANGED <<open, queue, bytes, writeVars>>
        /\ UNCHANGED <<posted, past, fault>> /\ StartingOnward
    BY <1>4 DEF HandshakeTimeout, PingTimerWaits, InactivityTimer,
         RunPostedDisconnect, StartingOnward
  <2> QED
    BY <2>1, DisconnectKeepsSend, QuietKeepsSend DEF sendVars
<1>5. CASE ReadError
  BY <1>5, CloseKeepsSend DEF ReadError, StartingOnward
<1>6. CASE RunOverflow
  <2>1. UNCHANGED <<open, queue, bytes, writing, write, starting, past, fault>>
        /\ ("write" \in posted => "write" \in posted')
    BY <1>6 DEF RunOverflow, writeVars
  <2> QED
    BY <2>1 DEF SendInv, Counted, NoLostWriteTrigger, QueuedBytes
<1>7. CASE UNCHANGED vars
  BY <1>7, QuietKeepsSend DEF vars, peerVars, StartingOnward
<1> QED
  BY <1>1, <1>2, <1>3, <1>4, <1>5, <1>6, <1>7, WriteKeepsSend, LockedKeepsSend
  DEF Next, TransportStep, MessageStep, ReactorStart

\* SendQueueAccounted: send_queue_bytes_ counts what is queued and stays within
\* its limit, for any message sizes and limit, whichever threads send, write and
\* close, until a completion pops a queue that close() emptied; a connection
\* where that happened is closed and writes nothing more.
THEOREM SendQueueAlwaysAccounted == Spec => []SendQueueAccounted
<1>1. SendInv => SendQueueAccounted
  BY DEF SendInv, Counted, SendQueueAccounted
<1> QED
  BY <1>1, SendInit, SendStep, PTL DEF Spec

\* NoLostWriteTrigger: while the connection is open, what is queued has a
\* do_write posted for it or a write under way that will post the next.
THEOREM WriteTriggerNeverLost == Spec => []NoLostWriteTrigger
<1>1. SendInv => NoLostWriteTrigger
  BY DEF SendInv
<1> QED
  BY <1>1, SendInit, SendStep, PTL DEF Spec

-----------------------------------------------------------------------------
(* The links between the peer and its connection.  A peer that has not     *)
(* been started has handled no message, so only a disconnect can have taken *)
(* its connection away.                                                    *)

NotStarted == starting \in {"connecting", "posted", "accepted", "checked"}

LinksInv ==
    /\ attached \in BOOLEAN /\ callbacks \in BOOLEAN /\ reading \in BOOLEAN
    /\ NoReferenceCycle
    /\ callbacks => attached
    /\ NotStarted => ~callbacks /\ ~reading /\ rx = 0 /\ at = "loop"
    /\ NotStarted /\ IsConnected => attached

\* A step that touches neither side's links.
LEMMA QuietKeepsLinks ==
    ASSUME LinksInv, UNCHANGED <<state, attached, callbacks>>,
           NotStarted' => NotStarted,
           reading' \in BOOLEAN,
           NotStarted' => UNCHANGED <<reading, rx, at>>
    PROVE  LinksInv'
  BY DEF LinksInv, NoReferenceCycle, IsConnected

LEMMA DisconnectKeepsLinks ==
    ASSUME LinksInv, DoDisconnect, UNCHANGED <<starting, reading, rx, at>>
    PROVE  LinksInv'
<1>1. CASE ~IsConnected
  BY <1>1, QuietKeepsLinks DEF DoDisconnect, LinksInv, NotStarted
<1>2. CASE IsConnected
  <2>1. state' = "DISCONNECTED" /\ attached' = FALSE
    BY <1>2 DEF DoDisconnect
  <2>2. callbacks' = FALSE
    <3>1. CASE attached
      BY <1>2, <3>1 DEF DoDisconnect
    <3>2. CASE ~attached
      BY <1>2, <3>2 DEF DoDisconnect, LinksInv
    <3> QED
      BY <3>1, <3>2 DEF LinksInv
  <2> QED
    BY <2>1, <2>2 DEF LinksInv, NoReferenceCycle, IsConnected, NotStarted
<1> QED
  BY <1>1, <1>2

\* The transport thread tells the peer, or has nobody to tell.
LEMMA LostKeepsLinks ==
    ASSUME LinksInv, UNCHANGED <<starting, rx, at>>, reading' \in BOOLEAN,
           reading' => reading,
           IF callbacks THEN OnTransportDisconnect
           ELSE UNCHANGED <<state, timers, attached, callbacks>>
    PROVE  LinksInv'
<1>1. CASE ~callbacks
  BY <1>1 DEF LinksInv, NoReferenceCycle, IsConnected, NotStarted
<1>2. CASE callbacks
  <2>1. IsConnected
    BY <1>2 DEF LinksInv, NoReferenceCycle, IsConnected
  <2>2. state' = "DISCONNECTED" /\ attached' = FALSE /\ callbacks' = FALSE
    BY <1>2, <2>1 DEF OnTransportDisconnect, LinksInv
  <2> QED
    BY <2>2 DEF LinksInv, NoReferenceCycle, IsConnected, NotStarted
<1> QED
  BY <1>1, <1>2 DEF LinksInv

LEMMA StartKeepsLinks ==
    ASSUME LinksInv, open \in BOOLEAN,
           \/ StartOutbound \/ StartVersionSent \/ StartInbound \/ StartReading
           \/ \E ok \in BOOLEAN : Connected(ok)
    PROVE  LinksInv'
<1>1. CASE StartOutbound
  <2>1. CASE IsConnected
    <3>1. /\ state' = "CONNECTED" /\ callbacks' = TRUE /\ reading' = open
          /\ starting' = "send" /\ attached' = attached /\ attached
      BY <1>1, <2>1 DEF StartOutbound, LinksInv, NotStarted
    <3> QED
      BY <3>1 DEF LinksInv, NoReferenceCycle, NotStarted
  <2>2. CASE ~IsConnected
    BY <1>1, <2>2, QuietKeepsLinks DEF StartOutbound, NotStarted, LinksInv
  <2> QED
    BY <2>1, <2>2
<1>2. CASE StartVersionSent
  <2>1. /\ state' = "VERSION_SENT" /\ starting' = "over"
        /\ UNCHANGED <<attached, callbacks, reading>>
    BY <1>2 DEF StartVersionSent, readVars
  <2> QED
    BY <2>1 DEF LinksInv, NoReferenceCycle, NotStarted
<1>3. CASE StartInbound \/ \E ok \in BOOLEAN : Connected(ok)
  <2>1. UNCHANGED <<state, attached, callbacks, reading, rx, at>> /\ NotStarted
    BY <1>3 DEF StartInbound, Connected, readVars, NotStarted
  <2> QED
    BY <2>1, QuietKeepsLinks DEF LinksInv
<1>4. CASE StartReading
  <2>1. starting' = "over" /\ UNCHANGED <<state, attached>>
    BY <1>4 DEF StartReading
  <2>2. CASE attached
    <3>1. callbacks' = TRUE /\ reading' = open
      BY <1>4, <2>2 DEF StartReading
    <3> QED
      BY <2>1, <2>2, <3>1 DEF LinksInv, NoReferenceCycle, NotStarted
  <2>3. CASE ~attached
    BY <1>4, <2>1, <2>3, QuietKeepsLinks DEF StartReading, NotStarted, LinksInv
  <2> QED
    BY <2>2, <2>3 DEF LinksInv
<1> QED
  BY <1>1, <1>2, <1>3, <1>4

\* A message is handled only after the start: state_ may be assigned whatever
\* became of the connection, since no value but DISCONNECTED says anything.
LEMMA MessageKeepsLinks ==
    ASSUME LinksInv, open \in BOOLEAN,
           MessageStep \/ SendVersion \/ VersionSent \/ SendVerack \/ SendGetAddr
    PROVE  LinksInv'
<1>1. /\ ~NotStarted /\ starting' = starting /\ UNCHANGED <<attached, callbacks>>
      /\ state' # "DISCONNECTED" \/ state' = state
      /\ reading' \in BOOLEAN
  <2>1. CASE MessageStep
    BY <2>1 DEF MessageStep, ReceiveGarbled, ReceiveViolation, ReceiveVersion,
         HandleVerack, HandleFeelerVerack, HandlePong, ReceiveAnswered,
         ReceiveIgnored, InLoop, Consume, peerVars, LinksInv
  <2>2. CASE SendVersion \/ VersionSent \/ SendVerack \/ SendGetAddr
    BY <2>2 DEF SendVersion, VersionSent, SendVerack, SendGetAddr, LinksInv
  <2> QED
    BY <2>1, <2>2
<1> QED
  BY <1>1 DEF LinksInv, NoReferenceCycle, NotStarted

LEMMA LinksInit == Init => LinksInv
  BY DEF Init, LinksInv, NoReferenceCycle, NotStarted, IsConnected

LEMMA LinksStep == SendInv /\ LinksInv /\ [Next]_vars => LinksInv'
<1> SUFFICES ASSUME SendInv, LinksInv, [Next]_vars PROVE LinksInv'
  OBVIOUS
<1>1. open \in BOOLEAN
  BY DEF SendInv
<1>2. ASSUME \/ ReceiveChunk \/ DoWrite \/ WriteDone
             \/ (\E r \in {"done", "error"} : WriteFinishes(r))
             \/ StartSendVersion \/ PingTimerSends \/ DisconnectRequested
             \/ (\E thread \in {"reactor", "other"} : Announce(thread))
             \/ (\E thread \in Threads : SendLocked(thread)) \/ UNCHANGED vars
      PROVE  LinksInv'
  <2>1. UNCHANGED <<state, attached, callbacks, reading>> /\ (NotStarted' => NotStarted)
    BY <1>2 DEF ReceiveChunk, DoWrite, WriteDone, WriteFinishes, StartSendVersion,
         PingTimerSends, DisconnectRequested, Announce, SendLocked, vars, peerVars, readVars,
         NotStarted
  <2>2. NotStarted' => UNCHANGED <<rx, at>>
    BY <1>2 DEF ReceiveChunk, DoWrite, WriteDone, WriteFinishes, StartSendVersion,
         PingTimerSends, DisconnectRequested, Announce, SendLocked, vars, peerVars, readVars,
         NotStarted, LinksInv
  <2> QED
    BY <2>1, <2>2, QuietKeepsLinks DEF LinksInv
<1>3. ASSUME HandshakeTimeout \/ PingTimerWaits \/ InactivityTimer \/ RunPostedDisconnect
      PROVE  LinksInv'
  <2>1. /\ DoDisconnect \/ UNCHANGED <<state, attached, callbacks>>
        /\ UNCHANGED <<starting, reading, rx, at>>
    BY <1>3 DEF HandshakeTimeout, PingTimerWaits, InactivityTimer, RunPostedDisconnect
  <2> QED
    BY <2>1, DisconnectKeepsLinks, QuietKeepsLinks DEF NotStarted, LinksInv
<1>4. CASE ReadError
  BY <1>4, LostKeepsLinks DEF ReadError
<1>5. CASE RunOverflow
  BY <1>5, LostKeepsLinks DEF RunOverflow, LinksInv
<1>6. CASE WriteError
  <2>1. CASE open
    <3>1. callbacks' = FALSE /\ UNCHANGED <<state, attached, starting, reading, rx, at>>
      BY <1>6, <2>1 DEF WriteError
    <3> QED
      BY <3>1 DEF LinksInv, NoReferenceCycle, IsConnected, NotStarted
  <2>2. CASE ~open
    BY <1>6, <2>2, LostKeepsLinks DEF WriteError, LinksInv
  <2> QED
    BY <1>1, <2>1, <2>2
<1> QED
  BY <1>1, <1>2, <1>3, <1>4, <1>5, <1>6, StartKeepsLinks, MessageKeepsLinks
  DEF Next, TransportStep, ReactorStart

\* NoReferenceCycle: once a peer is DISCONNECTED neither it nor its connection
\* refers to the other, whichever of the two threads disconnected it and
\* wherever start() and the handshake were.
THEOREM NeverReferenceCycle == Spec => []NoReferenceCycle
<1>1. SendInv /\ LinksInv => NoReferenceCycle
  BY DEF LinksInv
<1>2. Init => SendInv /\ LinksInv
  BY SendInit, LinksInit
<1>3. SendInv /\ LinksInv /\ [Next]_vars => (SendInv /\ LinksInv)'
  BY SendStep, LinksStep
<1> QED
  BY <1>1, <1>2, <1>3, PTL DEF Spec

-----------------------------------------------------------------------------
(* Types.  The counters stay in bounds because the timers disconnect.      *)

PeerTypes ==
    /\ type \in ConnectionTypes
    /\ state \in {"CONNECTING", "CONNECTED", "VERSION_SENT", "READY",
                  "DISCONNECTED"}
    /\ version \in BOOLEAN /\ verack \in BOOLEAN /\ closing \in BOOLEAN
    /\ timers \subseteq Timers
    /\ starting \in {"connecting", "posted", "accepted", "checked", "send",
                     "sent", "over"}

CounterTypes ==
    /\ ping \in 0..(PING_TIMEOUT + 2) /\ idle \in 0..(INACTIVITY_TIMEOUT + 1)
    /\ chunks \in 0..MaxChunks /\ rx \in 0..MaxChunk

PlaceTypes ==
    /\ write \in {"none", "pending", "done", "error"}
    /\ posted \subseteq {"write", "overflow"}
    /\ at \in {"loop", "version", "version_sent", "verack", "getaddr"}
    /\ past \subseteq Threads
    /\ fault \in {"none", "relock", "corrupt", "crash"}

ConnectionInv == SendInv /\ LinksInv /\ PeerTypes /\ CounterTypes /\ PlaceTypes

LEMMA TypesParts == ConnectionInv => TypeOK
  BY DEF ConnectionInv, SendInv, Counted, LinksInv, PeerTypes, CounterTypes, PlaceTypes, TypeOK

LEMMA ConnectionInit == Init => ConnectionInv
<1> SUFFICES ASSUME Init PROVE ConnectionInv
  OBVIOUS
<1>1. PeerTypes /\ PlaceTypes
  BY DEF Init, PeerTypes, PlaceTypes
<1>2. CounterTypes
  BY ConnectionAssumption DEF Init, CounterTypes
<1> QED
  BY <1>1, <1>2, SendInit, LinksInit DEF ConnectionInv

LEMMA PeerTypesStep ==
    ASSUME ConnectionInv, [Next]_vars
    PROVE  PeerTypes'
<1>1. PeerTypes /\ LinksInv
  BY DEF ConnectionInv
<1>2. ASSUME NEW thread, SendMessage(thread) PROVE closing' \in BOOLEAN
  BY <1>1, <1>2 DEF SendMessage, SendOnClosed, SendOnOpen, PeerTypes
<1>3. ASSUME DoDisconnect PROVE state' \in {state, "DISCONNECTED"} /\ timers' \in {timers, {}}
  BY <1>3 DEF DoDisconnect
<1>4. ASSUME OnTransportDisconnect
      PROVE  state' \in {state, "DISCONNECTED"} /\ timers' \in {timers, {}}
  BY <1>4 DEF OnTransportDisconnect
<1>5. CASE \/ \E ok \in BOOLEAN : Connected(ok)
           \/ StartInbound \/ StartReading \/ StartOutbound \/ StartVersionSent
  BY <1>1, <1>5 DEF Connected, StartInbound, StartReading, StartOutbound,
     StartVersionSent, PeerTypes, Timers
<1>6. CASE StartSendVersion \/ SendVersion \/ SendVerack \/ SendGetAddr
           \/ ReceiveAnswered \/ PingTimerSends
           \/ \E thread \in {"reactor", "other"} : Announce(thread)
  BY <1>1, <1>2, <1>6 DEF StartSendVersion, SendVersion, SendVerack, SendGetAddr,
     ReceiveAnswered, PingTimerSends, Announce, PeerTypes
<1>7. CASE ReceiveGarbled \/ ReceiveVersion \/ HandleVerack \/ HandleFeelerVerack
           \/ \E self \in BOOLEAN : ReceiveViolation(self)
  BY <1>1, <1>7 DEF ReceiveGarbled, ReceiveViolation, ReceiveVersion, HandleVerack,
     HandleFeelerVerack, PeerTypes, Timers
<1>8. CASE HandlePong \/ ReceiveIgnored \/ VersionSent \/ ReceiveChunk
           \/ DisconnectRequested \/ DoWrite \/ WriteDone
           \/ (\E r \in {"done", "error"} : WriteFinishes(r)) \/ UNCHANGED vars
  BY <1>1, <1>8 DEF HandlePong, ReceiveIgnored, VersionSent, ReceiveChunk,
     DisconnectRequested, DoWrite, WriteDone, WriteFinishes, PeerTypes, peerVars, vars
<1>9. CASE ReadError \/ RunOverflow \/ WriteError
  BY <1>1, <1>4, <1>9 DEF ReadError, RunOverflow, WriteError, PeerTypes
<1>10. CASE HandshakeTimeout \/ PingTimerWaits \/ InactivityTimer \/ RunPostedDisconnect
  BY <1>1, <1>3, <1>10 DEF HandshakeTimeout, PingTimerWaits, InactivityTimer,
     RunPostedDisconnect, PeerTypes
<1>11. CASE \E thread \in Threads : SendLocked(thread)
  BY <1>1, <1>11 DEF SendLocked, SendOverflow, SendQueued, PeerTypes
<1> QED
  BY <1>5, <1>6, <1>7, <1>8, <1>9, <1>10, <1>11
  DEF Next, TransportStep, MessageStep, ReactorStart

LEMMA CounterTypesStep ==
    ASSUME ConnectionInv, [Next]_vars
    PROVE  CounterTypes'
<1>1. CounterTypes
  BY DEF ConnectionInv
<1>2. PING_TIMEOUT \in Nat /\ INACTIVITY_TIMEOUT \in Nat /\ MaxChunk \in Nat /\ MaxChunks \in Nat
  BY ConnectionAssumption
<1>3. ASSUME NEW thread, SendMessage(thread) PROVE idle' \in {idle, 0}
  BY <1>3 DEF SendMessage
<1>4. ASSUME InLoop, Consume PROVE rx' \in 0..MaxChunk
  BY <1>1, <1>2, <1>4 DEF InLoop, Consume, CounterTypes
<1>5. CASE \/ \E ok \in BOOLEAN : Connected(ok)
           \/ StartInbound \/ StartReading \/ StartOutbound \/ StartVersionSent
           \/ VersionSent \/ DisconnectRequested \/ DoWrite \/ WriteDone \/ WriteError
           \/ (\E r \in {"done", "error"} : WriteFinishes(r))
           \/ ReadError \/ RunOverflow \/ HandshakeTimeout \/ RunPostedDisconnect
           \/ UNCHANGED vars
  <2>1. UNCHANGED <<ping, idle, chunks, rx>>
    BY <1>5 DEF Connected, StartInbound, StartReading, StartOutbound,
       StartVersionSent, VersionSent, DisconnectRequested, DoWrite, WriteDone,
       WriteError, WriteFinishes, ReadError, RunOverflow, HandshakeTimeout,
       RunPostedDisconnect, vars, peerVars, readVars
  <2> QED
    BY <1>1, <2>1 DEF CounterTypes
<1>6. CASE StartSendVersion \/ SendVersion \/ SendVerack \/ SendGetAddr
           \/ PingTimerSends \/ (\E thread \in {"reactor", "other"} : Announce(thread))
           \/ \E thread \in Threads : SendLocked(thread)
  <2>1. idle' \in {idle, 0} /\ ping' \in {ping, 1} /\ UNCHANGED <<chunks, rx>>
    BY <1>3, <1>6 DEF StartSendVersion, SendVersion, SendVerack, SendGetAddr,
       PingTimerSends, Announce, SendLocked, SendOverflow, SendQueued, readVars
  <2> QED
    BY <1>1, <1>2, <2>1 DEF CounterTypes
<1>7. CASE MessageStep
  <2>1. rx' \in 0..MaxChunk
    BY <1>2, <1>4, <1>7 DEF MessageStep, ReceiveGarbled, ReceiveViolation,
       ReceiveVersion, HandleVerack, HandleFeelerVerack, HandlePong, ReceiveAnswered,
       ReceiveIgnored
  <2>2. idle' \in {idle, 0} /\ ping' \in {ping, 0} /\ chunks' = chunks
    BY <1>3, <1>7 DEF MessageStep, ReceiveGarbled, ReceiveViolation,
       ReceiveVersion, HandleVerack, HandleFeelerVerack, HandlePong, ReceiveAnswered,
       ReceiveIgnored, peerVars
  <2> QED
    BY <1>1, <1>2, <2>1, <2>2 DEF CounterTypes
<1>8. CASE ReceiveChunk
  BY <1>1, <1>2, <1>8 DEF ReceiveChunk, CounterTypes
<1>9. CASE PingTimerWaits
  <2>1. UNCHANGED <<idle, chunks, rx>> /\ (ping' = ping \/ (ping <= PING_TIMEOUT /\ ping' = ping + 1))
    BY <1>1, <1>2, <1>9 DEF PingTimerWaits, CounterTypes
  <2> QED
    BY <1>1, <1>2, <2>1 DEF CounterTypes
<1>10. CASE InactivityTimer
  <2>1. /\ UNCHANGED <<ping, chunks, rx>>
        /\ idle' = idle \/ (idle <= INACTIVITY_TIMEOUT /\ idle' = idle + 1)
    BY <1>1, <1>2, <1>10 DEF InactivityTimer, CounterTypes
  <2> QED
    BY <1>1, <1>2, <2>1 DEF CounterTypes
<1> QED
  BY <1>5, <1>6, <1>7, <1>8, <1>9, <1>10 DEF Next, TransportStep, ReactorStart

LEMMA PlaceTypesStep ==
    ASSUME ConnectionInv, [Next]_vars
    PROVE  PlaceTypes'
<1>1. PlaceTypes
  BY DEF ConnectionInv
<1>2. ASSUME NEW thread \in Threads, SendMessage(thread)
      PROVE  posted' = posted /\ past' \subseteq Threads
  BY <1>1, <1>2 DEF SendMessage, SendOnClosed, SendOnOpen, sendVars, PlaceTypes
<1>3. ASSUME DoDisconnect \/ Close PROVE write' \in {write, "error"}
  BY <1>3 DEF DoDisconnect, Close, writeVars
<1>4. CASE \/ \E ok \in BOOLEAN : Connected(ok)
           \/ StartInbound \/ StartReading \/ StartOutbound \/ StartVersionSent
           \/ VersionSent \/ DisconnectRequested \/ ReceiveChunk \/ UNCHANGED vars
  BY <1>1, <1>4 DEF Connected, StartInbound, StartReading, StartOutbound,
     StartVersionSent, VersionSent, DisconnectRequested, ReceiveChunk, PlaceTypes,
     vars, readVars, writeVars, sendVars
<1>5. CASE StartSendVersion \/ SendVersion \/ SendVerack \/ SendGetAddr
           \/ PingTimerSends \/ ReceiveAnswered
           \/ \E thread \in {"reactor", "other"} : Announce(thread)
  <2>1. \E thread \in Threads : SendMessage(thread)
    BY <1>5 DEF StartSendVersion, SendVersion, SendVerack, SendGetAddr,
       PingTimerSends, Announce, ReceiveAnswered, Threads
  <2> QED
    BY <1>1, <1>2, <1>5, <2>1 DEF StartSendVersion, SendVersion, SendVerack,
       SendGetAddr, PingTimerSends, Announce, ReceiveAnswered, PlaceTypes, readVars,
       writeVars
<1>6. CASE ReceiveGarbled \/ ReceiveVersion \/ HandleVerack \/ HandleFeelerVerack
           \/ (\E self \in BOOLEAN : ReceiveViolation(self))
           \/ HandlePong \/ ReceiveIgnored
  BY <1>1, <1>6 DEF ReceiveGarbled, ReceiveViolation, ReceiveVersion, HandleVerack,
     HandleFeelerVerack, HandlePong, ReceiveIgnored, PlaceTypes, writeVars, sendVars
<1>7. CASE DoWrite \/ WriteDone \/ WriteError \/ RunOverflow
           \/ (\E r \in {"done", "error"} : WriteFinishes(r))
  BY <1>1, <1>7 DEF DoWrite, WriteDone, PopEmpty, WriteError, RunOverflow, WriteFinishes,
     PlaceTypes, writeVars, sendVars, readVars
<1>8. CASE ReadError \/ HandshakeTimeout \/ PingTimerWaits \/ InactivityTimer
           \/ RunPostedDisconnect
  BY <1>1, <1>3, <1>8 DEF ReadError, HandshakeTimeout, PingTimerWaits,
     InactivityTimer, RunPostedDisconnect, PlaceTypes, writeVars
<1>9. CASE \E thread \in Threads : SendLocked(thread)
  BY <1>1, <1>9 DEF SendLocked, SendOverflow, SendQueued, PlaceTypes, readVars,
     writeVars, sendVars
<1> QED
  BY <1>4, <1>5, <1>6, <1>7, <1>8, <1>9 DEF Next, TransportStep, MessageStep, ReactorStart

LEMMA ConnectionStep == ConnectionInv /\ [Next]_vars => ConnectionInv'
  BY SendStep, LinksStep, PeerTypesStep, CounterTypesStep, PlaceTypesStep DEF ConnectionInv

\* TypeOK: no counter of a connection passes its limit and no handler leaves
\* the protocol's states, for any limits and timeouts.
THEOREM ConnectionTypeCorrect == Spec => []TypeOK
  BY TypesParts, ConnectionInit, ConnectionStep, PTL DEF Spec
=============================================================================
