------------------------- MODULE FragmentingLinkProofs -------------------------
(***************************************************************************)
(* The invariants of FragmentingLink, for every packet size and every      *)
(* number of packets.                                                      *)
(***************************************************************************)
EXTENDS FragmentingLink, SequenceTheorems, TLAPS

LEMMA BufferRange ==
    /\ Buffer = {0, 1}
    /\ \A number \in Nat : BufferOf(number) \in Buffer
    BY DEF Buffer, BufferOf, UDP_RECEPTION_BUFFER_COUNT

LEMMA NumberRange ==
    \A n \in Nat : PacketNumber(n) \in 0 .. NumberModulus - 1
    BY LinkAssumption DEF PacketNumber

------------------------------------------------------------------------------
(* Types.                                                                  *)

LEMMA TypeInit == Init => TypeOK
<1> SUFFICES ASSUME Init PROVE TypeOK
    OBVIOUS
<1>1. <<>> \in Content
  <2>1. <<>> \in [{} -> 0 .. MaxSent - 1]
    OBVIOUS
  <2> QED BY <2>1 DEF Content
<1> QED BY <1>1, LinkAssumption DEF Init, TypeOK

\* Handling a fragment keeps the types of the buffers and of what is handed on.
LEMMA TypeReceived ==
    ASSUME TypeOK, NEW f \in Fragment, FragmentReceived(f)
    PROVE  sent' \in Seq(1 .. MaxSize) /\ buffers' \in
             [Buffer -> [number : 0 .. NumberModulus - 1, size : 0 .. MaxSize,
                         blocks : Content]]
           /\ delivered' \subseteq Content
           /\ reliable' \in BOOLEAN
<1> DEFINE b == BufferOf(f.number)
           reception == Received(buffers[b], f)
           old == IF Continues(buffers[b], f) THEN DOMAIN buffers[b].blocks ELSE {}
           joined == [k \in old \cup {f.block} |->
                       IF k = f.block THEN f.content ELSE buffers[b].blocks[k]]
<1>1. b \in Buffer
    BY BufferRange, LinkAssumption DEF Fragment
<1>2. buffers[b].blocks \in Content
    BY <1>1 DEF TypeOK
<1>3. PICK held \in SUBSET (1 .. MaxSize) : buffers[b].blocks \in [held -> 0 .. MaxSent - 1]
    BY <1>2 DEF Content
<1>4. joined \in [old \cup {f.block} -> 0 .. MaxSent - 1]
    BY <1>3 DEF Fragment
<1>5. old \cup {f.block} \in SUBSET (1 .. MaxSize)
    BY <1>3 DEF Fragment
<1>6. joined \in Content
    BY <1>4, <1>5 DEF Content
<1>7. reception \in [number : 0 .. NumberModulus - 1, size : 0 .. MaxSize,
                     blocks : Content]
    BY <1>6, LinkAssumption DEF Received, Fragment
<1>8. sent' \in Seq(1 .. MaxSize)
    BY DEF FragmentReceived, TypeOK
<1>9. buffers' = [buffers EXCEPT ![b] = reception]
    BY DEF FragmentReceived
<1>10. buffers' \in [Buffer -> [number : 0 .. NumberModulus - 1, size : 0 .. MaxSize,
                               blocks : Content]]
    BY <1>7, <1>9 DEF TypeOK
<1>11. delivered' \subseteq Content
    BY <1>6, <1>7 DEF FragmentReceived, TypeOK
<1> QED BY <1>8, <1>10, <1>11 DEF FragmentReceived, TypeOK

LEMMA TypeSend ==
    ASSUME TypeOK, NEW size \in 1 .. MaxSize, SendData(size)
    PROVE  TypeOK'
<1>1. Len(sent) \in Nat /\ Len(sent) \in 0 .. MaxSent - 1
    BY LinkAssumption DEF SendData, TypeOK
<1>2. Fragments(Len(sent), size) \subseteq Fragment
  <2>1. PacketNumber(Len(sent)) \in 0 .. NumberModulus - 1
    BY <1>1, NumberRange
  <2>2. \A k \in 1 .. size : k \in 1 .. MaxSize
    BY LinkAssumption
  <2>3. ASSUME NEW k \in 1 .. size
        PROVE  [number |-> PacketNumber(Len(sent)), size |-> size, block |-> k,
                content |-> Len(sent)] \in Fragment
    BY <1>1, <2>1, <2>2 DEF Fragment
  <2> QED BY <2>3 DEF Fragments
<1> QED BY <1>2 DEF SendData, TypeOK

LEMMA TypeNext == TypeOK /\ [Next]_vars => TypeOK'
<1> SUFFICES ASSUME TypeOK, [Next]_vars PROVE TypeOK'
    OBVIOUS
<1>1. ASSUME NEW size \in 1 .. MaxSize, SendData(size) PROVE TypeOK'
    BY <1>1, TypeSend
<1>2. ASSUME NEW f \in net, Arrive(f) \/ Duplicate(f) PROVE TypeOK'
  <2>1. f \in Fragment /\ FragmentReceived(f) /\ net' \subseteq Fragment
    BY <1>2 DEF TypeOK, Arrive, Duplicate
  <2> QED BY <2>1, TypeReceived DEF TypeOK
<1>3. ASSUME NEW f \in net, Lose(f) PROVE TypeOK'
    BY <1>3 DEF Lose, TypeOK
<1>4. CASE UNCHANGED vars
    BY <1>4 DEF vars, TypeOK
<1> QED BY <1>1, <1>2, <1>3, <1>4 DEF Next

\* The endpoints keep their types, whatever the network does.
THEOREM TypeCorrect == Spec => []TypeOK
<1> QED BY TypeInit, TypeNext, PTL DEF Spec

------------------------------------------------------------------------------
(* Integrity.  While no packet number is used twice, a fragment tells by its *)
(* number which packet it is part of.                                        *)

PartOf(f, n) ==
    /\ n \in 0 .. Len(sent) - 1
    /\ f.number = PacketNumber(n)
    /\ f.size = sent[n + 1]
    /\ f.content = n

HoldsPartOf(buffer, n) ==
    /\ n \in 0 .. Len(sent) - 1
    /\ buffer.number = PacketNumber(n)
    /\ buffer.size = sent[n + 1]
    /\ \A k \in DOMAIN buffer.blocks : buffer.blocks[k] = n

NetIntact == \A f \in net : \E n \in 0 .. Len(sent) - 1 : PartOf(f, n)

BuffersIntact ==
    \A b \in Buffer : \/ buffers[b].blocks = <<>> /\ buffers[b].size = 0
                      \/ \E n \in 0 .. Len(sent) - 1 : HoldsPartOf(buffers[b], n)

IntegrityInv ==
    /\ TypeOK
    /\ Len(sent) <= NumberModulus
    /\ NetIntact
    /\ BuffersIntact
    /\ NoMixedPacket

\* Packets keep the numbers and sizes they were sent with.
LEMMA NumberUnique ==
    ASSUME NEW n \in 0 .. NumberModulus - 1, NEW k \in 0 .. NumberModulus - 1,
           PacketNumber(n) = PacketNumber(k)
    PROVE  n = k
<1>1. n % NumberModulus = n /\ k % NumberModulus = k
    BY LinkAssumption
<1> QED BY <1>1 DEF PacketNumber

LEMMA IntegritySend ==
    ASSUME ~reliable, IntegrityInv, NEW size \in 1 .. MaxSize, SendData(size)
    PROVE  IntegrityInv'
<1>1. TypeOK'
    BY TypeSend DEF IntegrityInv
<1>2. Len(sent) \in Nat /\ Len(sent') = Len(sent) + 1 /\ Len(sent') <= NumberModulus
    BY LinkAssumption DEF SendData, IntegrityInv, TypeOK
<1>3. sent'[Len(sent) + 1] = size
      /\ \A n \in 0 .. Len(sent) - 1 : n \in 0 .. Len(sent') - 1 /\ sent'[n + 1] = sent[n + 1]
    BY <1>2 DEF SendData, IntegrityInv, TypeOK
<1>4. NetIntact'
  <2>1. SUFFICES ASSUME NEW f \in net' PROVE \E n \in 0 .. Len(sent') - 1 : PartOf(f, n)'
    BY DEF NetIntact
  <2>2. CASE f \in net
    <3>1. PICK n \in 0 .. Len(sent) - 1 : PartOf(f, n)
      BY <2>2 DEF NetIntact, IntegrityInv
    <3>2. PartOf(f, n)'
      BY <3>1, <1>3 DEF PartOf
    <3> QED BY <3>2, <1>3
  <2>3. CASE f \in Fragments(Len(sent), size)
    <3>1. PICK last \in 0 .. Len(sent') - 1 : last = Len(sent)
      BY <1>2
    <3>2. f.number = PacketNumber(last) /\ f.size = size /\ f.content = last
      BY <2>3, <3>1 DEF Fragments
    <3>3. PartOf(f, last)'
      BY <3>1, <3>2, <1>3 DEF PartOf
    <3> QED BY <3>1, <3>3
  <2> QED BY <2>2, <2>3 DEF SendData
<1>5. BuffersIntact'
  <2>1. buffers' = buffers
    BY DEF SendData
  <2>2. SUFFICES ASSUME NEW b \in Buffer,
                        NEW n \in 0 .. Len(sent) - 1, HoldsPartOf(buffers[b], n)
                 PROVE  HoldsPartOf(buffers[b], n)'
    BY <2>1, <1>3 DEF BuffersIntact, IntegrityInv
  <2> QED BY <2>1, <2>2, <1>3 DEF HoldsPartOf
<1>6. NoMixedPacket'
  <2>1. \A n \in 0 .. Len(sent) - 1 : PacketSent(n)' = PacketSent(n)
    BY <1>3 DEF PacketSent
  <2> QED BY <2>1, <1>3 DEF NoMixedPacket, IntegrityInv, SendData
<1> QED BY <1>1, <1>2, <1>4, <1>5, <1>6 DEF IntegrityInv

\* A fragment of packet n leaves its buffer with bytes of packet n only.
LEMMA BufferKeepsPacket ==
    ASSUME IntegrityInv, NEW f \in net, NEW b \in Buffer
    PROVE  \E n \in 0 .. Len(sent) - 1 : HoldsPartOf(Received(buffers[b], f), n)
<1>1. PICK n \in 0 .. Len(sent) - 1 : PartOf(f, n)
    BY DEF IntegrityInv, NetIntact
<1> DEFINE reception == Received(buffers[b], f)
<1>2. reception.number = f.number /\ reception.size = f.size
    BY DEF Received
<1>3. ASSUME NEW k \in DOMAIN reception.blocks PROVE reception.blocks[k] = n
  <2>1. CASE k = f.block
    BY <2>1, <1>1, <1>3 DEF Received, PartOf
  <2>2. CASE k # f.block
    <3>1. Continues(buffers[b], f) /\ k \in DOMAIN buffers[b].blocks
          /\ reception.blocks[k] = buffers[b].blocks[k]
      BY <2>2, <1>3 DEF Received
    <3>2. PICK m \in 0 .. Len(sent) - 1 : HoldsPartOf(buffers[b], m)
      <4>1. f.size \in 1 .. MaxSize
        BY DEF IntegrityInv, TypeOK, Fragment
      <4>2. buffers[b].size # 0
        BY <3>1, <4>1, LinkAssumption DEF Continues
      <4> QED BY <4>2 DEF IntegrityInv, BuffersIntact
    <3>3. PacketNumber(m) = PacketNumber(n)
      BY <3>1, <3>2, <1>1 DEF Continues, HoldsPartOf, PartOf
    <3>4. m = n
      <4>1. m \in 0 .. NumberModulus - 1 /\ n \in 0 .. NumberModulus - 1
        BY LinkAssumption DEF IntegrityInv, TypeOK
      <4> QED BY <3>3, <4>1, NumberUnique
    <3> QED BY <3>1, <3>2, <3>4 DEF HoldsPartOf
  <2> QED BY <2>1, <2>2
<1>4. HoldsPartOf(reception, n)
    BY <1>1, <1>2, <1>3 DEF HoldsPartOf, PartOf
<1> QED BY <1>4

LEMMA IntegrityReceived ==
    ASSUME IntegrityInv, NEW f \in net,
           FragmentReceived(f), net' \subseteq net
    PROVE  IntegrityInv'
<1> DEFINE b == BufferOf(f.number)
           reception == Received(buffers[b], f)
<1>1. f \in Fragment
    BY DEF IntegrityInv, TypeOK
<1>2. b \in Buffer
    BY <1>1, BufferRange, LinkAssumption DEF Fragment
<1>3. PICK n \in 0 .. Len(sent) - 1 : HoldsPartOf(reception, n)
    BY <1>2, BufferKeepsPacket
<1>4. TypeOK'
    BY <1>1, TypeReceived DEF TypeOK, IntegrityInv
<1>5. sent' = sent
    BY DEF FragmentReceived
<1>6. Len(sent') <= NumberModulus
    BY <1>5 DEF IntegrityInv
<1>7. NetIntact'
    BY <1>5 DEF NetIntact, IntegrityInv, PartOf
<1>8. BuffersIntact'
  <2>1. \A c \in Buffer : buffers'[c] = IF c = b THEN reception ELSE buffers[c]
    BY <1>2 DEF FragmentReceived, IntegrityInv, TypeOK
  <2>2. SUFFICES ASSUME NEW c \in Buffer
                 PROVE  \/ buffers'[c].blocks = <<>> /\ buffers'[c].size = 0
                        \/ \E k \in 0 .. Len(sent) - 1 : HoldsPartOf(buffers[c], k)'
    BY <1>5 DEF BuffersIntact
  <2>3. CASE c = b
    BY <2>1, <2>3, <1>3, <1>5 DEF HoldsPartOf
  <2>4. CASE c # b
    BY <2>1, <2>4, <1>5 DEF BuffersIntact, IntegrityInv, HoldsPartOf
  <2> QED BY <2>3, <2>4
<1>9. NoMixedPacket'
  <2>1. SUFFICES ASSUME NEW d \in delivered', d \notin delivered
                 PROVE  d = PacketSent(n)
    BY <1>5 DEF NoMixedPacket, IntegrityInv, PacketSent
  <2>2. d = reception.blocks /\ IsFullPacketAvailable(reception)
    BY <2>1 DEF FragmentReceived
  <2>3. DOMAIN d = 1 .. sent[n + 1] /\ \A k \in DOMAIN d : d[k] = n
    BY <2>2, <1>3 DEF IsFullPacketAvailable, HoldsPartOf
  <2>4. d = [k \in DOMAIN d |-> d[k]]
    BY <2>2 DEF Received
  <2> QED BY <2>3, <2>4 DEF PacketSent
<1> QED BY <1>4, <1>6, <1>7, <1>8, <1>9 DEF IntegrityInv

LEMMA IntegrityInit == Init => IntegrityInv
    BY TypeInit, LinkAssumption
       DEF Init, IntegrityInv, NetIntact, BuffersIntact, NoMixedPacket

LEMMA IntegrityNext == ~reliable /\ IntegrityInv /\ [Next]_vars => IntegrityInv'
<1> SUFFICES ASSUME ~reliable, IntegrityInv, [Next]_vars PROVE IntegrityInv'
    OBVIOUS
<1>1. ASSUME NEW size \in 1 .. MaxSize, SendData(size) PROVE IntegrityInv'
    BY <1>1, IntegritySend
<1>2. ASSUME NEW f \in net, Arrive(f) \/ Duplicate(f) PROVE IntegrityInv'
    BY <1>2, IntegrityReceived DEF Arrive, Duplicate
<1>3. ASSUME NEW f \in net, Lose(f) PROVE IntegrityInv'
  <2>1. TypeOK'
    BY <1>3, TypeNext DEF Next, IntegrityInv
  <2> QED BY <1>3, <2>1 DEF Lose, IntegrityInv, NetIntact, BuffersIntact, NoMixedPacket,
             PartOf, HoldsPartOf, PacketSent
<1>4. CASE UNCHANGED vars
    BY <1>4 DEF vars, TypeOK, IntegrityInv, NetIntact, BuffersIntact, NoMixedPacket,
               PartOf, HoldsPartOf, PacketSent
<1> QED BY <1>1, <1>2, <1>3, <1>4 DEF Next

------------------------------------------------------------------------------
(* Two buffers suffice for a disorder of two packets.  A buffer holds the     *)
(* last packet of its parity or the one before, so that neither the packet    *)
(* it receives is swept away by another, nor is an old packet with the same   *)
(* number taken for the new one.                                              *)

ModulusFits == NumberModulus >= 4 /\ NumberModulus % 2 = 0

LEMMA NumberParity ==
    ASSUME ModulusFits, NEW n \in Nat
    PROVE  BufferOf(PacketNumber(n)) = n % 2
<1> DEFINE r == n % NumberModulus
           q == n \div NumberModulus
           h == NumberModulus \div 2
<1>1. r \in Nat /\ q \in Nat /\ h \in Nat /\ NumberModulus \in Nat
    BY LinkAssumption
<1>2. n = NumberModulus * q + r
    BY LinkAssumption
<1>3. NumberModulus = 2 * h
    BY LinkAssumption DEF ModulusFits
<1> HIDE DEF r, q, h
<1>4. n = 2 * (h * q) + r
    BY <1>1, <1>2, <1>3
<1>5. h * q \in Nat
    BY <1>1
<1>6. n % 2 = r % 2
  <2> DEFINE p == h * q
  <2>1. p \in Nat /\ n = 2 * p + r
    BY <1>4, <1>5
  <2> HIDE DEF p
  <2> QED BY <1>1, <2>1
<1> QED BY <1>6 DEF r, BufferOf, PacketNumber, UDP_RECEPTION_BUFFER_COUNT

LEMMA NumbersApart ==
    ASSUME ModulusFits, NEW n \in Nat
    PROVE  PacketNumber(n + 2) # PacketNumber(n)
<1> DEFINE r == n % NumberModulus
           q == n \div NumberModulus
           r2 == (n + 2) % NumberModulus
           q2 == (n + 2) \div NumberModulus
<1>1. r \in Nat /\ q \in Nat /\ r2 \in Nat /\ q2 \in Nat /\ NumberModulus \in Nat
    BY LinkAssumption
<1>2. n = NumberModulus * q + r /\ n + 2 = NumberModulus * q2 + r2
    BY LinkAssumption
<1> SUFFICES ASSUME r2 = r PROVE FALSE
    BY LinkAssumption DEF PacketNumber
<1> HIDE DEF r, q, r2, q2
<1>3. NumberModulus * (q2 - q) = 2
  <2>1. NumberModulus * (q2 - q) = NumberModulus * q2 - NumberModulus * q
    BY <1>1
  <2> QED BY <1>1, <1>2, <2>1
<1>4. q2 - q >= 1 => NumberModulus * (q2 - q) >= NumberModulus
    BY <1>1
<1>5. q2 - q <= 0 => NumberModulus * (q2 - q) <= 0
    BY <1>1
<1> QED BY <1>1, <1>3, <1>4, <1>5 DEF ModulusFits

FragmentOfSent(f) ==
    /\ f.content \in 0 .. Len(sent) - 1
    /\ f.number = PacketNumber(f.content)
    /\ f.size = sent[f.content + 1]
    /\ f.block \in 1 .. f.size

BufferHolds(buffer, n) ==
    /\ buffer.number = PacketNumber(n)
    /\ buffer.size = sent[n + 1]
    /\ DOMAIN buffer.blocks # {}
    /\ DOMAIN buffer.blocks \subseteq 1 .. buffer.size
    /\ \A k \in DOMAIN buffer.blocks : buffer.blocks[k] = n

OnTheWay(n, k) == \E f \in net : f.content = n /\ f.block = k

HandedOn(n) == PacketSent(n) \in delivered

NetRecent == \A f \in net : FragmentOfSent(f) /\ f.content >= Len(sent) - 2

BuffersRecent ==
    \A b \in Buffer :
        \/ buffers[b].size = 0
        \/ \E n \in 0 .. Len(sent) - 1 :
              n % 2 = b /\ n >= Len(sent) - 4 /\ BufferHolds(buffers[b], n)

BuffersAdvance ==
    \A n \in 0 .. Len(sent) - 1 :
        \/ \E f \in net : f.content = n
        \/ \E m \in n .. Len(sent) - 1 : BufferHolds(buffers[n % 2], m)

\* The part of NothingStranded that is inductive.
Complete(n) ==
    \/ HandedOn(n)
    \/ /\ \E f \in net : f.content = n
       /\ \A k \in 1 .. sent[n + 1] :
             \/ OnTheWay(n, k)
             \/ BufferHolds(buffers[n % 2], n) /\ k \in DOMAIN buffers[n % 2].blocks

NoneMissing == \A n \in 0 .. Len(sent) - 1 : Complete(n)

WindowInv ==
    /\ TypeOK
    /\ Len(sent) <= MaxSent
    /\ NetRecent
    /\ BuffersRecent
    /\ BuffersAdvance
    /\ NoneMissing
    /\ NoMixedPacket

LEMMA WindowInit == Init => WindowInv
<1> SUFFICES ASSUME Init PROVE WindowInv
    OBVIOUS
<1>1. TypeOK
    BY TypeInit
<1>2. sent = <<>> /\ Len(sent) = 0 /\ net = {} /\ \A b \in Buffer : buffers[b].size = 0
    BY DEF Init
<1> QED BY <1>1, <1>2, LinkAssumption
        DEF WindowInv, NetRecent, BuffersRecent, BuffersAdvance, NoneMissing,
            NoMixedPacket, Init

LEMMA WindowSend ==
    ASSUME ModulusFits, WindowInv, reliable, NEW size \in 1 .. MaxSize, SendData(size)
    PROVE  WindowInv'
<1>1. TypeOK'
    BY TypeSend DEF WindowInv
<1>2. PICK last \in Nat : last = Len(sent)
    BY DEF WindowInv, TypeOK
<1>3. Len(sent') = last + 1 /\ Len(sent') <= MaxSent
    BY <1>2, LinkAssumption DEF SendData, WindowInv, TypeOK
<1>4. sent'[last + 1] = size /\ \A n \in 0 .. last - 1 : sent'[n + 1] = sent[n + 1]
    BY <1>2 DEF SendData, WindowInv, TypeOK
<1>5. buffers' = buffers /\ delivered' = delivered /\ net' = net \cup Fragments(last, size)
    BY <1>2 DEF SendData
<1>6. \A f \in Fragments(last, size) :
         f.content = last /\ f.number = PacketNumber(last) /\ f.size = size
         /\ f.block \in 1 .. size
    BY DEF Fragments
<1>7. ASSUME NEW k \in 1 .. size
      PROVE  \E f \in Fragments(last, size) : f.content = last /\ f.block = k
  <2> DEFINE f == [number |-> PacketNumber(last), size |-> size, block |-> k,
                   content |-> last]
  <2>1. f \in Fragments(last, size) /\ f.content = last /\ f.block = k
    BY DEF Fragments
  <2> QED BY <2>1
<1>8. ASSUME NEW b \in Buffer, NEW n \in 0 .. last - 1, BufferHolds(buffers[b], n)
      PROVE  BufferHolds(buffers[b], n)'
    BY <1>4, <1>5, <1>8 DEF BufferHolds
<1>9. NetRecent'
  <2>1. SUFFICES ASSUME NEW f \in net' PROVE FragmentOfSent(f)' /\ f.content >= last - 1
    BY <1>3 DEF NetRecent
  <2>2. CASE f \in net
    <3>1. f.content >= last - 1 /\ FragmentOfSent(f)
      BY <2>2, <1>2 DEF SendData, InWindow, WindowInv, NetRecent
    <3> QED BY <3>1, <1>2, <1>3, <1>4 DEF FragmentOfSent
  <2>3. CASE f \in Fragments(last, size)
    BY <2>3, <1>3, <1>4, <1>6 DEF FragmentOfSent
  <2> QED BY <2>2, <2>3, <1>5
<1>10. BuffersRecent'
  <2>1. SUFFICES ASSUME NEW b \in Buffer, buffers[b].size # 0
                 PROVE  \E n \in 0 .. last : n % 2 = b /\ n >= last - 3
                                             /\ BufferHolds(buffers[b], n)'
    BY <1>3, <1>5 DEF BuffersRecent
  <2>2. PICK n \in 0 .. last - 1 : n % 2 = b /\ n >= last - 4 /\ BufferHolds(buffers[b], n)
    BY <2>1, <1>2 DEF WindowInv, BuffersRecent
  <2>3. ASSUME n = last - 4 PROVE FALSE
    <3>1. last - 2 \in 0 .. last - 1 /\ (last - 2) % 2 = b
      BY <2>2, <2>3
    <3>2. ~ \E f \in net : f.content = last - 2
      BY <1>2 DEF SendData, InWindow, WindowInv, NetRecent, FragmentOfSent
    <3>3. PICK m \in last - 2 .. last - 1 : BufferHolds(buffers[b], m)
      BY <3>1, <3>2, <1>2 DEF WindowInv, BuffersAdvance
    <3>4. m = n
      BY <3>3, <2>2 DEF BufferHolds
    <3> QED BY <3>3, <3>4, <2>3
  <2>4. n >= last - 3 /\ n \in 0 .. last
    BY <2>2, <2>3
  <2> QED BY <2>2, <2>4, <1>8
<1>11. BuffersAdvance'
  <2>1. SUFFICES ASSUME NEW n \in 0 .. last
                 PROVE  \/ \E f \in net' : f.content = n
                        \/ \E m \in n .. last : BufferHolds(buffers[n % 2], m)'
    BY <1>3, <1>5 DEF BuffersAdvance
  <2>2. CASE n = last
    BY <2>2, <1>5, <1>7
  <2>3. CASE n # last
    <3>1. n \in 0 .. last - 1 /\ n % 2 \in Buffer
      BY <2>3, BufferRange
    <3>2. CASE \E f \in net : f.content = n
      BY <3>2, <1>5
    <3>3. CASE \E m \in n .. last - 1 : BufferHolds(buffers[n % 2], m)
      BY <3>1, <3>3, <1>8
    <3> QED BY <3>1, <3>2, <3>3, <1>2 DEF WindowInv, BuffersAdvance
  <2> QED BY <2>2, <2>3
<1>12. NoneMissing'
  <2>1. SUFFICES ASSUME NEW n \in 0 .. last PROVE Complete(n)'
    BY <1>3 DEF NoneMissing
  <2>2. CASE n = last
    <3>1. \E f \in net' : f.content = n
      BY <2>2, <1>5, <1>7
    <3>2. \A k \in 1 .. sent'[n + 1] : OnTheWay(n, k)'
      BY <2>2, <1>4, <1>5, <1>7 DEF OnTheWay
    <3> QED BY <3>1, <3>2 DEF Complete
  <2>3. CASE n # last
    <3>1. n \in 0 .. last - 1 /\ n % 2 \in Buffer
      BY <2>3, BufferRange
    <3>2. Complete(n)
      BY <3>1, <1>2 DEF WindowInv, NoneMissing
    <3>3. HandedOn(n) => HandedOn(n)'
      BY <3>1, <1>4, <1>5 DEF HandedOn, PacketSent
    <3>4. BufferHolds(buffers[n % 2], n) => BufferHolds(buffers[n % 2], n)'
      BY <3>1, <1>8
    <3>5. \A k : OnTheWay(n, k) => OnTheWay(n, k)'
      BY <1>5 DEF OnTheWay
    <3>6. (\E f \in net : f.content = n) => \E f \in net' : f.content = n
      BY <1>5
    <3>7. sent'[n + 1] = sent[n + 1]
      BY <3>1, <1>4
    <3> QED BY <3>2, <3>3, <3>4, <3>5, <3>6, <3>7, <1>5 DEF Complete
  <2> QED BY <2>2, <2>3
<1>13. NoMixedPacket'
  <2>1. \A n \in 0 .. last - 1 : PacketSent(n)' = PacketSent(n) /\ n \in 0 .. Len(sent') - 1
    BY <1>3, <1>4 DEF PacketSent
  <2> QED BY <2>1, <1>2, <1>5 DEF NoMixedPacket, WindowInv
<1> QED BY <1>1, <1>3, <1>9, <1>10, <1>11, <1>12, <1>13 DEF WindowInv

LEMMA WindowArrive ==
    ASSUME ModulusFits, WindowInv, NEW f \in net, Arrive(f)
    PROVE  WindowInv'
<1>1. PICK n \in Nat, last \in Nat : n = f.content /\ last = Len(sent)
    BY LinkAssumption DEF WindowInv, TypeOK, Fragment
<1>2. FragmentOfSent(f) /\ n \in 0 .. last - 1 /\ n >= last - 2
    BY <1>1 DEF WindowInv, NetRecent, FragmentOfSent
<1> DEFINE b == n % 2
           reception == Received(buffers[b], f)
<1>3. BufferOf(f.number) = b /\ b \in Buffer
  <2>1. f.number = PacketNumber(n)
      BY <1>1, <1>2 DEF FragmentOfSent
  <2>2. BufferOf(PacketNumber(n)) = n % 2
      BY NumberParity
  <2>3. n % 2 \in {0, 1}
      OBVIOUS
  <2> QED BY <2>1, <2>2, <2>3, BufferRange
<1>4. sent' = sent /\ Len(sent') = last
    BY <1>1 DEF Arrive, FragmentReceived
<1>5. net' = net \ {f}
    BY DEF Arrive
<1>6. buffers' = [buffers EXCEPT ![b] = reception]
    BY <1>3 DEF Arrive, FragmentReceived
<1>7. buffers'[b] = reception /\ \A c \in Buffer : c # b => buffers'[c] = buffers[c]
    BY <1>3, <1>6 DEF WindowInv, TypeOK
<1>8. \A d \in delivered : d \in delivered'
    BY DEF Arrive, FragmentReceived
<1>9. IF IsFullPacketAvailable(reception)
      THEN delivered' = delivered \cup {reception.blocks} ELSE delivered' = delivered
    BY <1>3 DEF Arrive, FragmentReceived
<1>10. f.number = PacketNumber(n) /\ f.size = sent[n + 1] /\ f.block \in 1 .. f.size
    BY <1>1, <1>2 DEF FragmentOfSent
<1>11. ASSUME Continues(buffers[b], f) PROVE BufferHolds(buffers[b], n)
  <2>1. buffers[b].size # 0
    BY <1>10, <1>11, LinkAssumption DEF Continues, WindowInv, TypeOK, Fragment
  <2>2. PICK m \in 0 .. last - 1 : m % 2 = b /\ m >= last - 4 /\ BufferHolds(buffers[b], m)
    BY <1>1, <1>3, <2>1 DEF WindowInv, BuffersRecent
  <2>3. m = n \/ m + 2 = n
    BY <1>2, <2>2
  <2>4. PacketNumber(m) = PacketNumber(n)
    BY <1>10, <1>11, <2>2 DEF Continues, BufferHolds
  <2>5. m = n
    BY <2>3, <2>4, NumbersApart
  <2> QED BY <2>2, <2>5
<1>12. reception.number = f.number /\ reception.size = f.size
    BY DEF Received
<1>13. DOMAIN reception.blocks =
         (IF Continues(buffers[b], f) THEN DOMAIN buffers[b].blocks ELSE {}) \cup {f.block}
    BY DEF Received
<1>14. BufferHolds(reception, n)
  <2>1. \A k \in DOMAIN reception.blocks :
           reception.blocks[k] = IF k = f.block THEN n ELSE buffers[b].blocks[k]
    BY <1>1 DEF Received
  <2>2. DOMAIN reception.blocks \subseteq 1 .. reception.size
    BY <1>10, <1>11, <1>12, <1>13 DEF BufferHolds
  <2> QED BY <1>10, <1>11, <1>12, <1>13, <2>1, <2>2 DEF BufferHolds
<1>15. BufferHolds(buffers[b], n) => DOMAIN buffers[b].blocks \subseteq DOMAIN reception.blocks
    BY <1>10, <1>13 DEF BufferHolds, Continues
<1>16. \A c, m : BufferHolds(c, m)' <=> BufferHolds(c, m)
    BY <1>4 DEF BufferHolds
<1>17. BufferHolds(buffers'[b], n)
    BY <1>7, <1>14
<1>18. TypeOK'
  <2>1. f \in Fragment /\ net' \subseteq Fragment
    BY <1>5 DEF WindowInv, TypeOK
  <2> QED BY <2>1, TypeReceived DEF Arrive, WindowInv, TypeOK
<1>19. NetRecent'
    BY <1>4, <1>5, <1>1 DEF WindowInv, NetRecent, FragmentOfSent
<1>20. \A c \in Buffer : c # b => buffers'[c] = buffers[c]
    BY <1>7
<1> HIDE DEF reception
<1>21. BuffersRecent'
  <2>1. SUFFICES ASSUME NEW c \in Buffer
                 PROVE  \/ buffers'[c].size = 0
                        \/ \E m \in 0 .. last - 1 : m % 2 = c /\ m >= last - 4
                                                    /\ BufferHolds(buffers[c], m)'
    BY <1>4 DEF BuffersRecent
  <2>2. CASE c = b
    <3>1. BufferHolds(buffers[c], n)'
      BY <2>2, <1>4, <1>17 DEF BufferHolds
    <3> QED BY <3>1, <2>2, <1>2
  <2>3. CASE c # b
    <3>1. buffers'[c] = buffers[c]
      BY <2>3, <1>20
    <3>2. \/ buffers[c].size = 0
          \/ \E m \in 0 .. last - 1 : m % 2 = c /\ m >= last - 4
                                      /\ BufferHolds(buffers[c], m)
      BY <1>1 DEF WindowInv, BuffersRecent
    <3>3. \A m : BufferHolds(buffers[c], m) => BufferHolds(buffers[c], m)'
      BY <3>1, <1>4 DEF BufferHolds
    <3> QED BY <3>1, <3>2, <3>3
  <2> QED BY <2>2, <2>3
<1>22. BuffersAdvance'
  <2>1. SUFFICES ASSUME NEW m \in 0 .. last - 1
                 PROVE  \/ \E g \in net' : g.content = m
                        \/ \E j \in m .. last - 1 : BufferHolds(buffers[m % 2], j)'
    BY <1>4 DEF BuffersAdvance
  <2>2. m % 2 \in Buffer
    BY BufferRange
  <2>3. CASE m % 2 = b /\ m <= n
    <3>1. BufferHolds(buffers[m % 2], n)'
      BY <2>3, <1>4, <1>17 DEF BufferHolds
    <3> QED BY <3>1, <2>3, <1>2
  <2>4. CASE m % 2 = b /\ m > n
    BY <2>4, <1>2
  <2>5. CASE m % 2 # b
    <3>1. CASE \E g \in net : g.content = m
      BY <3>1, <2>5, <1>1, <1>5
    <3>2. CASE \E j \in m .. last - 1 : BufferHolds(buffers[m % 2], j)
      BY <3>2, <2>2, <2>5, <1>4, <1>20 DEF BufferHolds
    <3> QED BY <3>1, <3>2, <1>1 DEF WindowInv, BuffersAdvance
  <2> QED BY <2>3, <2>4, <2>5, <1>2
<1>23. NoneMissing'
  <2>1. SUFFICES ASSUME NEW m \in 0 .. last - 1 PROVE Complete(m)'
    BY <1>4 DEF NoneMissing
  <2>2. HandedOn(m) => HandedOn(m)'
    BY <1>4, <1>8 DEF HandedOn, PacketSent
  <2>3. Complete(m)
    BY <1>1 DEF WindowInv, NoneMissing
  <2>4. CASE m = n /\ ~HandedOn(n)
    <3>1. ASSUME NEW k \in 1 .. sent[n + 1]
          PROVE  OnTheWay(n, k)' \/ k \in DOMAIN reception.blocks
      <4>1. CASE k = f.block
        BY <4>1, <1>13 DEF reception
      <4>2. CASE OnTheWay(n, k) /\ k # f.block
        BY <4>2, <1>5 DEF OnTheWay
      <4>3. CASE BufferHolds(buffers[b], n) /\ k \in DOMAIN buffers[b].blocks
        BY <4>3, <1>15 DEF reception
      <4> QED BY <4>1, <4>2, <4>3, <2>3, <2>4 DEF Complete
    <3>2. CASE \E k \in 1 .. sent[n + 1] : OnTheWay(n, k)'
      <4>1. \E g \in net' : g.content = n
        BY <3>2 DEF OnTheWay
      <4>2. BufferHolds(buffers[n % 2], n)'
        BY <1>4, <1>17 DEF BufferHolds
      <4> QED BY <4>1, <4>2, <3>1, <2>4, <1>4, <1>7 DEF Complete, reception
    <3>3. CASE ~ \E k \in 1 .. sent[n + 1] : OnTheWay(n, k)'
      <4>1. DOMAIN reception.blocks = 1 .. sent[n + 1] /\ reception.size = sent[n + 1]
        BY <3>1, <3>3, <1>14 DEF BufferHolds, reception
      <4>2. \A k \in DOMAIN reception.blocks : reception.blocks[k] = n
        BY <1>14 DEF BufferHolds, reception
      <4>3. reception.blocks = [k \in DOMAIN reception.blocks |-> reception.blocks[k]]
        BY DEF Received, reception
      <4>4. reception.blocks = PacketSent(n)
        BY <4>1, <4>2, <4>3 DEF PacketSent
      <4>5. PacketSent(n) \in delivered'
        BY <4>1, <4>4, <1>9 DEF IsFullPacketAvailable, reception
      <4> QED BY <4>5, <2>4, <1>4 DEF Complete, HandedOn, PacketSent
    <3> QED BY <3>2, <3>3
  <2>5. CASE m # n /\ ~HandedOn(m)
    <3>1. PICK g \in net : g.content = m
      BY <2>3, <2>5 DEF Complete
    <3>2. m >= last - 2
      BY <3>1, <1>1 DEF WindowInv, NetRecent
    <3>3. m % 2 # b /\ m % 2 \in Buffer
      BY <3>2, <2>5, <1>2, BufferRange
    <3>4. buffers'[m % 2] = buffers[m % 2]
      BY <3>3, <1>20
    <3>5. \E h \in net' : h.content = m
      BY <3>1, <2>5, <1>1, <1>5
    <3>6. \A k : OnTheWay(m, k) => OnTheWay(m, k)'
      BY <2>5, <1>1, <1>5 DEF OnTheWay
    <3>7. BufferHolds(buffers[m % 2], m) => BufferHolds(buffers[m % 2], m)'
      BY <3>4, <1>4 DEF BufferHolds
    <3> QED BY <2>3, <2>5, <3>4, <3>5, <3>6, <3>7, <1>4 DEF Complete
  <2> QED BY <2>2, <2>4, <2>5 DEF Complete
<1>24. Len(sent') <= MaxSent
    BY <1>4, <1>1 DEF WindowInv
<1>25. NoMixedPacket'
  <2>1. \A k : PacketSent(k)' = PacketSent(k)
    BY <1>4 DEF PacketSent
  <2>2. ASSUME IsFullPacketAvailable(reception) PROVE reception.blocks = PacketSent(n)
    <3>1. DOMAIN reception.blocks = 1 .. sent[n + 1]
      BY <2>2, <1>14 DEF BufferHolds, IsFullPacketAvailable, reception
    <3>2. \A k \in DOMAIN reception.blocks : reception.blocks[k] = n
      BY <1>14 DEF BufferHolds, reception
    <3>3. reception.blocks = [k \in DOMAIN reception.blocks |-> reception.blocks[k]]
      BY DEF Received, reception
    <3> QED BY <3>1, <3>2, <3>3 DEF PacketSent
  <2>3. \A d \in delivered' : d \in delivered \/ d = PacketSent(n)
    BY <2>2, <1>9 DEF reception
  <2> QED BY <2>1, <2>3, <1>1, <1>2, <1>4 DEF NoMixedPacket, WindowInv
<1> QED BY <1>18, <1>19, <1>21, <1>22, <1>23, <1>24, <1>25 DEF WindowInv

LEMMA WindowNext == ModulusFits /\ reliable /\ WindowInv /\ [Next]_vars => WindowInv'
<1> SUFFICES ASSUME ModulusFits, reliable, WindowInv, [Next]_vars PROVE WindowInv'
    OBVIOUS
<1>1. ASSUME NEW size \in 1 .. MaxSize, SendData(size) PROVE WindowInv'
    BY <1>1, WindowSend
<1>2. ASSUME NEW f \in net, Arrive(f) PROVE WindowInv'
    BY <1>2, WindowArrive
<1>3. CASE UNCHANGED vars
  <2>1. TypeOK'
    BY <1>3, TypeNext DEF WindowInv
  <2>2. NetRecent'
    BY <1>3 DEF vars, WindowInv, NetRecent, FragmentOfSent
  <2>3. \A b, n : BufferHolds(buffers[b], n)' <=> BufferHolds(buffers[b], n)
    BY <1>3 DEF vars, BufferHolds
  <2>4. BuffersRecent'
    BY <1>3, <2>3 DEF vars, WindowInv, BuffersRecent
  <2>5. BuffersAdvance'
    BY <1>3, <2>3 DEF vars, WindowInv, BuffersAdvance
  <2>6. \A n, k : (HandedOn(n)' <=> HandedOn(n)) /\ (OnTheWay(n, k)' <=> OnTheWay(n, k))
    BY <1>3 DEF vars, HandedOn, OnTheWay, PacketSent
  <2>7. NoneMissing'
    BY <1>3, <2>3, <2>6 DEF vars, WindowInv, NoneMissing, Complete
  <2>8. NoMixedPacket'
    BY <1>3 DEF vars, WindowInv, NoMixedPacket, PacketSent
  <2> QED BY <1>3, <2>1, <2>2, <2>4, <2>5, <2>7, <2>8 DEF vars, WindowInv
<1> QED BY <1>1, <1>2, <1>3 DEF Next

------------------------------------------------------------------------------

LinkInv == IF reliable THEN WindowInv ELSE IntegrityInv

LEMMA LinkInvCorrect == ModulusFits => (Spec => []LinkInv)
<1> SUFFICES ASSUME ModulusFits PROVE Spec => []LinkInv
    OBVIOUS
<1>1. Init => LinkInv
    BY WindowInit, IntegrityInit DEF LinkInv
<1>2. LinkInv /\ [Next]_vars => LinkInv'
  <2>1. [Next]_vars => reliable' = reliable
    BY DEF Next, SendData, Arrive, Duplicate, Lose, FragmentReceived, vars
  <2> QED BY <2>1, WindowNext, IntegrityNext DEF LinkInv
<1> QED BY <1>1, <1>2, PTL DEF Spec

\* No packet that is handed on is made of parts of several, whatever is lost,
\* repeated or overtaken.
THEOREM PacketsIntact == ModulusFits => (Spec => []NoMixedPacket)
<1>1. LinkInv => NoMixedPacket
    BY DEF LinkInv, WindowInv, IntegrityInv
<1> QED BY <1>1, LinkInvCorrect, PTL

\* Two reception buffers suffice when fragments are overtaken at most by those of the
\* next packet: nothing is stranded, however many packets follow and however often
\* their numbers wrap around, if the numbers are at least four and of even count.
THEOREM TwoBuffersSuffice == ModulusFits => (Spec => []NothingStranded)
<1>1. LinkInv => NothingStranded
    BY DEF LinkInv, WindowInv, NoneMissing, Complete, NothingStranded, HandedOn
<1> QED BY <1>1, LinkInvCorrect, PTL

------------------------------------------------------------------------------
(* The link implements PacketLink.                                         *)

LEMMA StartsEmpty == Init => Link!Init
<1> SUFFICES ASSUME Init PROVE Link!Init
    OBVIOUS
<1>1. Len(sent) = 0
    BY DEF Init
<1>2. PacketsSent = <<>>
    BY <1>1 DEF PacketsSent
<1> QED BY <1>2 DEF Link!Init, Init

\* The packets of which s has the sizes.
PacketsOf(s) == [i \in 1 .. Len(s) |-> [b \in 1 .. s[i] |-> i - 1]]

LEMMA PacketsOfSizes ==
    ASSUME NEW s \in Seq(1 .. MaxSize), Len(s) <= MaxSent
    PROVE  PacketsOf(s) \in Seq(Packet) /\ Len(PacketsOf(s)) = Len(s)
<1>1. Len(s) \in Nat
    OBVIOUS
<1>2. ASSUME NEW i \in 1 .. Len(s) PROVE PacketsOf(s)[i] \in Packet
  <2>1. s[i] \in 1 .. MaxSize
    BY ElementOfSeq
  <2>2. i - 1 \in 0 .. MaxSent - 1
    BY <1>1, LinkAssumption
  <2> QED BY <2>1, <2>2 DEF Packet, PacketsOf
<1> QED BY <1>1, <1>2 DEF PacketsOf

LEMMA PacketsSentAre ==
    ASSUME NEW s, s = sent, Len(s) \in Nat
    PROVE  PacketsSent = PacketsOf(s)
<1>1. \A i \in 1 .. Len(s) : (i - 1) + 1 = i
    OBVIOUS
<1> QED BY <1>1 DEF PacketsSent, PacketSent, PacketsOf

\* One more packet is one more at the end.
LEMMA PacketsAppended ==
    ASSUME NEW s \in Seq(1 .. MaxSize), NEW size \in 1 .. MaxSize, Len(s) < MaxSent
    PROVE  \E p \in Packet : PacketsOf(Append(s, size)) = Append(PacketsOf(s), p)
<1> DEFINE t == Append(s, size)
<1>1. /\ Len(s) \in Nat /\ t \in Seq(1 .. MaxSize) /\ Len(t) = Len(s) + 1 /\ Len(t) <= MaxSent
      /\ t[Len(s) + 1] = size /\ \A i \in 1 .. Len(s) : t[i] = s[i]
    BY LinkAssumption
<1>2. Len(s) \in 0 .. MaxSent - 1
    BY <1>1, LinkAssumption
<1>3. PICK p \in Packet : p = [b \in 1 .. size |-> Len(s)]
  <2>1. PICK n \in 0 .. MaxSent - 1 : n = Len(s)
    BY <1>2
  <2>2. [b \in 1 .. size |-> n] \in Packet
    BY DEF Packet
  <2> QED BY <2>1, <2>2
<1>4. PacketsOf(s) \in Seq(Packet) /\ Len(PacketsOf(s)) = Len(s)
    BY <1>1, LinkAssumption, PacketsOfSizes
<1>5. PacketsOf(t) \in Seq(Packet) /\ Len(PacketsOf(t)) = Len(s) + 1
    BY <1>1, PacketsOfSizes
<1>6. /\ Append(PacketsOf(s), p) \in Seq(Packet)
      /\ Len(Append(PacketsOf(s), p)) = Len(s) + 1
      /\ Append(PacketsOf(s), p)[Len(s) + 1] = p
      /\ \A i \in 1 .. Len(s) : Append(PacketsOf(s), p)[i] = PacketsOf(s)[i]
    BY <1>1, <1>4
<1> HIDE DEF t
<1>7. ASSUME NEW i \in 1 .. Len(s) + 1
      PROVE  PacketsOf(t)[i] = Append(PacketsOf(s), p)[i]
  <2>1. PacketsOf(t)[i] = [b \in 1 .. t[i] |-> i - 1]
    BY <1>1 DEF PacketsOf
  <2>2. CASE i = Len(s) + 1
    <3>1. i - 1 = Len(s)
      BY <1>1, <2>2
    <3> QED BY <1>1, <1>3, <1>6, <2>1, <2>2, <3>1
  <2>3. CASE i # Len(s) + 1
    <3>1. i \in 1 .. Len(s)
      BY <1>1, <2>3
    <3>2. PacketsOf(s)[i] = [b \in 1 .. s[i] |-> i - 1]
      BY <3>1 DEF PacketsOf
    <3> QED BY <1>1, <1>6, <2>1, <3>1, <3>2
  <2> QED BY <2>2, <2>3
<1>8. PacketsOf(t) = Append(PacketsOf(s), p)
    BY <1>5, <1>6, <1>7, SeqEqual
<1> QED BY <1>8 DEF t

\* A step that sends is a step of the link that sends.
LEMMA SendSends ==
    ASSUME TypeOK, NEW size \in 1 .. MaxSize, SendData(size)
    PROVE  Link!Next
<1>1. sent \in Seq(1 .. MaxSize) /\ Len(sent) < MaxSent /\ sent' = Append(sent, size)
    BY DEF TypeOK, SendData
<1>2. PICK s \in Seq(1 .. MaxSize) : s = sent
    BY <1>1
<1>3. PICK p \in Packet : PacketsOf(Append(s, size)) = Append(PacketsOf(s), p)
    BY <1>1, <1>2, PacketsAppended
<1>4. PacketsSent = PacketsOf(s)
    BY <1>2, PacketsSentAre
<1>5. PacketsSent' = PacketsOf(Append(s, size))
  <2>1. PICK t : t = Append(s, size)
    OBVIOUS
  <2>2. t = sent' /\ Len(t) \in Nat
    BY <1>1, <1>2, <2>1
  <2>3. \A i \in 1 .. Len(t) : (i - 1) + 1 = i
    BY <2>2
  <2>4. PacketsSent' = PacketsOf(t)
    BY <2>2, <2>3 DEF PacketsSent, PacketSent, PacketsOf
  <2> QED BY <2>1, <2>4
<1>6. delivered' = delivered
    BY DEF SendData
<1> QED BY <1>3, <1>4, <1>5, <1>6 DEF Link!Next, Link!SendData

\* A fragment that arrives hands on a packet that was sent, or nothing.
LEMMA ReceiveDelivers ==
    ASSUME LinkInv, LinkInv', NEW f, FragmentReceived(f)
    PROVE  Link!Next \/ UNCHANGED <<PacketsSent, delivered>>
<1>1. TypeOK /\ NoMixedPacket' /\ sent' = sent
    BY DEF LinkInv, WindowInv, IntegrityInv, FragmentReceived
<1>2. PacketsSent' = PacketsSent
    BY <1>1 DEF PacketsSent, PacketSent
<1>3. PICK d : delivered' = delivered \/ delivered' = delivered \cup {d}
    BY DEF FragmentReceived
<1>4. CASE delivered' = delivered \cup {d}
  <2>1. PICK n \in 0 .. Len(sent) - 1 : d = PacketSent(n)
    BY <1>1, <1>4 DEF NoMixedPacket, PacketSent
  <2>2. Len(sent) \in Nat
    BY <1>1 DEF TypeOK
  <2>3. n + 1 \in 1 .. Len(sent) /\ (n + 1) - 1 = n
    BY <2>2
  <2>4. n + 1 \in DOMAIN PacketsSent /\ PacketsSent[n + 1] = d
    BY <2>1, <2>3 DEF PacketsSent
  <2> QED BY <1>2, <1>4, <2>4 DEF Link!Next, Link!Deliver
<1> QED BY <1>2, <1>3, <1>4

\* FragmentingLink implements the link that routers rely on: packets are handed on as they
\* were sent, whatever the network does to their fragments.
THEOREM LinkImplemented == ModulusFits => (Spec => ImplementsLink)
<1> SUFFICES ASSUME ModulusFits PROVE Spec => ImplementsLink
    OBVIOUS
<1>1. Init => Link!Init
    BY StartsEmpty
<1>2. LinkInv /\ LinkInv' /\ [Next]_vars => [Link!Next]_<<PacketsSent, delivered>>
  <2> SUFFICES ASSUME LinkInv, LinkInv', [Next]_vars
               PROVE  Link!Next \/ UNCHANGED <<PacketsSent, delivered>>
    OBVIOUS
  <2>1. ASSUME NEW size \in 1 .. MaxSize, SendData(size) PROVE Link!Next
    BY <2>1, SendSends DEF LinkInv, WindowInv, IntegrityInv
  <2>2. ASSUME NEW f \in net, Arrive(f) \/ Duplicate(f)
        PROVE  Link!Next \/ UNCHANGED <<PacketsSent, delivered>>
    BY <2>2, ReceiveDelivers DEF Arrive, Duplicate
  <2>3. ASSUME NEW f \in net, Lose(f) PROVE UNCHANGED <<PacketsSent, delivered>>
    BY <2>3 DEF Lose, PacketsSent, PacketSent
  <2>4. CASE UNCHANGED vars
    BY <2>4 DEF vars, PacketsSent, PacketSent
  <2> QED BY <2>1, <2>2, <2>3, <2>4 DEF Next
<1>3. Spec => []LinkInv
    BY LinkInvCorrect
<1> QED BY <1>1, <1>2, <1>3, PTL DEF Spec, ImplementsLink, Link!Spec

------------------------------------------------------------------------------
(* The buffers implement ReceptionBuffer, with blocks for bytes.           *)

\* The positions of the blocks that a buffer holds, from 0.
Positions(buffer) == {k - 1 : k \in DOMAIN buffer.blocks}

\* What isFullPacketAvailable says of a buffer; of one that got no fragment yet, no.
Answer(buffer) == buffer.size # 0 /\ IsFullPacketAvailable(buffer)

Even == INSTANCE ReceptionBuffer WITH
    Number <- 0 .. NumberModulus - 1, Length <- 1 .. MaxSize,
    packetNumber <- buffers[0].number, expectedSize <- buffers[0].size,
    bytes <- Positions(buffers[0]), complete <- Answer(buffers[0])

Odd == INSTANCE ReceptionBuffer WITH
    Number <- 0 .. NumberModulus - 1, Length <- 1 .. MaxSize,
    packetNumber <- buffers[1].number, expectedSize <- buffers[1].size,
    bytes <- Positions(buffers[1]), complete <- Answer(buffers[1])

\* sendData makes fragments that lie within their packet.
FragmentsFit == \A f \in net : f.block <= f.size

FitInv == TypeOK /\ FragmentsFit

LEMMA FitInvCorrect == Spec => []FitInv
<1>1. Init => FitInv
    BY TypeInit DEF Init, FitInv, FragmentsFit
<1>2. FitInv /\ [Next]_vars => FitInv'
  <2> SUFFICES ASSUME FitInv, [Next]_vars PROVE FragmentsFit'
      BY TypeNext DEF FitInv
  <2>1. ASSUME NEW size \in 1 .. MaxSize, SendData(size) PROVE FragmentsFit'
    <3>1. \A f \in Fragments(Len(sent), size) : f.block <= f.size
        BY LinkAssumption DEF Fragments
    <3> QED BY <2>1, <3>1 DEF SendData, FitInv, FragmentsFit
  <2>2. ASSUME net' \subseteq net PROVE FragmentsFit'
      BY <2>2 DEF FitInv, FragmentsFit
  <2>3. ASSUME NEW f \in net, Arrive(f) \/ Duplicate(f) \/ Lose(f) PROVE FragmentsFit'
      BY <2>2, <2>3 DEF Arrive, Duplicate, Lose
  <2>4. CASE UNCHANGED vars
      BY <2>2, <2>4 DEF vars
  <2> QED BY <2>1, <2>3, <2>4 DEF Next
<1> QED BY <1>1, <1>2, PTL DEF Spec

\* A fragment adds one block to its packet, and the answer tells whether it was the last one.
LEMMA BlockReceived ==
    ASSUME FitInv, NEW b \in Buffer, NEW f \in net, NEW r, r = Received(buffers[b], f)
    PROVE  /\ r.number = f.number /\ r.size = f.size
           /\ f.number \in 0 .. NumberModulus - 1 /\ f.size \in 1 .. MaxSize
           /\ f.block - 1 \in 0 .. f.size /\ f.block \in f.block - 1 .. f.size
           /\ Positions(r) = (IF buffers[b].number = f.number /\ buffers[b].size = f.size
                              THEN Positions(buffers[b]) ELSE {}) \cup f.block - 1 .. f.block - 1
           /\ Answer(r) = (Positions(r) = 0 .. f.size - 1)
<1>1. /\ f.number \in 0 .. NumberModulus - 1 /\ f.size \in 1 .. MaxSize
      /\ f.block \in 1 .. MaxSize /\ f.block <= f.size
    BY DEF FitInv, FragmentsFit, TypeOK, Fragment
<1>2. f.size \in Nat /\ f.size # 0 /\ f.block \in Nat /\ f.block >= 1
    BY <1>1, LinkAssumption
<1>3. PICK held \in SUBSET (1 .. MaxSize) : DOMAIN buffers[b].blocks = held
  <2>1. buffers[b].blocks \in Content
      BY DEF FitInv, TypeOK
  <2> QED BY <2>1 DEF Content
<1>4. PICK old \in SUBSET (1 .. MaxSize) : old = IF Continues(buffers[b], f) THEN held ELSE {}
    OBVIOUS
<1>5. r.number = f.number /\ r.size = f.size /\ DOMAIN r.blocks = old \cup {f.block}
    BY <1>3, <1>4 DEF Received
<1>6. Positions(r) = {k - 1 : k \in old} \cup {f.block - 1}
    BY <1>5 DEF Positions
<1>7. Positions(buffers[b]) = {k - 1 : k \in held}
    BY <1>3 DEF Positions
<1>8. {k - 1 : k \in old} = IF buffers[b].number = f.number /\ buffers[b].size = f.size
                            THEN Positions(buffers[b]) ELSE {}
    BY <1>4, <1>7 DEF Continues
<1>9. f.block - 1 .. f.block - 1 = {f.block - 1}
    BY <1>2
<1>10. Answer(r) <=> Positions(r) = 0 .. f.size - 1
  <2>1. PICK D \in SUBSET Nat : D = old \cup {f.block}
    <3>1. \A k \in 1 .. MaxSize : k \in Nat
        BY LinkAssumption
    <3>2. old \cup {f.block} \in SUBSET Nat
        BY <1>2, <3>1
    <3> QED BY <3>2
  <2>2. Positions(r) = {k - 1 : k \in D} /\ (Answer(r) <=> D = 1 .. f.size)
      BY <1>2, <1>5, <2>1 DEF Positions, Answer, IsFullPacketAvailable
  <2>3. D = 1 .. f.size => {k - 1 : k \in D} = 0 .. f.size - 1
    <3>1. \A m \in 0 .. f.size - 1 : m + 1 \in 1 .. f.size /\ (m + 1) - 1 = m
        BY <1>2
    <3>2. \A k \in 1 .. f.size : k - 1 \in 0 .. f.size - 1
        BY <1>2
    <3> QED BY <3>1, <3>2
  <2>4. {k - 1 : k \in D} = 0 .. f.size - 1 => D = 1 .. f.size
    <3> SUFFICES ASSUME {k - 1 : k \in D} = 0 .. f.size - 1 PROVE D = 1 .. f.size
        OBVIOUS
    <3>1. \A k \in D : k - 1 \in 0 .. f.size - 1
        OBVIOUS
    <3>2. D \subseteq 1 .. f.size
        BY <1>2, <3>1
    <3>3. ASSUME NEW m \in 1 .. f.size PROVE m \in D
      <4>1. m - 1 \in 0 .. f.size - 1
          BY <1>2
      <4>2. PICK k \in D : k - 1 = m - 1
          BY <4>1
      <4> QED BY <4>2
    <3> QED BY <3>2, <3>3
  <2> QED BY <2>2, <2>3, <2>4
<1>11. Answer(r) \in BOOLEAN
    BY DEF Answer, IsFullPacketAvailable
<1>12. f.block - 1 \in 0 .. f.size /\ f.block \in f.block - 1 .. f.size
    BY <1>1, <1>2
<1> QED BY <1>1, <1>5, <1>6, <1>8, <1>9, <1>10, <1>11, <1>12

\* What a step of the link does to a buffer.
LEMMA BufferChanges ==
    ASSUME FitInv, [Next]_vars, NEW b \in Buffer
    PROVE  \/ buffers'[b] = buffers[b]
           \/ \E f \in net : buffers'[b] = Received(buffers[b], f)
<1>1. ASSUME NEW f \in net, Arrive(f) \/ Duplicate(f)
      PROVE  buffers'[b] = buffers[b] \/ buffers'[b] = Received(buffers[b], f)
    BY <1>1 DEF Arrive, Duplicate, FragmentReceived, FitInv, TypeOK
<1>2. CASE UNCHANGED buffers
    BY <1>2
<1> QED BY <1>1, <1>2 DEF Next, SendData, Lose, vars

\* Both reception buffers of a link are what PacketDefragmenter is proved to implement.
THEOREM BuffersImplementReception == Spec => Even!Spec /\ Odd!Spec
<1>1. Init => Even!Init /\ Odd!Init
  <2> SUFFICES ASSUME Init PROVE Even!Init /\ Odd!Init
      OBVIOUS
  <2>1. ASSUME NEW b \in Buffer
        PROVE  /\ buffers[b].number = 0 /\ buffers[b].size = 0
               /\ Positions(buffers[b]) = {} /\ Answer(buffers[b]) = FALSE
    <3>1. buffers[b] = [number |-> 0, size |-> 0, blocks |-> <<>>]
        BY DEF Init
    <3> QED BY <3>1 DEF Positions, Answer
  <2> QED BY <2>1, BufferRange DEF Even!Init, Odd!Init
<1>2. FitInv /\ [Next]_vars => [Even!Next]_(Even!vars)
  <2> SUFFICES ASSUME FitInv, [Next]_vars PROVE Even!Next \/ UNCHANGED Even!vars
      OBVIOUS
  <2>1. CASE buffers'[0] = buffers[0]
      BY <2>1 DEF Even!vars
  <2>2. ASSUME NEW f \in net, buffers'[0] = Received(buffers[0], f) PROVE Even!Next
    <3>1. Even!Receive(f.number, f.size, f.block - 1, f.block)
        BY <2>2, BlockReceived, BufferRange DEF Even!Receive, Even!Continues
    <3> QED BY <3>1, BlockReceived, BufferRange DEF Even!Next
  <2> QED BY <2>1, <2>2, BufferChanges, BufferRange
<1>3. FitInv /\ [Next]_vars => [Odd!Next]_(Odd!vars)
  <2> SUFFICES ASSUME FitInv, [Next]_vars PROVE Odd!Next \/ UNCHANGED Odd!vars
      OBVIOUS
  <2>1. CASE buffers'[1] = buffers[1]
      BY <2>1 DEF Odd!vars
  <2>2. ASSUME NEW f \in net, buffers'[1] = Received(buffers[1], f) PROVE Odd!Next
    <3>1. Odd!Receive(f.number, f.size, f.block - 1, f.block)
        BY <2>2, BlockReceived, BufferRange DEF Odd!Receive, Odd!Continues
    <3> QED BY <3>1, BlockReceived, BufferRange DEF Odd!Next
  <2> QED BY <2>1, <2>2, BufferChanges, BufferRange
<1> QED BY <1>1, <1>2, <1>3, FitInvCorrect, PTL DEF Spec, Even!Spec, Odd!Spec

==============================================================================
