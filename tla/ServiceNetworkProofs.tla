------------------------ MODULE ServiceNetworkProofs ------------------------
(***************************************************************************)
(* The two ways to an address of the service network agree, for the bytes  *)
(* the code has.                                                           *)
(***************************************************************************)
EXTENDS ServiceNetwork, TLAPS

\* 32 bits.
LEMMA AddressCount ==
    ASSUME ByteSize = 256
    PROVE  Addresses = 4294967296
BY SMT DEF Addresses

\* The four bytes of an address.
LEMMA IPBytes ==
    ASSUME NEW ip \in IP
    PROVE  ip[1] \in Byte /\ ip[2] \in Byte /\ ip[3] \in Byte /\ ip[4] \in Byte
BY DEF IP

\* A byte more, and a number of one, two or three bytes has one more.
LEMMA JoinBounds ==
    ASSUME ByteSize = 256, NEW n \in Nat, NEW byte \in Byte
    PROVE  /\ Join(n, byte) \in Nat
           /\ n < 256 => Join(n, byte) < 65536
           /\ n < 65536 => Join(n, byte) < 16777216
           /\ n < 16777216 => Join(n, byte) < 4294967296
BY SMT DEF Join, Byte

LEMMA NumberBounds ==
    ASSUME ByteSize = 256, NEW ip \in IP
    PROVE  Addresses \in Nat /\ Number(ip) \in 0..(Addresses - 1)
<1> DEFINE h2 == Join(ip[1], ip[2])
           h3 == Join(h2, ip[3])
<1>1. /\ ip[1] \in Byte /\ ip[2] \in Byte /\ ip[3] \in Byte /\ ip[4] \in Byte
      /\ ip[1] \in Nat /\ ip[1] < 256
  BY IPBytes DEF Byte
<1>2. h2 \in Nat /\ h2 < 65536
  BY <1>1, JoinBounds
<1>3. h3 \in Nat /\ h3 < 16777216
  BY <1>1, <1>2, JoinBounds
<1>4. Number(ip) \in Nat /\ Number(ip) < 4294967296
  BY <1>1, <1>3, JoinBounds, SMT DEF Number
<1> QED
  BY <1>4, AddressCount, SMT

\* A shift by a byte and its remainder.
LEMMA ShiftRest ==
    ASSUME ByteSize = 256, NEW n \in Nat
    PROVE  /\ Shift(n) \in Nat
           /\ n % ByteSize \in Byte
           /\ Join(Shift(n), n % ByteSize) = n
<1>1. Shift(n) = n \div 256 /\ n % ByteSize = n % 256 /\ Byte = 0..255
  BY DEF Shift, Byte
<1> QED
  BY <1>1, SMT DEF Join

\* Every number below 2^32 is that of the address Bytes makes of it.
LEMMA BytesNumber ==
    ASSUME ByteSize = 256, NEW n \in 0..(Addresses - 1)
    PROVE  Bytes(n) \in IP /\ Number(Bytes(n)) = n
<1> DEFINE c == Shift(n)
           b == Shift(Shift(n))
           a == Shift(Shift(Shift(n)))
<1>1. n \in Nat /\ n < 4294967296
  BY AddressCount, SMT
<1>2. c \in Nat /\ n % ByteSize \in Byte /\ Join(c, n % ByteSize) = n
  BY <1>1, ShiftRest
<1>3. b \in Nat /\ c % ByteSize \in Byte /\ Join(b, c % ByteSize) = c
  BY <1>2, ShiftRest
<1>4. a \in Nat /\ b % ByteSize \in Byte /\ Join(a, b % ByteSize) = b
  BY <1>3, ShiftRest
<1>5. Bytes(n) = <<a % ByteSize, b % ByteSize, c % ByteSize, n % ByteSize>>
  BY DEF Bytes
<1> HIDE DEF a, b, c
<1>6. a % ByteSize = a /\ a \in Byte
  BY <1>1, <1>2, <1>3, <1>4, SMT DEF Byte, Join
<1>7. Bytes(n) \in IP
  BY <1>2, <1>3, <1>4, <1>5, <1>6, SMT DEF IP
<1>8. Number(Bytes(n)) =
        Join(Join(Join(a, b % ByteSize), c % ByteSize), n % ByteSize)
  BY <1>5, <1>6 DEF Number
<1> QED
  BY <1>2, <1>3, <1>4, <1>7, <1>8

LEMMA JoinNat ==
    ASSUME ByteSize = 256, NEW n \in Nat, NEW byte \in Byte
    PROVE  Join(n, byte) \in Nat
BY SMT DEF Join, Byte

\* One more, with a carry into the number before the byte or without.
LEMMA JoinNext ==
    ASSUME ByteSize = 256, NEW n \in Nat, NEW byte \in Byte
    PROVE  /\ byte # 255 => Join(n, (byte + 1) % ByteSize) = Join(n, byte) + 1
           /\ Join(n + 1, (255 + 1) % ByteSize) = Join(n, 255) + 1
           /\ Join(n, byte) \in Nat
BY SMT DEF Join, Byte

\* Only the last of all addresses has no next one.
LEMMA AddIPExists ==
    ASSUME ByteSize = 256, NEW ip \in IP, Number(ip) # Addresses - 1
    PROVE  addIP(ip) # NoIP
<1>1. SUFFICES ASSUME Carries(ip, 0) PROVE FALSE
  BY DEF addIP, NoIP
<1>2. ip[1] = 255 /\ ip[2] = 255 /\ ip[3] = 255 /\ ip[4] = 255
  BY <1>1, SMT DEF Carries
<1>3. Number(ip) = 256 * (256 * (256 * 255 + 255) + 255) + 255
  BY <1>2 DEF Number, Join
<1> QED
  BY <1>3, AddressCount, SMT

\* addIP counts one up, unless it runs out of the IPv4 range.
LEMMA AddIPNumber ==
    ASSUME ByteSize = 256, NEW ip \in IP, addIP(ip) # NoIP
    PROVE  addIP(ip) \in IP /\ Number(addIP(ip)) = Number(ip) + 1
<1> DEFINE next(i) == (ip[i] + 1) % ByteSize
           up == addIP(ip)
<1>1. /\ Carries(ip, 4)
      /\ Carries(ip, 3) <=> ip[4] = 255
      /\ Carries(ip, 2) <=> ip[4] = 255 /\ ip[3] = 255
      /\ Carries(ip, 1) <=> ip[4] = 255 /\ ip[3] = 255 /\ ip[2] = 255
      /\ Carries(ip, 0) <=> /\ ip[4] = 255 /\ ip[3] = 255
                            /\ ip[2] = 255 /\ ip[1] = 255
  BY SMT DEF Carries
<1>2. ~ Carries(ip, 0)
  BY DEF addIP
<1>3. up = [i \in 1..4 |-> IF Carries(ip, i)
                           THEN (ip[i] + 1) % ByteSize ELSE ip[i]]
  BY <1>2 DEF addIP
<1>4. up \in IP
  <2>1. \A i \in 1..4 : ip[i] \in Byte /\ (ip[i] + 1) % ByteSize \in Byte
    BY SMT DEF IP, Byte
  <2> QED
    BY <1>3, <2>1 DEF IP
<1>5. /\ up[4] = next(4)
      /\ up[3] = IF ip[4] = 255 THEN next(3) ELSE ip[3]
      /\ up[2] = IF ip[4] = 255 /\ ip[3] = 255 THEN next(2) ELSE ip[2]
      /\ up[1] = IF ip[4] = 255 /\ ip[3] = 255 /\ ip[2] = 255
                 THEN next(1) ELSE ip[1]
  BY <1>1, <1>3, SMT
<1> DEFINE h1 == ip[1]
           h2 == Join(ip[1], ip[2])
           h3 == Join(Join(ip[1], ip[2]), ip[3])
<1>6. /\ ip[1] \in Byte /\ ip[2] \in Byte /\ ip[3] \in Byte /\ ip[4] \in Byte
      /\ h1 \in Nat /\ h2 \in Nat /\ h3 \in Nat
  <2>1. ip[1] \in Byte /\ ip[2] \in Byte /\ ip[3] \in Byte /\ ip[4] \in Byte
    BY IPBytes
  <2>2. h1 \in Nat
    BY <2>1, SMT DEF Byte
  <2>3. h2 \in Nat
    BY <2>1, <2>2, JoinNat, Zenon
  <2>4. h3 \in Nat
    BY <2>1, <2>3, JoinNat, Zenon
  <2> QED
    BY <2>1, <2>2, <2>3, <2>4
<1>7. Number(ip) = Join(h3, ip[4]) /\ h3 = Join(h2, ip[3]) /\ h2 = Join(h1, ip[2])
  BY DEF Number
<1>8. Number(up) = Join(Join(Join(up[1], up[2]), up[3]), up[4])
  BY DEF Number
<1> HIDE DEF h1, h2, h3, up
<1>9. CASE ip[4] # 255
  <2>1. Number(up) = Join(h3, next(4))
    BY <1>5, <1>8, <1>9 DEF h3
  <2> QED
    BY <1>4, <1>6, <1>7, <1>9, <2>1, JoinNext DEF up
<1>10. CASE ip[4] = 255 /\ ip[3] # 255
  <2>1. Number(up) = Join(Join(h2, next(3)), next(4))
    BY <1>5, <1>8, <1>10 DEF h2
  <2>2. Join(h2, next(3)) = h3 + 1
    BY <1>6, <1>7, <1>10, JoinNext
  <2>3. Join(h3 + 1, next(4)) = Join(h3, ip[4]) + 1
    BY <1>6, <1>10, JoinNext
  <2> QED
    BY <1>4, <1>7, <2>1, <2>2, <2>3 DEF up
<1>11. CASE ip[4] = 255 /\ ip[3] = 255
  <2>1. Join(up[1], up[2]) = h2 + 1
    <3>1. CASE ip[2] # 255
      <4>1. up[1] = h1 /\ up[2] = next(2)
        BY <1>5, <1>11, <3>1 DEF h1
      <4>2. Join(h1, next(2)) = Join(h1, ip[2]) + 1
        BY <1>6, <3>1, JoinNext
      <4> QED
        BY <1>7, <4>1, <4>2
    <3>2. CASE ip[2] = 255
      <4>1. up[1] = h1 + 1
        BY <1>1, <1>2, <1>5, <1>6, <1>11, <3>2, SMT DEF h1, Byte
      <4>2. up[2] = (255 + 1) % ByteSize
        BY <1>5, <1>11, <3>2
      <4>3. Join(h1 + 1, (255 + 1) % ByteSize) = Join(h1, 255) + 1
        BY <1>6, JoinNext
      <4> QED
        BY <1>7, <3>2, <4>1, <4>2, <4>3
    <3> QED
      BY <3>1, <3>2
  <2>2. Join(h2 + 1, next(3)) = h3 + 1
    BY <1>6, <1>7, <1>11, JoinNext
  <2>3. Join(h3 + 1, next(4)) = Join(h3, ip[4]) + 1
    BY <1>6, <1>11, JoinNext
  <2> QED
    BY <1>4, <1>5, <1>7, <1>8, <1>11, <2>1, <2>2, <2>3 DEF up
<1> QED
  BY <1>4, <1>9, <1>10, <1>11 DEF up

\* A number and a byte can be told from the number they make together.
LEMMA JoinInjective ==
    ASSUME ByteSize = 256, NEW m \in Nat, NEW n \in Nat,
           NEW a \in Byte, NEW b \in Byte, Join(m, a) = Join(n, b)
    PROVE  m = n /\ a = b
BY SMT DEF Join, Byte

\* Addresses with the same number are the same.
LEMMA NumberInjective ==
    ASSUME ByteSize = 256, NEW x \in IP, NEW y \in IP, Number(x) = Number(y)
    PROVE  x = y
<1>1. \A ip \in IP : /\ ip[1] \in Byte /\ ip[2] \in Byte
                      /\ ip[3] \in Byte /\ ip[4] \in Byte
  BY IPBytes
<1>2. \A n \in Nat, byte \in Byte : Join(n, byte) \in Nat
  BY JoinNext
<1>3. \A ip \in IP : /\ ip[1] \in Nat /\ Join(ip[1], ip[2]) \in Nat
                      /\ Join(Join(ip[1], ip[2]), ip[3]) \in Nat
  <2>1. Byte \subseteq Nat
    BY SMT DEF Byte
  <2> QED
    BY <1>1, <1>2, <2>1, Zenon
<1>4. /\ Join(Join(x[1], x[2]), x[3]) = Join(Join(y[1], y[2]), y[3])
      /\ x[4] = y[4]
  BY <1>1, <1>3, JoinInjective DEF Number
<1>5. Join(x[1], x[2]) = Join(y[1], y[2]) /\ x[3] = y[3]
  BY <1>1, <1>3, <1>4, JoinInjective
<1>6. x[1] = y[1] /\ x[2] = y[2]
  BY <1>1, <1>3, <1>5, JoinInjective
<1>7. \A i \in 1..4 : x[i] = y[i]
  BY <1>4, <1>5, <1>6
<1> QED
  BY <1>7 DEF IP

-----------------------------------------------------------------------------

\* IPAtOffset finds exactly the addresses of the network: the address at an
\* offset exists if and only if the network is larger than the offset, and is
\* then the network's own address plus the offset.  The offset's sum with a
\* 32-bit number may overflow; the check of the network catches that.
THEOREM OffsetInNetwork ==
    ASSUME ByteSize = 256, NEW n \in Networks,
           NEW offset \in 0..(Addresses - 1)
    PROVE  /\ IPAtOffset(n, offset) # NoIP <=> offset < n.size
           /\ offset < n.size =>
                 /\ IPAtOffset(n, offset) \in IP
                 /\ Number(IPAtOffset(n, offset)) = Number(n.ip) + offset
<1> DEFINE t == Target(n, offset)
<1>1. /\ n.ip \in IP /\ n.size \in 1..Addresses
      /\ Number(n.ip) + n.size <= Addresses
  BY DEF Networks
<1>2. Addresses \in Nat /\ Number(n.ip) \in 0..(Addresses - 1)
  BY <1>1, NumberBounds
<1>3. /\ t \in 0..(Addresses - 1)
      /\ t = IF Number(n.ip) + offset < Addresses
             THEN Number(n.ip) + offset
             ELSE Number(n.ip) + offset - Addresses
  <2>1. t = (Number(n.ip) + offset) % 4294967296
    BY AddressCount DEF Target
  <2> QED
    BY <1>2, <2>1, AddressCount, SMT
<1>4. Contains(n, t) <=> offset < n.size
  BY <1>1, <1>2, <1>3, SMT DEF Contains
<1>5. Bytes(t) \in IP /\ Number(Bytes(t)) = t
  BY <1>3, BytesNumber
<1>6. Bytes(t) # NoIP
  BY DEF Bytes, NoIP
<1>7. offset < n.size => t = Number(n.ip) + offset
  BY <1>1, <1>2, <1>3, SMT
<1> QED
  BY <1>4, <1>5, <1>6, <1>7 DEF IPAtOffset

\* The first service address, which certificates name, is the one IPAtOffset
\* has at offset one, in every network of two or more addresses; and the DNS
\* address, where there is one, is another.
THEOREM FirstIsAtOffsetOne ==
    ASSUME ByteSize = 256, NEW n \in Networks, n.size >= 2
    PROVE  /\ firstServiceIP(n) # NoIP
           /\ firstServiceIP(n) = IPAtOffset(n, 1)
           /\ dnsIP(n) # firstServiceIP(n)
<1>1. /\ n.ip \in IP /\ n.size \in 1..Addresses
      /\ Number(n.ip) + n.size <= Addresses
  BY DEF Networks
<1>2. Addresses \in Nat /\ Number(n.ip) \in 0..(Addresses - 1)
  BY <1>1, NumberBounds
<1>3. Number(n.ip) # Addresses - 1
  BY <1>1, <1>2, SMT
<1>4. /\ firstServiceIP(n) # NoIP /\ firstServiceIP(n) \in IP
      /\ Number(firstServiceIP(n)) = Number(n.ip) + 1
  BY <1>1, <1>3, AddIPExists, AddIPNumber DEF firstServiceIP
<1>5. IPAtOffset(n, 1) \in IP /\ Number(IPAtOffset(n, 1)) = Number(n.ip) + 1
  <2>1. 1 \in 0..(Addresses - 1) /\ 1 < n.size
    BY <1>1, <1>2, SMT
  <2> QED
    BY <2>1, OffsetInNetwork
<1>6. dnsIP(n) # NoIP => Number(dnsIP(n)) = Number(n.ip) + 10
  <2>1. 10 \in 0..(Addresses - 1)
    BY AddressCount, SMT
  <2> QED
    BY <2>1, OffsetInNetwork DEF dnsIP, DNSOffset
<1>7. Number(n.ip) + 1 # Number(n.ip) + 10
  BY <1>2, SMT
<1> QED
  BY <1>4, <1>5, <1>6, <1>7, NumberInjective
=============================================================================
