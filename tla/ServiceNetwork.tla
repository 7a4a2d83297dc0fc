--------------------------- MODULE ServiceNetwork ---------------------------
(***************************************************************************)
(* Addresses in the service network of a managed cluster.  The code picks  *)
(* them in two ways: firstServiceIP (pkg/resources/pki) adds one to the    *)
(* bytes of the network's address and goes into certificates, IPAtOffset   *)
(* (pkg/utils) adds an offset to a 32-bit number and gives the address of  *)
(* the cluster's DNS.  kube-apiserver takes the network's first address    *)
(* for the Service "kubernetes", so the two ways have to agree.            *)
(*                                                                         *)
(* A network is what net.ParseCIDR returns: a masked IPv4 address and how  *)
(* many addresses follow it.  ByteSize is 256 in the code and in the       *)
(* proofs; TLC takes smaller bytes, its integers have 32 bits.             *)
(***************************************************************************)
EXTENDS Integers

CONSTANT ByteSize

ASSUME ByteAssumption == ByteSize \in Nat \ {0, 1}

Byte == 0..(ByteSize - 1)
IP == [1..4 -> Byte]

NoIP == <<>>    \* nil: To4 of what no longer is an IPv4 address

Addresses == ByteSize * (ByteSize * (ByteSize * ByteSize))

Shift(n) == n \div ByteSize
Join(n, byte) == ByteSize * n + byte

\* The bytes put together: ip[0]<<24 | ip[1]<<16 | ip[2]<<8 | ip[3]
Number(ip) == Join(Join(Join(ip[1], ip[2]), ip[3]), ip[4])

\* And taken apart: byte(n>>24), byte(n>>16), byte(n>>8), byte(n)
Bytes(n) == <<Shift(Shift(Shift(n))) % ByteSize, Shift(Shift(n)) % ByteSize,
              Shift(n) % ByteSize, n % ByteSize>>

\* What net.ParseCIDR returns lies within the address space.
Networks == {n \in [ip : IP, size : 1..Addresses] :
                Number(n.ip) + n.size <= Addresses}

\* The sum of an address and an offset, as Go's uint32 takes it.
Target(n, offset) == (Number(n.ip) + offset) % Addresses

Contains(n, number) ==
    Number(n.ip) <= number /\ number < Number(n.ip) + n.size

IPAtOffset(n, offset) ==
    IF Contains(n, Target(n, offset)) THEN Bytes(Target(n, offset)) ELSE NoIP

\* addIP(ip, 1): a byte takes the carry when all bytes after it overflow.  A
\* carry out of the last of the four leaves the IPv4 range.
Carries(ip, i) == \A j \in 1..4 : j > i => ip[j] = ByteSize - 1

addIP(ip) ==
    IF Carries(ip, 0)
    THEN NoIP
    ELSE [i \in 1..4 |-> IF Carries(ip, i) THEN (ip[i] + 1) % ByteSize
                                           ELSE ip[i]]

\* Mutant: the carry is lost.
addIPCarryless(ip) == [ip EXCEPT ![1] = (@ + 1) % ByteSize]

firstServiceIP(n) == addIP(n.ip)

\* The offset of the DNS Service's address (addons.go, rbac.go).
DNSOffset == 10
dnsIP(n) == IPAtOffset(n, DNSOffset)
=============================================================================
