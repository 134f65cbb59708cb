-------------------------------- MODULE Codecs ------------------------------
(***************************************************************************)
(* Conversions, each against what it is for: A-law to linear samples and   *)
(* back (yate.c), and the frame check sequence of RFC 1662 (ppp/pppd.c).   *)
(* The variables are what is converted.                                    *)
(***************************************************************************)
EXTENDS Integers, Sequences, Bitwise

CONSTANTS
  Octets,      \* octets that packets are made of
  MaxPacket    \* bound: octets of a packet

ASSUME ConversionAssumption ==
  Octets \subseteq 0 .. 255 /\ MaxPacket \in Nat

VARIABLES
  octet,   \* an octet of the B channel, which Yate takes for A-law
  packet   \* a packet on its way to pppd

conversionVars == <<octet, packet>>

-----------------------------------------------------------------------------
(* A-law.  Code v of one sign, 0 the smallest, is octet v ^ 0xd5.          *)

\* The positive half of the table a2s, by segment and step.
Magnitude(v) ==
  LET segment == v \div 16
      step    == v % 16
  IN  IF segment = 0 THEN 16 * step + 8
      ELSE (16 * step + 264) * 2^(segment - 1)

\* The table a2s, as unsigned 16-bit numbers.
a2s(o) ==
  LET v == o ^^ 213
  IN  IF v < 128 THEN Magnitude(v) ELSE 65536 - Magnitude(v - 128)

\* yate_codec_alaw_slin_init: val moves on by one code at the first i that
\* is 8 above it.  Opens(up)[k] is the i at which the k-th code of a half
\* begins; the codes go up from 0x00 or down from 0xff.
HalfCode(up, k) == (IF up THEN k ELSE 255 - k) ^^ 213

\* Mutant: the border between two codes is the lower of them.
OpensAtCode(up) ==
  LET first == IF up THEN 0 ELSE 32768
      opens[k \in 0 .. 127] ==
        IF k = 0 THEN first
        ELSE LET due == a2s(HalfCode(up, k - 1))
             IN  IF due > opens[k - 1] THEN due ELSE opens[k - 1] + 1
  IN  opens

Opens(up) ==
  LET first == IF up THEN 0 ELSE 32768
      opens[k \in 0 .. 127] ==
        IF k = 0 THEN first
        ELSE LET due == a2s(HalfCode(up, k - 1)) + 8
             IN  IF due > opens[k - 1] THEN due ELSE opens[k - 1] + 1
  IN  opens

OpensUp   == [k \in 0 .. 127 |-> Opens(TRUE)[k]]
OpensDown == [k \in 0 .. 127 |-> Opens(FALSE)[k]]

\* The table s2a that the loops fill in.
s2a(i) ==
  LET up    == i < 32768
      opens == IF up THEN OpensUp ELSE OpensDown
  IN  HalfCode(up, CHOOSE k \in 0 .. 127 :
                     opens[k] <= i /\ (k < 127 => i < opens[k + 1]))

\* yate.c: "it's lossless, so we can just revert this process".  An octet
\* that Yate has expanded comes back from yate_codec_slin_to_alaw, and one
\* sent through yate_codec_alaw_to_slin is the one Yate will compress: 64
\* kbit/s of data pass through the audio path unchanged.
Lossless == s2a(a2s(octet)) = octet

-----------------------------------------------------------------------------
(* The frame check sequence.                                               *)

PPP_INITFCS == 65535
PPP_GOODFCS == 61624

\* ppp_crc16_table: eight shifts of the reflected polynomial.
Shifted(x) == IF x % 2 = 1 THEN (x \div 2) ^^ 33800 ELSE x \div 2

ppp_crc16_table ==
  [x \in 0 .. 255 |->
     Shifted(Shifted(Shifted(Shifted(Shifted(Shifted(Shifted(Shifted(x))))))))]

PPP_FCS(fcs, c) == (fcs \div 256) ^^ ppp_crc16_table[(fcs ^^ c) % 256]

\* The running value over the octets of buf.
FcsOver(buf) ==
  LET fcs[x \in 0 .. Len(buf)] ==
        IF x = 0 THEN PPP_INITFCS ELSE PPP_FCS(fcs[x - 1], buf[x])
  IN  fcs[Len(buf)]

\* Mutant: the complement is left out.
ChecksumPlain(buf) == FcsOver(buf)

pppd_rfc1662_checksum(buf) == FcsOver(buf) ^^ 65535

\* What pppd_rfc1662_encode puts behind the packet: low octet first.
FcsOctets(raw) ==
  LET fcs == pppd_rfc1662_checksum(raw) IN <<fcs % 256, fcs \div 256>>

\* The receiver in pppd runs its checksum over packet and FCS and accepts
\* the frame when PPP_GOODFCS comes out: every packet from the line passes,
\* and none does with two different octets exchanged.
FcsAccepted ==
  /\ FcsOver(packet \o FcsOctets(packet)) = PPP_GOODFCS
  /\ \A i, j \in DOMAIN packet : packet[i] # packet[j] =>
       FcsOver([packet EXCEPT ![i] = packet[j], ![j] = packet[i]]
                 \o FcsOctets(packet)) # PPP_GOODFCS

-----------------------------------------------------------------------------

ConversionInit == octet = 0 /\ packet = <<>>

Sample == octet' \in 0 .. 255 /\ UNCHANGED packet

PacketOctet ==
  /\ Len(packet) < MaxPacket
  /\ \E c \in Octets : packet' = Append(packet, c)
  /\ UNCHANGED octet
=============================================================================
