---------------------------- MODULE WireProofs -----------------------------
(***************************************************************************)
(* What the scaling of Servo guarantees, for every pulse range and every    *)
(* stick byte, and what the board makes of a datagram of Wire, for every    *)
(* value sent and whatever the receive buffer held before.                  *)
(***************************************************************************)
EXTENDS Wire, SequenceTheorems, TLAPS

-----------------------------------------------------------------------------
(* Scaling.                                                                 *)

\* The degrees a stick byte asks for, relative to the neutral position.
LEMMA SpeedRange ==
  ASSUME NEW value \in Byte, NEW mid \in Int
  PROVE  /\ Speed(value, mid) \in Int
         /\ mid - 90 <= Speed(value, mid)
         /\ Speed(value, mid) <= mid + 90
BY DEF Byte, Speed, Quotient

\* A step of the stick never turns a servo the other way.
LEMMA SpeedMonotone ==
  ASSUME NEW v \in Byte, NEW w \in Byte, v <= w, NEW mid \in Int
  PROVE  Speed(v, mid) <= Speed(w, mid)
BY DEF Byte, Speed, Quotient

\* ppm_delta is the width of a degree, rounded down: 180 of them fit.
LEMMA DeltaFits ==
  ASSUME NEW lo \in Nat, NEW hi \in Nat, lo <= hi
  PROVE  /\ Ticks(lo) \in Int /\ Ticks(hi) \in Int
         /\ PpmDelta(lo, hi) \in Nat
         /\ PpmDelta(lo, hi) * 180 <= Ticks(hi) - Ticks(lo)
BY DEF Ticks, PpmDelta, Quotient

\* Multiplication by a width that is not negative keeps an order.
LEMMA ScaledOrder ==
  ASSUME NEW d \in Nat, NEW a \in Int, NEW b \in Int, a <= b
  PROVE  d * a <= d * b
<1>1. 0 <= d * (b - a)
  BY Z3
<1>2. d * (b - a) = d * b - d * a
  BY Z3
<1> QED
  BY <1>1, <1>2

\* The stick at rest commands the very pulse of the fail safe: releasing the
\* stick and losing the link steer alike.
THEOREM RestIsNeutral ==
  ASSUME NEW mid \in Int, NEW lo \in Nat, NEW hi \in Nat
  PROVE  Pulse(127, mid, lo, hi) = NeutralPulse(mid, lo, hi)
BY DEF Pulse, NeutralPulse, Speed, Quotient

\* With the neutral position in the middle (ppm_zero = 90) no stick byte makes
\* a pulse outside the configured range, although setPPM does not limit it.
THEOREM CentredServoInRange ==
  ASSUME NEW value \in Byte, NEW lo \in Nat, NEW hi \in Nat, lo <= hi
  PROVE  /\ Ticks(lo) <= Pulse(value, 90, lo, hi)
         /\ Pulse(value, 90, lo, hi) <= Ticks(hi)
<1> DEFINE s == Speed(value, 90)
           d == PpmDelta(lo, hi)
<1>1. s \in Int /\ 0 <= s /\ s <= 180
  BY SpeedRange
<1>2. d \in Nat /\ d * 180 <= Ticks(hi) - Ticks(lo)
      /\ Ticks(lo) \in Int /\ Ticks(hi) \in Int
  BY DeltaFits
<1>3. d * 0 <= d * s /\ d * s <= d * 180
  BY <1>1, <1>2, ScaledOrder
<1>4. d * s \in Int /\ d * 0 = 0
  BY <1>1, <1>2
<1> QED
  BY <1>2, <1>3, <1>4 DEF Pulse, PpmDuty

\* A larger stick byte never makes a shorter pulse, whatever the neutral
\* position and the range.
THEOREM PulseMonotone ==
  ASSUME NEW v \in Byte, NEW w \in Byte, v <= w,
         NEW mid \in Int, NEW lo \in Nat, NEW hi \in Nat, lo <= hi
  PROVE  Pulse(v, mid, lo, hi) <= Pulse(w, mid, lo, hi)
<1>1. Speed(v, mid) \in Int /\ Speed(w, mid) \in Int
      /\ Speed(v, mid) <= Speed(w, mid)
  BY SpeedRange, SpeedMonotone
<1>2. PpmDelta(lo, hi) \in Nat /\ Ticks(lo) \in Int
  BY DeltaFits
<1>3. PpmDelta(lo, hi) * Speed(v, mid) <= PpmDelta(lo, hi) * Speed(w, mid)
  BY <1>1, <1>2, ScaledOrder
<1> HIDE DEF PpmDelta, Speed
<1>4. PpmDelta(lo, hi) * Speed(v, mid) \in Int
      /\ PpmDelta(lo, hi) * Speed(w, mid) \in Int
  BY <1>1, <1>2
<1> QED
  BY <1>2, <1>3, <1>4 DEF Pulse, PpmDuty

-----------------------------------------------------------------------------
(* Datagrams in the buffer.                                                 *)

\* A datagram lies in front of what the buffer held.
LEMMA Overlay ==
  ASSUME NEW S, NEW msg \in Seq(S), Len(msg) <= BufferBytes
  PROVE  \A k \in 1 .. Len(msg) : Overlaid(msg)[k] = msg[k]
BY DEF Overlaid, BufferBytes

\* Two sequences that begin alike have the same beginning.
LEMMA SameFront ==
  ASSUME NEW S, NEW n \in Nat, NEW s, NEW t, \A k \in 1 .. n : s[k] \in S,
         \A k \in 1 .. n : t[k] = s[k]
  PROVE  SubSeq(s, 1, n) = SubSeq(t, 1, n)
<1>1. /\ SubSeq(s, 1, n) \in Seq(S)
      /\ Len(SubSeq(s, 1, n)) = IF 1 <= n THEN n ELSE 0
      /\ \A k \in 1 .. n : SubSeq(s, 1, n)[k] = s[k]
  BY SubSeqProperties
<1>2. /\ SubSeq(t, 1, n) \in Seq(S)
      /\ Len(SubSeq(t, 1, n)) = IF 1 <= n THEN n ELSE 0
      /\ \A k \in 1 .. n : SubSeq(t, 1, n)[k] = t[k]
  BY SubSeqProperties
<1> QED
  BY <1>1, <1>2, SeqEqual

\* What is sealed passes the check of the board, whatever follows it in the
\* datagram.
LEMMA SealedArrives ==
  ASSUME NEW bytes, NEW rest, NEW S, bytes \in Seq(S), rest \in Seq(S),
         Checksum(bytes) \in S, Len(bytes) + 1 + Len(rest) <= BufferBytes
  PROVE  LET b == Overlaid(Sealed(bytes) \o rest)
         IN /\ \A k \in 1 .. Len(bytes) : b[k] = bytes[k]
            /\ Checked(b, Len(bytes))
<1> DEFINE n == Len(bytes)
           sealed == Sealed(bytes)
           b == Overlaid(sealed \o rest)
<1>1. n \in Nat /\ Len(rest) \in Nat
  BY LenProperties
<1>2. /\ sealed \in Seq(S) /\ Len(sealed) = n + 1
      /\ \A k \in 1 .. n : sealed[k] = bytes[k]
      /\ sealed[n + 1] = Checksum(bytes)
  BY AppendProperties DEF Sealed
<1> HIDE DEF sealed
<1> DEFINE msg == sealed \o rest
<1>3. /\ msg \in Seq(S) /\ Len(msg) = n + 1 + Len(rest)
      /\ \A k \in 1 .. n + 1 : msg[k] = sealed[k]
  <2>1. /\ msg \in Seq(S) /\ Len(msg) = Len(sealed) + Len(rest)
        /\ \A k \in 1 .. Len(sealed) + Len(rest) :
             msg[k] = IF k <= Len(sealed) THEN sealed[k]
                      ELSE rest[k - Len(sealed)]
    BY <1>2, ConcatProperties
  <2> HIDE DEF n, msg
  <2> QED
    BY <1>1, <1>2, <2>1
<1> HIDE DEF msg
<1>4. \A k \in 1 .. n + 1 : b[k] = sealed[k]
  <2>1. \A k \in 1 .. Len(msg) : b[k] = msg[k]
    BY <1>3, Overlay DEF msg
  <2> HIDE DEF n, b
  <2> QED
    BY <1>1, <1>3, <2>1
<1>5. (\A k \in 1 .. n : b[k] = bytes[k]) /\ b[n + 1] = Checksum(bytes)
  BY <1>1, <1>2, <1>4
<1>6. \A k \in 1 .. n : bytes[k] \in S
  BY ElementOfSeq
<1>7. SubSeq(b, 1, n) = SubSeq(bytes, 1, n)
  BY <1>1, <1>5, <1>6, SameFront
<1>8. SubSeq(bytes, 1, n) = bytes
  BY SubSeqFull
<1>9. Checked(b, n)
  BY <1>5, <1>7, <1>8 DEF Checked
<1> QED
  BY <1>5, <1>9 DEF b, sealed, msg

\* Shifting by a byte twice is shifting by two.
LEMMA Shifts ==
  ASSUME NEW n \in Int
  PROVE  /\ n \div 65536 = (n \div 256) \div 256
         /\ n \div 16777216 = (n \div 65536) \div 256
BY SMT

\* Four bytes and the wrap of the board's 32-bit long give a number back.
LEMMA SignedOfLittleEndian ==
  ASSUME NEW n \in Int32, NEW b,
         b[3] = n % 256, b[4] = (n \div 256) % 256,
         b[5] = (n \div 65536) % 256, b[6] = (n \div 16777216) % 256
  PROVE  Signed(b) = n
<1> DEFINE low == n \div 256
           mid == n \div 65536
           high == n \div 16777216
<1>0. n \in Int /\ -2147483647 - 1 <= n /\ n <= 2147483647
  <2>1. INT_MIN \in Int /\ INT_MAX \in Int
    BY SMT DEF INT_MIN, INT_MAX
  <2>2. n \in Int /\ INT_MIN <= n /\ n <= INT_MAX
    BY SMT, <2>1 DEF Int32
  <2> QED
    BY SMT, <2>2 DEF INT_MIN, INT_MAX
<1>1. n \in Int /\ low \in Int /\ mid \in Int /\ high \in Int
  BY SMT, <1>0
<1>2. n = 256 * low + b[3] /\ low = 256 * mid + b[4] /\ mid = 256 * high + b[5]
  BY SMT, Shifts, <1>1
<1>3. high \in -128 .. 127
  BY SMT, <1>0
<1>4. b[3] \in 0 .. 255 /\ b[4] \in 0 .. 255 /\ b[5] \in 0 .. 255
  BY SMT, <1>1
<1>5. IF b[6] >= 128 THEN b[6] = high + 256 /\ b[6] % 128 = high + 128
      ELSE b[6] = high /\ b[6] % 128 = high
  BY SMT, <1>3
<1> HIDE DEF low, mid, high
<1>6. b[6] \in Int
  BY SMT, <1>5, <1>1
<1> QED
  BY SMT, <1>1, <1>2, <1>4, <1>5, <1>6 DEF Signed

\* Likewise when nothing follows.
LEMMA SealedAloneArrives ==
  ASSUME NEW bytes, NEW S, bytes \in Seq(S), Checksum(bytes) \in S,
         Len(bytes) + 1 <= BufferBytes
  PROVE  LET b == Overlaid(Sealed(bytes))
         IN /\ \A k \in 1 .. Len(bytes) : b[k] = bytes[k]
            /\ Checked(b, Len(bytes))
<1>1. Sealed(bytes) \in Seq(S)
  BY AppendProperties DEF Sealed
<1>2. Sealed(bytes) \o <<>> = Sealed(bytes)
  BY <1>1, ConcatEmptySeq
<1>3. <<>> \in Seq(S) /\ Len(<<>>) = 0
  BY EmptySeq
<1>4. Len(bytes) + 1 + Len(<<>>) <= BufferBytes
  BY <1>3, LenProperties
<1> QED
  BY <1>2, <1>3, <1>4, SealedArrives

-----------------------------------------------------------------------------
(* Message by message: what stands in front decides.                        *)

\* The alive.
LEMMA AliveLaid ==
  LET b == Overlaid(AliveMsg)
  IN b[1] = 0 /\ b[2] = 1 /\ Checked(b, 2)
<1> DEFINE bytes == <<0, 1>>
           S == {0, 1, Checksum(bytes)}
<1>1. bytes \in Seq(S) /\ Len(bytes) = 2 /\ bytes[1] = 0 /\ bytes[2] = 1
  OBVIOUS
<1>2. Len(bytes) + 1 <= BufferBytes
  BY <1>1 DEF BufferBytes
<1>3. Checksum(bytes) \in S
  OBVIOUS
<1> HIDE DEF bytes, S
<1>4. LET b == Overlaid(Sealed(bytes))
      IN (\A k \in 1 .. Len(bytes) : b[k] = bytes[k]) /\ Checked(b, Len(bytes))
  BY <1>1, <1>2, <1>3, SealedAloneArrives
<1> QED
  BY <1>1, <1>4 DEF AliveMsg, bytes

\* The axis: number, channel, position.
LEMMA AxisLaid ==
  ASSUME NEW channel \in 0 .. 7, NEW value \in Byte, NEW tank \in BOOLEAN
  PROVE  LET b == Overlaid(SendAxis(channel, value, tank))
         IN /\ b[1] = IF tank THEN 2 ELSE 1
            /\ b[2] = channel /\ b[3] = value /\ Checked(b, 4)
<1> DEFINE number == IF tank THEN 2 ELSE 1
           high == (value \div 256) % 256
           bytes == <<number, channel % 256, value % 256, high>>
           S == {number, channel, value, high, Checksum(bytes)}
<1>1. channel % 256 = channel /\ value % 256 = value
  BY DEF Byte
<1> HIDE DEF number, high
<1>2. /\ bytes \in Seq(S) /\ Len(bytes) = 4
      /\ bytes[1] = number /\ bytes[2] = channel /\ bytes[3] = value
  BY <1>1
<1>3. Len(bytes) + 1 <= BufferBytes
  BY <1>2 DEF BufferBytes
<1>4. Checksum(bytes) \in S
  OBVIOUS
<1> HIDE DEF bytes, S
<1>5. LET b == Overlaid(Sealed(bytes))
      IN (\A k \in 1 .. Len(bytes) : b[k] = bytes[k]) /\ Checked(b, Len(bytes))
  BY <1>2, <1>3, <1>4, SealedAloneArrives
<1> QED
  BY <1>2, <1>5 DEF SendAxis, bytes, number, high

\* The restart: the checksum in the third byte, and two bytes behind it.
LEMMA RestartLaid ==
  LET b == Overlaid(SendCmdServerRestart)
  IN b[1] = 5 /\ b[2] = 1 /\ Checked(b, 2)
<1> DEFINE bytes == <<5, 1>>
           rest == <<0, 0>>
           S == {0, 1, 5, Checksum(bytes)}
<1>1. bytes \in Seq(S) /\ Len(bytes) = 2 /\ bytes[1] = 5 /\ bytes[2] = 1
  OBVIOUS
<1>2. rest \in Seq(S) /\ Len(rest) = 2
  OBVIOUS
<1>3. Len(bytes) + 1 + Len(rest) <= BufferBytes
  BY <1>1, <1>2 DEF BufferBytes
<1>4. Checksum(bytes) \in S
  OBVIOUS
<1> HIDE DEF bytes, rest, S
<1>5. LET b == Overlaid(Sealed(bytes) \o rest)
      IN (\A k \in 1 .. Len(bytes) : b[k] = bytes[k]) /\ Checked(b, Len(bytes))
  BY <1>1, <1>2, <1>3, <1>4, SealedArrives
<1> QED
  BY <1>1, <1>5 DEF SendCmdServerRestart, bytes, rest

\* The four bytes of a number.
LEMMA Word ==
  ASSUME NEW n \in Int
  PROVE  /\ LittleEndian(n) \in Seq(Int) /\ Len(LittleEndian(n)) = 4
         /\ LittleEndian(n)[1] = n % 256
         /\ LittleEndian(n)[2] = (n \div 256) % 256
         /\ LittleEndian(n)[3] = (n \div 65536) % 256
         /\ LittleEndian(n)[4] = (n \div 16777216) % 256
<1>1. n % 256 \in Int /\ (n \div 256) % 256 \in Int
      /\ (n \div 65536) % 256 \in Int /\ (n \div 16777216) % 256 \in Int
  BY SMT
<1> QED
  BY SMT, <1>1 DEF LittleEndian

\* Four bytes behind one.
LEMMA BehindOne ==
  ASSUME NEW x \in Int, NEW w \in Seq(Int), Len(w) = 4
  PROVE  LET m == <<x>> \o w
         IN /\ m \in Seq(Int) /\ Len(m) = 5 /\ m[1] = x
            /\ m[2] = w[1] /\ m[3] = w[2] /\ m[4] = w[3] /\ m[5] = w[4]
<1> DEFINE h == <<x>>
           m == h \o w
<1>1. h \in Seq(Int) /\ Len(h) = 1 /\ h[1] = x
  OBVIOUS
<1> HIDE DEF h
<1>2. /\ m \in Seq(Int) /\ Len(m) = Len(h) + Len(w)
      /\ \A k \in 1 .. Len(h) + Len(w) :
           m[k] = IF k <= Len(h) THEN h[k] ELSE w[k - Len(h)]
  BY <1>1, ConcatProperties
<1> HIDE DEF m
<1>3. /\ m \in Seq(Int) /\ Len(m) = 5 /\ m[1] = h[1]
      /\ m[2] = w[1] /\ m[3] = w[2] /\ m[4] = w[3] /\ m[5] = w[4]
  <2>1. \A k \in 1 .. 5 : m[k] = IF k <= 1 THEN h[k] ELSE w[k - 1]
    BY <1>1, <1>2
  <2> QED
    BY <1>1, <1>2, <2>1
<1> QED
  BY <1>1, <1>3 DEF h, m

\* Four bytes behind two.
LEMMA BehindTwo ==
  ASSUME NEW x \in Int, NEW y \in Int, NEW w \in Seq(Int), Len(w) = 4
  PROVE  LET m == <<x, y>> \o w
         IN /\ m \in Seq(Int) /\ Len(m) = 6 /\ m[1] = x /\ m[2] = y
            /\ m[3] = w[1] /\ m[4] = w[2] /\ m[5] = w[3] /\ m[6] = w[4]
<1> DEFINE h == <<x, y>>
           m == h \o w
<1>1. h \in Seq(Int) /\ Len(h) = 2 /\ h[1] = x /\ h[2] = y
  OBVIOUS
<1> HIDE DEF h
<1>2. /\ m \in Seq(Int) /\ Len(m) = Len(h) + Len(w)
      /\ \A k \in 1 .. Len(h) + Len(w) :
           m[k] = IF k <= Len(h) THEN h[k] ELSE w[k - Len(h)]
  BY <1>1, ConcatProperties
<1> HIDE DEF m
<1>3. /\ m \in Seq(Int) /\ Len(m) = 6 /\ m[1] = h[1] /\ m[2] = h[2]
      /\ m[3] = w[1] /\ m[4] = w[2] /\ m[5] = w[3] /\ m[6] = w[4]
  <2>1. \A k \in 1 .. 6 : m[k] = IF k <= 2 THEN h[k] ELSE w[k - 2]
    BY <1>1, <1>2
  <2> QED
    BY <1>1, <1>2, <2>1
<1> QED
  BY <1>1, <1>3 DEF h, m

\* The number a command carries arrives as it was.
LEMMA NumberLaid ==
  ASSUME NEW command \in Int, NEW n \in Int32
  PROVE  LET b == Overlaid(Sealed(<<5, command>> \o LittleEndian(n)))
         IN /\ b[1] = 5 /\ b[2] = command /\ Checked(b, 6) /\ Signed(b) = n
<1> DEFINE word == LittleEndian(n)
           bytes == <<5, command>> \o word
           S == Int \cup {Checksum(bytes)}
           b == Overlaid(Sealed(bytes))
<1>1. n \in Int
  <2>1. INT_MIN \in Int /\ INT_MAX \in Int
    BY SMT DEF INT_MIN, INT_MAX
  <2> QED
    BY <2>1 DEF Int32
<1>2. /\ bytes \in Seq(Int) /\ Len(bytes) = 6
      /\ bytes[1] = 5 /\ bytes[2] = command
      /\ bytes[3] = word[1] /\ bytes[4] = word[2]
      /\ bytes[5] = word[3] /\ bytes[6] = word[4]
  <2>1. word \in Seq(Int) /\ Len(word) = 4
    BY <1>1, Word
  <2> HIDE DEF word
  <2> QED
    BY <2>1, BehindTwo
<1> HIDE DEF bytes
<1>3. bytes \in Seq(S) /\ Checksum(bytes) \in S
  BY <1>2
<1>4. Len(bytes) + 1 <= BufferBytes
  BY <1>2 DEF BufferBytes
<1> HIDE DEF S, b
<1>5. (\A k \in 1 .. Len(bytes) : b[k] = bytes[k]) /\ Checked(b, Len(bytes))
  BY <1>2, <1>3, <1>4, SealedAloneArrives DEF b
<1>6. /\ b[1] = bytes[1] /\ b[2] = bytes[2] /\ b[3] = bytes[3]
      /\ b[4] = bytes[4] /\ b[5] = bytes[5] /\ b[6] = bytes[6]
  BY <1>2, <1>5
<1>7. Signed(b) = n
  BY SMT, <1>1, <1>2, <1>6, Word, SignedOfLittleEndian
<1> QED
  BY <1>2, <1>5, <1>6, <1>7 DEF b, bytes, word

\* Buttons are laid under the number of the tank axis command, and the check
\* of one falls on their last byte.
LEMMA ButtonsLaid ==
  ASSUME NEW n \in Int
  PROVE  LET b == Overlaid(SendButtons(n))
         IN /\ b[1] = 2 /\ b[3] \in Byte
            /\ PassesForAxis(n) <=> b[2] \in 0 .. 3 /\ Checked(b, 4)
<1> DEFINE word == LittleEndian(n)
           bytes == <<2>> \o word
           S == Int \cup {Checksum(bytes)}
           m == SendButtons(n)
           b == Overlaid(m)
<1>1. /\ bytes \in Seq(Int) /\ Len(bytes) = 5
      /\ bytes[1] = 2 /\ bytes[3] = word[2]
  <2>1. word \in Seq(Int) /\ Len(word) = 4
    BY Word
  <2> HIDE DEF word
  <2> QED
    BY <2>1, BehindOne
<1>2. word[2] \in Byte
  <2>1. (n \div 256) % 256 \in Byte
    BY SMT DEF Byte
  <2> QED
    BY <2>1, Word
<1> HIDE DEF word, bytes, S, m, b
<1>3. bytes \in Seq(S) /\ Checksum(bytes) \in S
  BY <1>1 DEF S
<1>4. /\ m \in Seq(S) /\ Len(m) = 6
      /\ \A k \in 1 .. 5 : m[k] = bytes[k]
  <2>1. m = Append(bytes, Checksum(bytes))
    BY DEF SendButtons, Sealed, bytes, m, word
  <2>2. /\ m \in Seq(S) /\ Len(m) = Len(bytes) + 1
        /\ \A k \in 1 .. Len(bytes) : m[k] = bytes[k]
    BY <1>3, <2>1, AppendProperties
  <2> QED
    BY <1>1, <2>2
<1>5. \A k \in 1 .. 6 : b[k] = m[k]
  <2>1. Len(m) <= BufferBytes
    BY <1>4 DEF BufferBytes
  <2> QED
    BY <1>4, <2>1, Overlay DEF b
<1>6. SubSeq(m, 1, 4) = SubSeq(b, 1, 4)
  <2>1. \A k \in 1 .. 4 : m[k] \in S
    <3>1. \A k \in 1 .. Len(m) : m[k] \in S
      BY <1>4, ElementOfSeq
    <3> QED
      BY <1>4, <3>1
  <2>2. \A k \in 1 .. 4 : b[k] = m[k]
    BY <1>5
  <2> QED
    BY <2>1, <2>2, SameFront
<1>7. Checked(m, 4) <=> Checked(b, 4)
  <2>1. m[4 + 1] = b[4 + 1]
    BY <1>5
  <2> QED
    BY <1>6, <2>1 DEF Checked
<1>8. PassesForAxis(n) <=> m[2] \in 0 .. 3 /\ Checked(m, 4)
  BY DEF PassesForAxis, m
<1> QED
  BY <1>1, <1>2, <1>4, <1>5, <1>7, <1>8 DEF b, m

-----------------------------------------------------------------------------
(* What a step does, whatever the buffer held.                              *)

\* The assumptions on the constants, one by one.
LEMMA Constants ==
  /\ \A value \in Values : value \in Byte
  /\ \A n \in Rates \cup ButtonKeys : n \in Int32 /\ n \in Int
  /\ \A c \in 0 .. 3 : axis[c] \in 0 .. 3
  /\ \A o \in 0 .. 3 : zero[o] \in Int
<1>1. INT_MIN \in Int /\ INT_MAX \in Int
  BY SMT DEF INT_MIN, INT_MAX
<1> QED
  BY <1>1, WireAssumption DEF Int32

LEMMA AliveRead == parseCommand(Overlaid(AliveMsg)) = Do("alive", 1, 0)
BY AliveLaid DEF parseCommand

\* Every channel: those beyond 3 have no effect on either side.
LEMMA AxisRead ==
  ASSUME NEW channel \in 0 .. 7, NEW value \in Byte, NEW tank \in BOOLEAN
  PROVE  parseCommand(Overlaid(SendAxis(channel, value, tank)))
           = AxisEffect(channel, value, tank)
<1> DEFINE b == Overlaid(SendAxis(channel, value, tank))
<1>1. /\ b[1] = IF tank THEN 2 ELSE 1
      /\ b[2] = channel /\ b[3] = value /\ Checked(b, 4)
  BY AxisLaid
<1> HIDE DEF b
<1>2. SetPPM(b) = Do("ppm", axis[channel],
                      Pulse(value, zero[axis[channel]], min, max))
  BY <1>1 DEF SetPPM
<1>3. CASE channel \in 4 .. 7
  <2>1. parseCommand(b) = Nothing
    BY <1>1, <1>3 DEF parseCommand
  <2>2. AxisEffect(channel, value, tank) = Nothing
    BY <1>3 DEF AxisEffect
  <2> QED
    BY <2>1, <2>2 DEF b
<1>4. CASE tank /\ channel \in 0 .. 1
  <2>1. parseCommand(b) = Do("move", channel, value)
    BY <1>1, <1>4 DEF parseCommand
  <2>2. AxisEffect(channel, value, tank) = Do("move", channel, value)
    BY <1>4 DEF AxisEffect
  <2> QED
    BY <2>1, <2>2 DEF b
<1>5. CASE \/ tank /\ channel \in 2 .. 3
           \/ ~tank /\ channel \in 0 .. 3
  <2>1. parseCommand(b) = SetPPM(b)
    BY <1>1, <1>5 DEF parseCommand
  <2>2. AxisEffect(channel, value, tank)
          = Do("ppm", axis[channel], Pulse(value, zero[axis[channel]], min, max))
    BY <1>5 DEF AxisEffect
  <2> QED
    BY <1>2, <2>1, <2>2 DEF b
<1> QED
  BY <1>3, <1>4, <1>5

LEMMA ButtonsRead ==
  ASSUME NEW n \in Int, ~PassesForAxis(n)
  PROVE  parseCommand(Overlaid(SendButtons(n))) = Nothing
BY ButtonsLaid DEF parseCommand

LEMMA RestartRead ==
  parseCommand(Overlaid(SendCmdServerRestart)) = Do("restart", 0, 0)
BY RestartLaid DEF parseCommand

LEMMA BitrateRead ==
  ASSUME NEW n \in Int32
  PROVE  parseCommand(Overlaid(SendChangeBitrate(n))) = Do("bitrate", 0, n)
<1>1. LET b == Overlaid(SendChangeBitrate(n))
      IN b[1] = 5 /\ b[2] = 2 /\ Checked(b, 6) /\ Signed(b) = n
  BY NumberLaid DEF SendChangeBitrate
<1> QED
  BY <1>1 DEF parseCommand

LEMMA MTURead ==
  ASSUME NEW n \in Int32
  PROVE  parseCommand(Overlaid(SendChangeMTU(n))) = Do("mtu", 0, n)
<1>1. LET b == Overlaid(SendChangeMTU(n))
      IN b[1] = 5 /\ b[2] = 3 /\ Checked(b, 6) /\ Signed(b) = n
  BY NumberLaid DEF SendChangeMTU
<1> QED
  BY <1>1 DEF parseCommand

-----------------------------------------------------------------------------
(* The theorems.                                                            *)

\* The board executes exactly what the ground station meant, whatever values
\* are sent and whatever earlier datagrams left in the receive buffer, if no
\* state of the buttons passes for an axis command.
THEOREM ExecutedAsMeant ==
  ASSUME \A keys \in ButtonKeys : ~PassesForAxis(keys)
  PROVE  Spec => []ExecutesWhatWasMeant
<1>1. Init => ExecutesWhatWasMeant
  BY DEF Init, ExecutesWhatWasMeant
<1>2. ExecutesWhatWasMeant /\ [Next]_vars => ExecutesWhatWasMeant'
  <2> SUFFICES ASSUME ExecutesWhatWasMeant, [Next]_vars
               PROVE  ExecutesWhatWasMeant'
    OBVIOUS
  <2>1. ASSUME NEW msg, NEW meant, Deliver(msg, meant),
               parseCommand(Overlaid(msg)) = meant
        PROVE  ExecutesWhatWasMeant'
    BY <2>1 DEF Deliver, ExecutesWhatWasMeant
  <2>2. CASE Deliver(AliveMsg, Do("alive", 1, 0))
    BY <2>1, <2>2, AliveRead
  <2>3. ASSUME NEW channel \in 0 .. 7, NEW value \in Values,
               NEW tank \in BOOLEAN,
               Deliver(SendAxis(channel, value, tank),
                       AxisEffect(channel, value, tank))
        PROVE  ExecutesWhatWasMeant'
    BY <2>1, <2>3, AxisRead, Constants
  <2>4. ASSUME NEW keys \in ButtonKeys, Deliver(SendButtons(keys), Nothing)
        PROVE  ExecutesWhatWasMeant'
    BY <2>1, <2>4, ButtonsRead, Constants
  <2>5. CASE Deliver(SendCmdServerRestart, Do("restart", 0, 0))
    BY <2>1, <2>5, RestartRead
  <2>6. ASSUME NEW rate \in Rates,
               Deliver(SendChangeBitrate(rate), Do("bitrate", 0, rate))
        PROVE  ExecutesWhatWasMeant'
    BY <2>1, <2>6, BitrateRead, Constants
  <2>7. ASSUME NEW mtu \in Rates, Deliver(SendChangeMTU(mtu), Do("mtu", 0, mtu))
        PROVE  ExecutesWhatWasMeant'
    BY <2>1, <2>7, MTURead, Constants
  <2>8. CASE UNCHANGED vars
    BY <2>8 DEF vars, ExecutesWhatWasMeant
  <2> QED
    BY <2>2, <2>3, <2>4, <2>5, <2>6, <2>7, <2>8 DEF Next
<1> QED
  BY <1>1, <1>2, PTL DEF Spec

\* What drives a servo has a stick byte in its third place.
LEMMA OnlyAxesDriveServos ==
  ASSUME NEW b, b[1] \in {1, 2} => b[3] \in Byte,
         parseCommand(b).op = "ppm"
  PROVE  \E o \in 0 .. 3, v \in Byte :
           parseCommand(b).value = Pulse(v, zero[o], min, max)
<1> DEFINE o == axis[b[2]]
<1>1. b[1] \in {1, 2} /\ b[2] \in 0 .. 3 /\ parseCommand(b) = SetPPM(b)
  BY DEF parseCommand, Do, Nothing
<1>2. SetPPM(b).value = Pulse(b[3], zero[o], min, max)
  BY DEF SetPPM, Do
<1>3. o \in 0 .. 3
  BY <1>1, Constants
<1> QED
  BY <1>1, <1>2, <1>3

\* rcboard.conf sets ppm1_zero to 105: with that a stick byte of 235 already
\* asks for a pulse beyond its ppm1_max of 2200, and setPPM does not limit it.
THEOREM ShippedZeroTooFar == Pulse(235, 105, 700, 2200) > Ticks(2200)
BY SMT DEF Pulse, PpmDuty, PpmDelta, Speed, Quotient, Ticks

\* Whatever the ground station sends, buttons that pass for an axis included,
\* with every neutral position at 90 no servo gets a pulse outside its range.
THEOREM PulsesInRange ==
  ASSUME \A o \in 0 .. 3 : zero[o] = 90
  PROVE  Spec => []PulseInRange
<1>1. Init => PulseInRange
  BY DEF Init, PulseInRange, Nothing, Do
<1>2. PulseInRange /\ [Next]_vars => PulseInRange'
  <2> SUFFICES ASSUME PulseInRange, [Next]_vars
               PROVE  PulseInRange'
    OBVIOUS
  <2>1. ASSUME NEW msg, NEW meant, Deliver(msg, meant),
               Overlaid(msg)[1] \in {1, 2} => Overlaid(msg)[3] \in Byte
        PROVE  PulseInRange'
    <3> DEFINE done == parseCommand(Overlaid(msg))
    <3>1. executed' = done
      BY <2>1 DEF Deliver
    <3>2. done.op = "ppm" => done.value \in Ticks(min) .. Ticks(max)
      <4> SUFFICES ASSUME done.op = "ppm"
                   PROVE  done.value \in Ticks(min) .. Ticks(max)
        OBVIOUS
      <4>1. PICK o \in 0 .. 3, v \in Byte :
              done.value = Pulse(v, zero[o], min, max)
        BY <2>1, OnlyAxesDriveServos
      <4>2. min \in Nat /\ max \in Nat /\ min <= max
        BY WireAssumption
      <4>3. done.value = Pulse(v, 90, min, max)
        BY <4>1
      <4>4. Ticks(min) <= Pulse(v, 90, min, max)
            /\ Pulse(v, 90, min, max) <= Ticks(max)
        BY <4>2, CentredServoInRange
      <4>5. Pulse(v, 90, min, max) \in Int
        <5>1. Speed(v, 90) \in Int
          BY SpeedRange
        <5>2. PpmDelta(min, max) \in Nat /\ Ticks(min) \in Int
          BY <4>2, DeltaFits
        <5> QED
          BY <5>1, <5>2 DEF Pulse, PpmDuty
      <4>6. Ticks(min) \in Int /\ Ticks(max) \in Int
        BY <4>2, DeltaFits
      <4> QED
        BY <4>3, <4>4, <4>5, <4>6
    <3> QED
      BY <3>1, <3>2 DEF PulseInRange
  <2>2. CASE Deliver(AliveMsg, Do("alive", 1, 0))
    BY <2>1, <2>2, AliveLaid
  <2>3. ASSUME NEW channel \in 0 .. 7, NEW value \in Values,
               NEW tank \in BOOLEAN,
               Deliver(SendAxis(channel, value, tank),
                       AxisEffect(channel, value, tank))
        PROVE  PulseInRange'
    BY <2>1, <2>3, AxisLaid, Constants
  <2>4. ASSUME NEW keys \in ButtonKeys, Deliver(SendButtons(keys), Nothing)
        PROVE  PulseInRange'
    BY <2>1, <2>4, ButtonsLaid, Constants
  <2>5. CASE Deliver(SendCmdServerRestart, Do("restart", 0, 0))
    BY <2>1, <2>5, RestartLaid
  <2>6. ASSUME NEW rate \in Rates,
               Deliver(SendChangeBitrate(rate), Do("bitrate", 0, rate))
        PROVE  PulseInRange'
    BY <2>1, <2>6, NumberLaid, Constants DEF SendChangeBitrate
  <2>7. ASSUME NEW mtu \in Rates, Deliver(SendChangeMTU(mtu), Do("mtu", 0, mtu))
        PROVE  PulseInRange'
    BY <2>1, <2>7, NumberLaid, Constants DEF SendChangeMTU
  <2>8. CASE UNCHANGED vars
    BY <2>8 DEF vars, PulseInRange
  <2> QED
    BY <2>2, <2>3, <2>4, <2>5, <2>6, <2>7, <2>8 DEF Next
<1> QED
  BY <1>1, <1>2, PTL DEF Spec

=============================================================================
