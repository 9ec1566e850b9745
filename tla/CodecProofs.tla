----------------------------- MODULE CodecProofs -----------------------------
(***************************************************************************)
(* Theorems about Codec, for every base: what the receiver delivers is     *)
(* what was sent, however it was cut, and no damaged packet passes.        *)
(*                                                                         *)
(* The recursive functions of the codec, the checksum's sums, the places   *)
(* of packets in a stream and the bytes of the stream, are reasoned about  *)
(* by induction over sets of numbers (Induction), which needs no operator  *)
(* as a parameter.                                                         *)
(***************************************************************************)
EXTENDS Codec, WellFoundedInduction, TLAPS

Below == { pair \in Nat \X Nat : pair[1] < pair[2] }

LEMMA LeastElement ==
    ASSUME NEW S \in SUBSET Nat, S # {}
    PROVE  \E x \in S : \A y \in S : x <= y
<1>1. IsWellFoundedOn(Below, Nat)
  BY NatLessThanWellFounded DEF Below, OpToRel
<1>2. \E x \in S : \A y \in S : ~ (<<y, x>> \in Below)
  BY <1>1, WFMin
<1>3. \A x, y \in Nat : ~ (<<y, x>> \in Below) => x <= y
  BY DEF Below
<1> QED BY <1>2, <1>3

LEMMA Induction ==
    ASSUME NEW a \in Nat, NEW b \in Nat, NEW S,
           a <= b => a \in S,
           \A i \in a .. (b - 1) : i \in S => i + 1 \in S
    PROVE  \A i \in a .. b : i \in S
<1> DEFINE Missing == { i \in a .. b : i \notin S }
<1>1. SUFFICES ASSUME Missing # {}
               PROVE  FALSE
  OBVIOUS
<1>2. PICK least \in Missing : \A y \in Missing : least <= y
  <2>1. Missing \in SUBSET Nat
    OBVIOUS
  <2> HIDE DEF Missing
  <2> QED BY <1>1, <2>1, LeastElement
<1>3. least \in a .. b /\ least \notin S
  OBVIOUS
<1>4. least # a
  BY <1>3
<1>5. least - 1 \in a .. (b - 1) /\ least - 1 \in a .. b /\ (least - 1) + 1 = least
  BY <1>3, <1>4
<1>6. least - 1 \in S
  <2>1. ~(least <= least - 1)
    BY <1>3
  <2> QED BY <1>2, <1>5, <2>1
<1> QED BY <1>3, <1>5, <1>6

-------------------------------------------------------------------------------
(* Division.                                                               *)
LEMMA DivMod ==
    ASSUME NEW n \in Nat \ {0}, NEW x \in Nat
    PROVE  /\ x % n \in 0 .. (n - 1)
           /\ x \div n \in Nat
           /\ x = n * (x \div n) + (x % n)
OBVIOUS

LEMMA DivBound ==
    ASSUME NEW n \in Nat \ {0}, NEW x \in Nat, x < n * n
    PROVE  x \div n \in 0 .. (n - 1)
<1>1. /\ x \div n \in Nat
      /\ x = n * (x \div n) + (x % n)
      /\ x % n \in 0 .. (n - 1)
  BY DivMod
<1>2. ASSUME x \div n >= n
      PROVE  FALSE
  <2> DEFINE q == x \div n
  <2> HIDE DEF q
  <2>1. n * q >= n * n
    BY <1>1, <1>2 DEF q
  <2> QED BY <1>1, <2>1 DEF q
<1> QED BY <1>1, <1>2

LEMMA Unpack ==
    ASSUME NEW n \in Nat \ {0}, NEW low \in 0 .. (n - 1), NEW high \in Nat
    PROVE  /\ (low + n * high) % n = low
           /\ (low + n * high) \div n = high
OBVIOUS

LEMMA PackBound ==
    ASSUME NEW n \in Nat \ {0}, NEW low \in 0 .. (n - 1), NEW high \in 0 .. (n - 1)
    PROVE  low + n * high \in 0 .. (n * n - 1)
<1>1. n * high <= n * (n - 1)
  OBVIOUS
<1>2. n * (n - 1) = n * n - n
  OBVIOUS
<1>3. n * high \in Nat /\ n * n \in Nat
  OBVIOUS
<1> QED BY <1>1, <1>2, <1>3

LEMMA ModOfSum ==
    ASSUME NEW m \in Nat \ {0}, NEW x \in 0 .. (2 * m - 1)
    PROVE  x % m = IF x < m THEN x ELSE x - m
<1>1. CASE x < m
  <2>1. (x + m * 0) % m = x
    BY <1>1, Unpack
  <2> QED BY <1>1, <2>1
<1>2. CASE ~(x < m)
  <2>1. ((x - m) + m * 1) % m = x - m
    BY <1>2, Unpack
  <2>2. (x - m) + m * 1 = x
    OBVIOUS
  <2> QED BY <1>2, <2>1, <2>2
<1> QED BY <1>1, <1>2

LEMMA BaseFacts ==
    /\ Nibble \in Nat \ {0, 1}
    /\ Base \in Nat /\ Base = Nibble * Nibble /\ Base >= 4 /\ Base >= Nibble
    /\ Byte = 0 .. (Base - 1)
    /\ HeaderLen = 8
    /\ Token \in Byte \X Byte
<1>1. Nibble \in Nat \ {0, 1} /\ Token \in Byte \X Byte
  BY CodecAssumption
<1>2. Nibble * Nibble \in Nat /\ Nibble * Nibble >= 2 * Nibble
  BY <1>1
<1> QED BY <1>1, <1>2 DEF Base, Byte, HeaderLen

-------------------------------------------------------------------------------
(* The running sums of the checksum.                                       *)
StepOf(c, b) ==
    LET low  == ((c % Base) + b) % (Base - 1)
        high == ((c \div Base) + low) % (Base - 1)
    IN  high * Base + low

AreSums(cs, buf, n) ==
    cs = [i \in 0 .. n |-> IF i = 0 THEN 0 ELSE StepOf(cs[i - 1], buf[i])]

Double == 0 .. (Base * Base - 1)

LEMMA StepRange ==
    ASSUME NEW c \in Nat, NEW b \in Nat
    PROVE  /\ StepOf(c, b) \in Double
           /\ StepOf(c, b) % Base = ((c % Base) + b) % (Base - 1)
           /\ StepOf(c, b) % Base \in 0 .. (Base - 2)
<1> DEFINE low  == ((c % Base) + b) % (Base - 1)
           high == ((c \div Base) + low) % (Base - 1)
<1>1. Base \in Nat \ {0} /\ Base - 1 \in Nat \ {0} /\ Base >= 4
  BY BaseFacts
<1>2. c % Base \in Nat /\ c \div Base \in Nat
  BY <1>1, DivMod
<1>3. low \in 0 .. (Base - 2)
  BY <1>1, <1>2, DivMod
<1>4. high \in 0 .. (Base - 2)
  <2> HIDE DEF low
  <2> QED BY <1>1, <1>2, <1>3, DivMod
<1>5. StepOf(c, b) = low + Base * high
  <2>1. StepOf(c, b) = high * Base + low
    BY DEF StepOf
  <2> HIDE DEF low, high
  <2> QED BY <1>1, <1>3, <1>4, <2>1
<1>6. StepOf(c, b) % Base = low
  <2> HIDE DEF low, high
  <2> QED BY <1>1, <1>3, <1>4, <1>5, Unpack
<1>7. StepOf(c, b) \in Double
  <2> HIDE DEF low, high
  <2> QED BY <1>1, <1>3, <1>4, <1>5, PackBound DEF Double
<1> QED BY <1>3, <1>6, <1>7

LEMMA SumsExist ==
    ASSUME NEW buf, NEW n \in Nat
    PROVE  \E cs : AreSums(cs, buf, n)
<1> DEFINE S == { k \in Nat : \E cs : AreSums(cs, buf, k) }
<1>1. 0 \in S
  <2>1. AreSums([i \in 0 .. 0 |-> 0], buf, 0)
    BY DEF AreSums
  <2> QED BY <2>1
<1>2. ASSUME NEW k \in 0 .. (n - 1), k \in S
      PROVE  k + 1 \in S
  <2>1. PICK cs : AreSums(cs, buf, k)
    BY <1>2
  <2> DEFINE more == [i \in 0 .. (k + 1) |->
                         IF i = k + 1 THEN StepOf(cs[k], buf[k + 1]) ELSE cs[i]]
  <2>2. \A i \in 0 .. k : more[i] = cs[i]
    OBVIOUS
  <2>3. \A i \in 0 .. k :
           cs[i] = IF i = 0 THEN 0 ELSE StepOf(cs[i - 1], buf[i])
    BY <2>1 DEF AreSums
  <2>4. \A i \in 0 .. (k + 1) :
           more[i] = IF i = 0 THEN 0 ELSE StepOf(more[i - 1], buf[i])
    BY <2>2, <2>3
  <2>5. more = [i \in 0 .. (k + 1) |->
                   IF i = 0 THEN 0 ELSE StepOf(more[i - 1], buf[i])]
    <3>1. more = [i \in 0 .. (k + 1) |-> more[i]]
      OBVIOUS
    <3> HIDE DEF more
    <3> QED BY <2>4, <3>1
  <2>6. AreSums(more, buf, k + 1)
    BY <2>5 DEF AreSums
  <2> QED BY <2>6
<1>3. \A i \in 0 .. n : i \in S
  <2> HIDE DEF S
  <2> QED BY <1>1, <1>2, Induction
<1> QED BY <1>3

LEMMA FletcherUnfolds ==
    ASSUME NEW buf, \E cs : AreSums(cs, buf, Len(buf))
    PROVE  \E cs : AreSums(cs, buf, Len(buf)) /\ Fletcher(buf) = cs[Len(buf)]
BY DEF Fletcher, AreSums, StepOf

LEMMA FletcherIs ==
    ASSUME NEW buf \in Seq(Byte)
    PROVE  \E cs : AreSums(cs, buf, Len(buf)) /\ Fletcher(buf) = cs[Len(buf)]
<1>1. Len(buf) \in Nat
  OBVIOUS
<1>2. \E cs : AreSums(cs, buf, Len(buf))
  BY <1>1, SumsExist
<1> QED BY <1>2, FletcherUnfolds

LEMMA SumsRange ==
    ASSUME NEW buf \in Seq(Byte), NEW cs, AreSums(cs, buf, Len(buf))
    PROVE  /\ cs[0] = 0
           /\ \A i \in 1 .. Len(buf) : cs[i] = StepOf(cs[i - 1], buf[i])
           /\ \A i \in 0 .. Len(buf) : cs[i] \in Double
<1>1. /\ cs[0] = 0
      /\ \A i \in 1 .. Len(buf) : cs[i] = StepOf(cs[i - 1], buf[i])
  BY DEF AreSums
<1> DEFINE S == { i \in Nat : cs[i] \in Double }
<1>2. 0 \in S
  <2>1. 0 \in Double
    <3>1. Base * Base \in Nat \ {0}
      BY BaseFacts
    <3> QED BY <3>1 DEF Double
  <2> QED BY <1>1, <2>1
<1>3. ASSUME NEW i \in 0 .. (Len(buf) - 1), i \in S
      PROVE  i + 1 \in S
  <2>1. cs[i] \in Nat /\ buf[i + 1] \in Nat
    BY <1>3, BaseFacts DEF Double
  <2>2. i + 1 \in 1 .. Len(buf) /\ (i + 1) - 1 = i
    OBVIOUS
  <2>3. cs[i + 1] = StepOf(cs[i], buf[i + 1])
    BY <1>1, <2>2
  <2>4. StepOf(cs[i], buf[i + 1]) \in Double
    BY <2>1, StepRange
  <2> QED BY <2>2, <2>3, <2>4
<1>4. \A i \in 0 .. Len(buf) : i \in S
  <2>1. Len(buf) \in Nat
    OBVIOUS
  <2> HIDE DEF S
  <2> QED BY <1>2, <1>3, <2>1, Induction
<1> QED BY <1>1, <1>4

LEMMA FletcherRange ==
    ASSUME NEW buf \in Seq(Byte)
    PROVE  Fletcher(buf) \in Double
<1>1. PICK cs : AreSums(cs, buf, Len(buf)) /\ Fletcher(buf) = cs[Len(buf)]
  BY FletcherIs
<1>2. Len(buf) \in 0 .. Len(buf)
  OBVIOUS
<1> QED BY <1>1, <1>2, SumsRange

(* One byte changed, by anything but a multiple of Base - 1, changes the   *)
(* low sum from there to the end.                                          *)
LEMMA StepDiffers ==
    ASSUME NEW c \in 0 .. (Base - 2), NEW d \in 0 .. (Base - 2), c # d,
           NEW b \in Byte
    PROVE  (c + b) % (Base - 1) # (d + b) % (Base - 1)
<1>1. Base - 1 \in Nat \ {0} /\ b \in 0 .. (Base - 1) /\ Base >= 4 /\ Base \in Nat
  BY BaseFacts
<1>2. c + b \in 0 .. (2 * (Base - 1) - 1) /\ d + b \in 0 .. (2 * (Base - 1) - 1)
  BY <1>1
<1>3. /\ (c + b) % (Base - 1)
            = IF c + b < Base - 1 THEN c + b ELSE (c + b) - (Base - 1)
      /\ (d + b) % (Base - 1)
            = IF d + b < Base - 1 THEN d + b ELSE (d + b) - (Base - 1)
  BY <1>1, <1>2, ModOfSum
<1> QED BY <1>1, <1>3

LEMMA ByteDiffers ==
    ASSUME NEW c \in 0 .. (Base - 2), NEW a \in Byte, NEW b \in Byte,
           a # b, ~Blind(a, b)
    PROVE  (c + a) % (Base - 1) # (c + b) % (Base - 1)
<1>1. /\ Base - 1 \in Nat \ {0} /\ Base >= 4 /\ Base \in Nat
      /\ a \in 0 .. (Base - 1) /\ b \in 0 .. (Base - 1)
  BY BaseFacts
<1>2. c + a \in 0 .. (2 * (Base - 1) - 1) /\ c + b \in 0 .. (2 * (Base - 1) - 1)
  BY <1>1
<1>3. /\ (c + a) % (Base - 1)
            = IF c + a < Base - 1 THEN c + a ELSE (c + a) - (Base - 1)
      /\ (c + b) % (Base - 1)
            = IF c + b < Base - 1 THEN c + b ELSE (c + b) - (Base - 1)
  BY <1>1, <1>2, ModOfSum
<1>4. ~(a = 0 /\ b = Base - 1) /\ ~(b = 0 /\ a = Base - 1)
  BY DEF Blind
<1> QED BY <1>1, <1>3, <1>4

(* What Damage does to a sequence of bytes.                                *)
DiffersAt(buf, other, d) ==
    /\ Len(other) = Len(buf)
    /\ d \in 1 .. Len(buf)
    /\ \A i \in 1 .. Len(buf) : i # d => other[i] = buf[i]
    /\ other[d] # buf[d] /\ ~Blind(other[d], buf[d])

LEMMA FletcherDiffers ==
    ASSUME NEW buf \in Seq(Byte), NEW other \in Seq(Byte), NEW d,
           DiffersAt(buf, other, d)
    PROVE  Fletcher(other) # Fletcher(buf)
<1> DEFINE n == Len(buf)
<1>1. /\ n \in Nat /\ Len(other) = n /\ d \in 1 .. n
      /\ \A i \in 1 .. n : i # d => other[i] = buf[i]
      /\ other[d] # buf[d] /\ ~Blind(other[d], buf[d])
      /\ \A i \in 1 .. n : buf[i] \in Byte /\ other[i] \in Byte
      /\ \A b \in Byte : b \in Nat
  <2>1. /\ n \in Nat /\ Len(other) = n /\ d \in 1 .. n
        /\ \A i \in 1 .. n : i # d => other[i] = buf[i]
        /\ other[d] # buf[d] /\ ~Blind(other[d], buf[d])
    BY DEF DiffersAt
  <2>2. \A i \in 1 .. n : buf[i] \in Byte /\ other[i] \in Byte
    BY <2>1
  <2>3. \A b \in Byte : b \in Nat
    BY BaseFacts
  <2> QED BY <2>1, <2>2, <2>3
<1>2. PICK cs : AreSums(cs, buf, n) /\ Fletcher(buf) = cs[n]
  BY FletcherIs
<1>3. PICK ds : AreSums(ds, other, n) /\ Fletcher(other) = ds[n]
  BY <1>1, FletcherIs
<1>4. /\ cs[0] = 0
      /\ \A i \in 1 .. n : cs[i] = StepOf(cs[i - 1], buf[i])
      /\ \A i \in 0 .. n : cs[i] \in Double
  BY <1>2, SumsRange
<1>5. /\ ds[0] = 0
      /\ \A i \in 1 .. n : ds[i] = StepOf(ds[i - 1], other[i])
      /\ \A i \in 0 .. n : ds[i] \in Double
  BY <1>1, <1>3, SumsRange
<1> HIDE DEF n
<1>6. cs[d - 1] = ds[d - 1]
  <2> DEFINE S == { i \in Nat : cs[i] = ds[i] }
  <2>1. 0 \in S
    BY <1>4, <1>5
  <2>2. ASSUME NEW i \in 0 .. ((d - 1) - 1), i \in S
        PROVE  i + 1 \in S
    <3>1. /\ i + 1 \in 1 .. n /\ (i + 1) - 1 = i /\ i + 1 # d
          /\ i + 1 \in Nat /\ cs[i] = ds[i]
      <4>1. cs[i] = ds[i]
        BY <2>2
      <4>2. i \in Nat /\ i <= (d - 1) - 1 /\ d \in 1 .. n /\ n \in Nat
        BY <1>1
      <4> QED BY <4>1, <4>2
    <3>2. cs[i + 1] = StepOf(cs[i], buf[i + 1]) /\ ds[i + 1] = StepOf(ds[i], other[i + 1])
      BY <1>4, <1>5, <3>1
    <3> QED BY <1>1, <3>1, <3>2
  <2>3. \A i \in 0 .. (d - 1) : i \in S
    <3>1. d - 1 \in Nat
      BY <1>1
    <3> HIDE DEF S
    <3> QED BY <2>1, <2>2, <3>1, Induction
  <2>4. d - 1 \in 0 .. (d - 1)
    BY <1>1
  <2> QED BY <2>3, <2>4
<1>7. \A i \in 0 .. n :
         /\ cs[i] \in Nat /\ ds[i] \in Nat
         /\ cs[i] % Base \in 0 .. (Base - 2) /\ ds[i] % Base \in 0 .. (Base - 2)
  <2> TAKE i \in 0 .. n
  <2>1. cs[i] \in Nat /\ ds[i] \in Nat
    BY <1>4, <1>5 DEF Double
  <2>2. CASE i = 0
    <3>1. 0 % Base = 0 /\ 0 \in 0 .. (Base - 2)
      BY BaseFacts, Unpack
    <3> QED BY <1>4, <1>5, <2>1, <2>2, <3>1
  <2>3. CASE i # 0
    <3>1. i \in 1 .. n /\ i - 1 \in 0 .. n
      BY <1>1, <2>3
    <3>2. /\ cs[i - 1] \in Nat /\ ds[i - 1] \in Nat
          /\ buf[i] \in Nat /\ other[i] \in Nat
      BY <1>1, <1>4, <1>5, <3>1 DEF Double
    <3> QED BY <1>4, <1>5, <2>1, <3>1, <3>2, StepRange
  <2> QED BY <2>2, <2>3
<1> DEFINE S == { i \in Nat : cs[i] % Base # ds[i] % Base }
<1>8. d \in S
  <2>1. d - 1 \in 0 .. n /\ d \in 1 .. n /\ d \in Nat
    BY <1>1
  <2>2. /\ cs[d] % Base = ((cs[d - 1] % Base) + buf[d]) % (Base - 1)
        /\ ds[d] % Base = ((cs[d - 1] % Base) + other[d]) % (Base - 1)
    <3>1. cs[d] = StepOf(cs[d - 1], buf[d]) /\ ds[d] = StepOf(cs[d - 1], other[d])
      BY <1>4, <1>5, <1>6, <2>1
    <3>2. cs[d - 1] \in Nat /\ buf[d] \in Nat /\ other[d] \in Nat
      BY <1>1, <1>7, <2>1
    <3>3. /\ StepOf(cs[d - 1], buf[d]) % Base
                = ((cs[d - 1] % Base) + buf[d]) % (Base - 1)
          /\ StepOf(cs[d - 1], other[d]) % Base
                = ((cs[d - 1] % Base) + other[d]) % (Base - 1)
      BY <3>2, StepRange
    <3> QED BY <3>1, <3>3
  <2>3. ~Blind(buf[d], other[d])
    BY <1>1 DEF Blind
  <2>4. cs[d - 1] % Base \in 0 .. (Base - 2) /\ buf[d] \in Byte /\ other[d] \in Byte
    BY <1>1, <1>7, <2>1
  <2>5. ((cs[d - 1] % Base) + buf[d]) % (Base - 1)
           # ((cs[d - 1] % Base) + other[d]) % (Base - 1)
    BY <1>1, <2>3, <2>4, ByteDiffers
  <2> QED BY <2>1, <2>2, <2>5
<1>9. ASSUME NEW i \in d .. (n - 1), i \in S
      PROVE  i + 1 \in S
  <2>1. i \in 0 .. n /\ i + 1 \in 1 .. n /\ (i + 1) - 1 = i /\ i + 1 # d
    BY <1>1
  <2>2. other[i + 1] = buf[i + 1] /\ buf[i + 1] \in Byte
    BY <1>1, <2>1
  <2>3. /\ cs[i + 1] % Base = ((cs[i] % Base) + buf[i + 1]) % (Base - 1)
        /\ ds[i + 1] % Base = ((ds[i] % Base) + buf[i + 1]) % (Base - 1)
    <3>1. /\ cs[i + 1] = StepOf(cs[i], buf[i + 1])
          /\ ds[i + 1] = StepOf(ds[i], buf[i + 1])
      BY <1>4, <1>5, <2>1, <2>2
    <3>2. cs[i] \in Nat /\ ds[i] \in Nat /\ buf[i + 1] \in Nat
      BY <1>1, <1>7, <2>1, <2>2
    <3>3. /\ StepOf(cs[i], buf[i + 1]) % Base
                = ((cs[i] % Base) + buf[i + 1]) % (Base - 1)
          /\ StepOf(ds[i], buf[i + 1]) % Base
                = ((ds[i] % Base) + buf[i + 1]) % (Base - 1)
      BY <3>2, StepRange
    <3> QED BY <3>1, <3>3
  <2>4. cs[i] % Base # ds[i] % Base
    BY <1>9
  <2>5. /\ cs[i] % Base \in 0 .. (Base - 2)
        /\ ds[i] % Base \in 0 .. (Base - 2)
    BY <1>7, <2>1
  <2>6. ((cs[i] % Base) + buf[i + 1]) % (Base - 1)
           # ((ds[i] % Base) + buf[i + 1]) % (Base - 1)
    BY <2>2, <2>4, <2>5, StepDiffers
  <2> QED BY <2>1, <2>3, <2>6
<1>10. n \in S
  <2>1. d \in Nat /\ n \in Nat /\ n \in d .. n
    BY <1>1
  <2> HIDE DEF S
  <2> QED BY <1>8, <1>9, <2>1, Induction
<1> QED BY <1>2, <1>3, <1>10
-------------------------------------------------------------------------------
(* Sequences put together and taken apart.                                 *)
LEMMA SameSeq ==
    ASSUME NEW S, NEW s \in Seq(S), NEW t \in Seq(S), Len(s) = Len(t),
           \A i \in 1 .. Len(s) : s[i] = t[i]
    PROVE  s = t
OBVIOUS

LEMMA Joined ==
    ASSUME NEW S, NEW s \in Seq(S), NEW t \in Seq(S)
    PROVE  /\ s \o t \in Seq(S) /\ Len(s \o t) = Len(s) + Len(t)
           /\ \A k \in 1 .. Len(s) : (s \o t)[k] = s[k]
           /\ \A k \in 1 .. Len(t) : (s \o t)[Len(s) + k] = t[k]
           /\ Len(s) \in Nat /\ Len(t) \in Nat
OBVIOUS

LEMMA BehindTwo ==
    ASSUME NEW S, NEW a \in S, NEW b \in S, NEW s \in Seq(S)
    PROVE  LET t == <<a, b>> \o s
           IN  /\ t \in Seq(S) /\ Len(t) = Len(s) + 2
               /\ t[1] = a /\ t[2] = b
               /\ \A i \in 1 .. Len(s) : t[i + 2] = s[i]
OBVIOUS

LEMMA TwoAndTwo ==
    ASSUME NEW S, NEW a \in S, NEW b \in S, NEW c \in S, NEW d \in S
    PROVE  <<a, b>> \o <<c, d>> = <<a, b, c, d>>
<1>1. <<a, b>> \o <<c, d>> \in Seq(S) /\ <<a, b, c, d>> \in Seq(S)
  OBVIOUS
<1>2. Len(<<a, b>> \o <<c, d>>) = 4 /\ Len(<<a, b, c, d>>) = 4
  OBVIOUS
<1>3. \A i \in 1 .. 4 : i = 1 \/ i = 2 \/ i = 3 \/ i = 4
  OBVIOUS
<1>4. \A i \in 1 .. 4 : (<<a, b>> \o <<c, d>>)[i] = <<a, b, c, d>>[i]
  BY <1>3
<1> QED BY <1>1, <1>2, <1>4, SameSeq

LEMMA FourAndTwo ==
    ASSUME NEW S, NEW a \in S, NEW b \in S, NEW c \in S, NEW d \in S,
           NEW e \in S, NEW f \in S
    PROVE  <<a, b, c, d>> \o <<e, f>> = <<a, b, c, d, e, f>>
<1> DEFINE s == <<a, b, c, d>> \o <<e, f>>
           t == <<a, b, c, d, e, f>>
<1>1. s \in Seq(S) /\ t \in Seq(S) /\ Len(s) = 6 /\ Len(t) = 6
  OBVIOUS
<1>2. \A i \in 1 .. 6 : i = 1 \/ i = 2 \/ i = 3 \/ i = 4 \/ i = 5 \/ i = 6
  OBVIOUS
<1>3. s[1] = t[1] /\ s[2] = t[2] /\ s[3] = t[3] /\ s[4] = t[4]
      /\ s[5] = t[5] /\ s[6] = t[6]
  OBVIOUS
<1> HIDE DEF s, t
<1>4. \A i \in 1 .. 6 : s[i] = t[i]
  BY <1>2, <1>3
<1>5. s = t
  BY <1>1, <1>4, SameSeq
<1> QED BY <1>5 DEF s, t

LEMMA FourOf ==
    ASSUME NEW S, NEW s \in Seq(S), Len(s) >= 6
    PROVE  SubSeq(s, 3, 6) = <<s[3], s[4], s[5], s[6]>>
<1> DEFINE t == SubSeq(s, 3, 6)
<1>1. t \in Seq(S) /\ Len(t) = 4
  OBVIOUS
<1>2. t[1] = s[3] /\ t[2] = s[4] /\ t[3] = s[5] /\ t[4] = s[6]
  OBVIOUS
<1>3. <<s[3], s[4], s[5], s[6]>> \in Seq(S)
  OBVIOUS
<1>4. \A i \in 1 .. 4 : i = 1 \/ i = 2 \/ i = 3 \/ i = 4
  OBVIOUS
<1> HIDE DEF t
<1>5. \A i \in 1 .. 4 : t[i] = <<s[3], s[4], s[5], s[6]>>[i]
  BY <1>2, <1>4
<1>6. t = <<s[3], s[4], s[5], s[6]>>
  BY <1>1, <1>3, <1>5, SameSeq
<1> QED BY <1>6 DEF t

-------------------------------------------------------------------------------
(* What encode puts where.                                                 *)
Well(packet) == packet \in AnyPacket /\ Encodable(packet)

Fields(packet) ==
    <<packet.sync, packet.protocol * Nibble + packet.packet_type>>
       \o ToLe(Len(packet.payload))

LEMMA ToLeIs ==
    ASSUME NEW n \in Double
    PROVE  \E low \in Byte, high \in Byte :
              ToLe(n) = <<low, high>> /\ FromLe(low, high) = n
<1>1. Base \in Nat \ {0} /\ n \in Nat /\ n < Base * Base /\ Byte = 0 .. (Base - 1)
  BY BaseFacts DEF Double
<1>2. n % Base \in Byte /\ n \div Base \in Byte
  BY <1>1, DivMod, DivBound
<1>3. n = (n % Base) + Base * (n \div Base)
  <2>1. n = Base * (n \div Base) + (n % Base)
    BY <1>1, DivMod
  <2>2. n % Base \in Nat /\ Base * (n \div Base) \in Nat
    BY <1>1, <1>2
  <2> QED BY <2>1, <2>2
<1>4. ToLe(n) = <<n % Base, n \div Base>> /\ FromLe(n % Base, n \div Base) = n
  BY <1>3 DEF ToLe, FromLe
<1> QED BY <1>2, <1>4

(* Two bytes that differ in one place are read as different numbers.       *)
LEMMA FromLeDiffers ==
    ASSUME NEW a \in Byte, NEW b \in Byte, NEW c \in Byte, NEW d \in Byte,
           FromLe(a, b) = FromLe(c, d)
    PROVE  a = c /\ b = d
<1>1. /\ Base \in Nat \ {0}
      /\ a \in 0 .. (Base - 1) /\ b \in 0 .. (Base - 1)
      /\ c \in 0 .. (Base - 1) /\ d \in 0 .. (Base - 1)
      /\ b \in Nat /\ d \in Nat
  BY BaseFacts
<1>2. /\ (a + Base * b) % Base = a /\ (a + Base * b) \div Base = b
      /\ (c + Base * d) % Base = c /\ (c + Base * d) \div Base = d
  BY <1>1, Unpack
<1> QED BY <1>2 DEF FromLe

LEMMA PacketFacts ==
    ASSUME NEW packet, Well(packet)
    PROVE  /\ packet.sync \in Byte
           /\ packet.protocol \in 0 .. (Nibble - 1)
           /\ packet.packet_type \in 0 .. (Nibble - 1)
           /\ packet.payload \in Seq(Byte)
           /\ Len(packet.payload) \in Double
           /\ packet = Packet(packet.sync, packet.protocol, packet.packet_type,
                              packet.payload)
<1>1. /\ packet.sync \in Byte /\ packet.protocol \in Byte
      /\ packet.packet_type \in Byte /\ packet.payload \in Seq(Byte)
      /\ packet = [sync |-> packet.sync, protocol |-> packet.protocol,
                   packet_type |-> packet.packet_type, payload |-> packet.payload]
  BY DEF Well, AnyPacket
<1>2. /\ packet.protocol < Nibble /\ packet.packet_type < Nibble
      /\ Len(packet.payload) <= Base * Base - 1
  BY DEF Well, Encodable, MaxPayload
<1>3. Base * Base \in Nat /\ Len(packet.payload) \in Nat
  BY <1>1, BaseFacts
<1>4. Len(packet.payload) \in Double
  BY <1>2, <1>3 DEF Double
<1>5. ASSUME NEW n \in Byte, n < Nibble
      PROVE  n \in 0 .. (Nibble - 1)
  <2>1. Nibble \in Nat /\ n \in Nat
    BY BaseFacts
  <2> QED BY <1>5, <2>1
<1>6. /\ packet.protocol \in 0 .. (Nibble - 1)
      /\ packet.packet_type \in 0 .. (Nibble - 1)
  BY <1>1, <1>2, <1>5
<1>7. packet = Packet(packet.sync, packet.protocol, packet.packet_type,
                      packet.payload)
  BY <1>1 DEF Packet
<1> QED BY <1>1, <1>4, <1>6, <1>7

LEMMA FieldsAre ==
    ASSUME NEW packet, Well(packet)
    PROVE  \E kind, low, high \in Byte :
              /\ Fields(packet) = <<packet.sync, kind, low, high>>
              /\ kind \div Nibble = packet.protocol
              /\ kind % Nibble = packet.packet_type
              /\ FromLe(low, high) = Len(packet.payload)
<1> DEFINE kind == packet.protocol * Nibble + packet.packet_type
<1>1. kind \in Byte /\ kind \div Nibble = packet.protocol
      /\ kind % Nibble = packet.packet_type
  <2>1. /\ packet.protocol \in 0 .. (Nibble - 1)
        /\ packet.packet_type \in 0 .. (Nibble - 1) /\ Nibble \in Nat \ {0}
    BY PacketFacts, BaseFacts
  <2>2. kind = packet.packet_type + Nibble * packet.protocol
    BY <2>1
  <2>3. packet.protocol \in Nat
    BY <2>1
  <2> HIDE DEF kind
  <2>4. kind \div Nibble = packet.protocol /\ kind % Nibble = packet.packet_type
    BY <2>1, <2>2, <2>3, Unpack
  <2>5. kind \in 0 .. (Nibble * Nibble - 1)
    BY <2>1, <2>2, PackBound
  <2> QED BY <2>4, <2>5, BaseFacts
<1> HIDE DEF kind
<1>2. PICK low, high \in Byte :
         /\ ToLe(Len(packet.payload)) = <<low, high>>
         /\ FromLe(low, high) = Len(packet.payload)
  BY PacketFacts, ToLeIs
<1>3. Fields(packet) = <<packet.sync, kind, low, high>>
  <2>1. Fields(packet) = <<packet.sync, kind>> \o <<low, high>>
    BY <1>2 DEF Fields, kind
  <2>2. packet.sync \in Byte
    BY PacketFacts
  <2> QED BY <1>1, <2>1, <2>2, TwoAndTwo
<1> QED BY <1>1, <1>2, <1>3

(* The pieces of a packet on the wire, byte by byte.                       *)
LEMMA Layout ==
    ASSUME NEW packet, Well(packet)
    PROVE  LET E   == Encode(packet)
               len == Len(packet.payload)
           IN  /\ E \in Seq(Byte) /\ Len(E) = WireLen(packet)
               /\ <<E[1], E[2]>> = Token
               /\ SubSeq(E, 3, 6) = Fields(packet)
               /\ FromLe(E[7], E[8]) = Fletcher(SubSeq(E, 3, 6))
               /\ SubSeq(E, HeaderLen + 1, HeaderLen + len) = packet.payload
               /\ len # 0 => FromLe(E[HeaderLen + len + 1], E[HeaderLen + len + 2])
                                = Fletcher(SubSeq(E, 3, HeaderLen + len))
<1> DEFINE payload == packet.payload
           len == Len(packet.payload)
           E == Encode(packet)
<1>1. PICK kind, low, high \in Byte :
         Fields(packet) = <<packet.sync, kind, low, high>>
  BY FieldsAre
<1>2. PICK a, b \in Byte : Token = <<a, b>>
  BY BaseFacts
<1>3. packet.sync \in Byte /\ payload \in Seq(Byte) /\ len \in Nat
      /\ \A i \in 1 .. len : payload[i] \in Byte
  BY PacketFacts
<1>4. PICK c, d \in Byte : /\ ToLe(Fletcher(Fields(packet))) = <<c, d>>
                           /\ FromLe(c, d) = Fletcher(Fields(packet))
  <2>1. Fields(packet) \in Seq(Byte)
    BY <1>1, <1>3
  <2> QED BY <2>1, FletcherRange, ToLeIs
<1>5. Header(packet) = <<packet.sync, kind, low, high, c, d>>
  <2>1. Header(packet) = Fields(packet) \o <<c, d>>
    BY <1>4 DEF Header, Fields
  <2>2. packet.sync \in Byte
    BY <1>3
  <2> QED BY <1>1, <2>1, <2>2, FourAndTwo
<1> DEFINE body == Header(packet) \o payload
<1>6. /\ body \in Seq(Byte) /\ Len(body) = 6 + len
      /\ body[1] = packet.sync /\ body[2] = kind /\ body[3] = low /\ body[4] = high
      /\ body[5] = c /\ body[6] = d
      /\ \A i \in 1 .. len : body[6 + i] = payload[i]
  <2>1. body = <<packet.sync, kind, low, high, c, d>> \o payload
    BY <1>5
  <2> HIDE DEF body, payload
  <2> QED BY <1>3, <2>1 DEF payload
<1>7. PICK x, y \in Byte : /\ ToLe(Fletcher(body)) = <<x, y>>
                           /\ FromLe(x, y) = Fletcher(body)
  <2> HIDE DEF body
  <2> QED BY <1>6, FletcherRange, ToLeIs
<1>8. E = <<a, b>> \o (IF payload = <<>> THEN body ELSE body \o <<x, y>>)
  BY <1>2, <1>7 DEF Encode
<1>9. payload = <<>> <=> len = 0
  BY <1>3
<1>10. WireLen(packet) = IF len = 0 THEN 8 ELSE 8 + len + 2
  BY <1>9 DEF WireLen, HeaderLen
<1> HIDE DEF E, body, len, payload
<1>11. /\ E \in Seq(Byte) /\ Len(E) = WireLen(packet)
       /\ E[1] = a /\ E[2] = b
       /\ \A i \in 1 .. 6 + len : E[i + 2] = body[i]
       /\ len # 0 => E[8 + len + 1] = x /\ E[8 + len + 2] = y
  <2>1. CASE len = 0
    <3>1. E = <<a, b>> \o body
      BY <1>8, <1>9, <2>1
    <3>2. /\ E \in Seq(Byte) /\ Len(E) = Len(body) + 2
          /\ E[1] = a /\ E[2] = b
          /\ \A i \in 1 .. Len(body) : E[i + 2] = body[i]
      BY <1>6, <3>1, BehindTwo
    <3> QED BY <1>6, <1>10, <2>1, <3>2
  <2>2. CASE len # 0
    <3> DEFINE tail == body \o <<x, y>>
    <3>1. E = <<a, b>> \o tail
      BY <1>8, <1>9, <2>2
    <3>2. /\ tail \in Seq(Byte) /\ Len(tail) = 6 + len + 2
          /\ \A i \in 1 .. 6 + len : tail[i] = body[i]
          /\ tail[6 + len + 1] = x /\ tail[6 + len + 2] = y
      BY <1>3, <1>6
    <3> HIDE DEF tail
    <3>3. /\ E \in Seq(Byte) /\ Len(E) = 2 + Len(tail)
          /\ E[1] = a /\ E[2] = b
          /\ \A i \in 1 .. Len(tail) : E[i + 2] = tail[i]
      BY <3>1, <3>2
    <3>4. /\ 6 + len + 1 \in 1 .. Len(tail) /\ (6 + len + 1) + 2 = 8 + len + 1
          /\ 6 + len + 2 \in 1 .. Len(tail) /\ (6 + len + 2) + 2 = 8 + len + 2
      BY <1>3, <3>2
    <3>5. E[8 + len + 1] = x /\ E[8 + len + 2] = y
      BY <3>2, <3>3, <3>4
    <3>6. \A i \in 1 .. 6 + len : E[i + 2] = body[i]
      BY <1>3, <3>2, <3>3
    <3> QED BY <1>3, <1>10, <2>2, <3>2, <3>3, <3>5, <3>6
  <2> QED BY <2>1, <2>2
<1>12. /\ E[3] = packet.sync /\ E[4] = kind /\ E[5] = low /\ E[6] = high
       /\ E[7] = c /\ E[8] = d
  <2>1. \A i \in 1 .. 6 : i \in 1 .. 6 + len
    BY <1>3
  <2>2. E[1 + 2] = body[1] /\ E[2 + 2] = body[2] /\ E[3 + 2] = body[3]
        /\ E[4 + 2] = body[4] /\ E[5 + 2] = body[5] /\ E[6 + 2] = body[6]
    BY <1>11, <2>1
  <2> QED BY <1>6, <2>2
<1>13. Len(E) \in Nat /\ Len(E) >= 8 + len
  BY <1>3, <1>10, <1>11
<1>14. SubSeq(E, 3, 6) = Fields(packet)
  <2>1. SubSeq(E, 3, 6) = <<E[3], E[4], E[5], E[6]>>
    <3>1. Len(E) >= 6 /\ E \in Seq(Byte)
      BY <1>3, <1>11, <1>13
    <3> QED BY <3>1, FourOf
  <2> QED BY <1>1, <1>12, <2>1
<1>15. SubSeq(E, 9, 8 + len) = payload
  <2>1. \A i \in 1 .. len : E[8 + i] = payload[i]
    <3> TAKE i \in 1 .. len
    <3>1. 6 + i \in 1 .. 6 + len /\ (6 + i) + 2 = 8 + i
      BY <1>3
    <3> QED BY <1>6, <1>11, <3>1
  <2> QED BY <1>3, <1>11, <1>13, <2>1 DEF len, payload
<1>16. SubSeq(E, 3, 8 + len) = body
  <2> DEFINE part == SubSeq(E, 3, 8 + len)
  <2>1. /\ part \in Seq(Byte) /\ Len(part) = 6 + len
        /\ \A i \in 1 .. 6 + len : part[i] = E[i + 2]
    BY <1>3, <1>11, <1>13
  <2>2. part = body
    <3> HIDE DEF part
    <3> QED BY <1>6, <1>11, <2>1, SameSeq
  <2> QED BY <2>2
<1>17. len # 0 => FromLe(E[8 + len + 1], E[8 + len + 2])
                     = Fletcher(SubSeq(E, 3, 8 + len))
  BY <1>7, <1>11, <1>16
<1>18. FromLe(E[7], E[8]) = Fletcher(SubSeq(E, 3, 6))
  BY <1>4, <1>12, <1>14
<1> QED BY <1>2, <1>11, <1>14, <1>15, <1>17, <1>18 DEF E, len, payload, HeaderLen
-------------------------------------------------------------------------------
(* decode, of a buffer that begins like a packet.                          *)
Agree(buf, bytes, n) == \A i \in 1 .. n : buf[i] = bytes[i]

LEMMA WireLenIs ==
    ASSUME NEW packet, Well(packet)
    PROVE  LET len == Len(packet.payload)
           IN  /\ len \in Nat
               /\ WireLen(packet) = IF len = 0 THEN 8 ELSE 8 + len + 2
               /\ WireLen(packet) \in Nat /\ WireLen(packet) >= 8
<1>1. packet.payload \in Seq(Byte)
  BY PacketFacts
<1>2. packet.payload = <<>> <=> Len(packet.payload) = 0
  BY <1>1
<1> QED BY <1>1, <1>2 DEF WireLen, HeaderLen

LEMMA HeadOf ==
    ASSUME NEW packet, Well(packet)
    PROVE  LET E == Encode(packet)
           IN  /\ E[3] = packet.sync
               /\ E[4] \div Nibble = packet.protocol
               /\ E[4] % Nibble = packet.packet_type
               /\ FromLe(E[5], E[6]) = Len(packet.payload)
<1> DEFINE E == Encode(packet)
<1>1. E \in Seq(Byte) /\ Len(E) = WireLen(packet) /\ SubSeq(E, 3, 6) = Fields(packet)
  BY Layout
<1>2. Len(E) >= 6
  BY <1>1, WireLenIs
<1>3. PICK kind, low, high \in Byte :
         /\ Fields(packet) = <<packet.sync, kind, low, high>>
         /\ kind \div Nibble = packet.protocol
         /\ kind % Nibble = packet.packet_type
         /\ FromLe(low, high) = Len(packet.payload)
  BY FieldsAre
<1> HIDE DEF E
<1>4. <<E[3], E[4], E[5], E[6]>> = <<packet.sync, kind, low, high>>
  BY <1>1, <1>2, <1>3, FourOf
<1>5. E[3] = packet.sync /\ E[4] = kind /\ E[5] = low /\ E[6] = high
  BY <1>4
<1> QED BY <1>3, <1>5 DEF E

LEMMA FourAgree ==
    ASSUME NEW buf \in Seq(Byte), NEW bytes \in Seq(Byte),
           Len(buf) >= 8, Len(bytes) >= 8, Agree(buf, bytes, 8)
    PROVE  /\ buf[1] = bytes[1] /\ buf[2] = bytes[2] /\ buf[3] = bytes[3]
           /\ buf[4] = bytes[4] /\ buf[5] = bytes[5] /\ buf[6] = bytes[6]
           /\ buf[7] = bytes[7] /\ buf[8] = bytes[8]
           /\ SubSeq(buf, 3, 6) = SubSeq(bytes, 3, 6)
<1>1. /\ buf[1] = bytes[1] /\ buf[2] = bytes[2] /\ buf[3] = bytes[3]
      /\ buf[4] = bytes[4] /\ buf[5] = bytes[5] /\ buf[6] = bytes[6]
      /\ buf[7] = bytes[7] /\ buf[8] = bytes[8]
  BY DEF Agree
<1>2. Len(buf) >= 6 /\ Len(bytes) >= 6
  OBVIOUS
<1>3. /\ SubSeq(buf, 3, 6) = <<buf[3], buf[4], buf[5], buf[6]>>
      /\ SubSeq(bytes, 3, 6) = <<bytes[3], bytes[4], bytes[5], bytes[6]>>
  BY <1>2, FourOf
<1> QED BY <1>1, <1>3

LEMMA HeadAgrees ==
    ASSUME NEW packet, Well(packet), NEW buf \in Seq(Byte), Len(buf) >= 8,
           Agree(buf, Encode(packet), 8)
    PROVE  /\ <<buf[1], buf[2]>> = Token
           /\ HeaderFits(buf)
           /\ FromLe(buf[5], buf[6]) = Len(packet.payload)
           /\ PacketAt(buf, Len(packet.payload))
                 = Packet(packet.sync, packet.protocol, packet.packet_type,
                          SubSeq(buf, 9, 8 + Len(packet.payload)))
<1> DEFINE E == Encode(packet)
<1>1. /\ E \in Seq(Byte) /\ Len(E) >= 8
      /\ <<E[1], E[2]>> = Token
      /\ FromLe(E[7], E[8]) = Fletcher(SubSeq(E, 3, 6))
  BY Layout, WireLenIs
<1>2. /\ E[3] = packet.sync
      /\ E[4] \div Nibble = packet.protocol
      /\ E[4] % Nibble = packet.packet_type
      /\ FromLe(E[5], E[6]) = Len(packet.payload)
  BY HeadOf
<1>3. /\ buf[1] = E[1] /\ buf[2] = E[2] /\ buf[3] = E[3]
      /\ buf[4] = E[4] /\ buf[5] = E[5] /\ buf[6] = E[6]
      /\ buf[7] = E[7] /\ buf[8] = E[8]
      /\ SubSeq(buf, 3, 6) = SubSeq(E, 3, 6)
  <2>1. Agree(buf, E, 8)
    OBVIOUS
  <2> HIDE DEF E
  <2> QED BY <1>1, <2>1, FourAgree
<1> HIDE DEF E
<1>4. HeaderFits(buf)
  BY <1>1, <1>3 DEF HeaderFits
<1>5. PacketAt(buf, Len(packet.payload))
         = Packet(packet.sync, packet.protocol, packet.packet_type,
                  SubSeq(buf, 9, 8 + Len(packet.payload)))
  BY <1>2, <1>3 DEF PacketAt, HeaderLen
<1> QED BY <1>1, <1>2, <1>3, <1>4, <1>5

LEMMA PartAgrees ==
    ASSUME NEW buf \in Seq(Byte), NEW bytes \in Seq(Byte), NEW n \in Nat,
           n <= Len(buf), n <= Len(bytes), Agree(buf, bytes, n),
           NEW from \in Nat \ {0}
    PROVE  SubSeq(buf, from, n) = SubSeq(bytes, from, n)
<1>1. /\ SubSeq(buf, from, n) \in Seq(Byte) /\ SubSeq(bytes, from, n) \in Seq(Byte)
      /\ Len(SubSeq(buf, from, n)) = Len(SubSeq(bytes, from, n))
  OBVIOUS
<1>2. \A i \in 1 .. Len(SubSeq(buf, from, n)) :
         SubSeq(buf, from, n)[i] = SubSeq(bytes, from, n)[i]
  BY DEF Agree
<1> QED BY <1>1, <1>2, SameSeq

(* A whole packet, with or without bytes behind it, is decoded as itself.  *)
LEMMA DecodeInverts ==
    ASSUME NEW packet, Well(packet), NEW buf \in Seq(Byte),
           Len(buf) >= WireLen(packet),
           Agree(buf, Encode(packet), WireLen(packet))
    PROVE  Decode(buf) = Decoded(packet, WireLen(packet))
<1> DEFINE E == Encode(packet)
           len == Len(packet.payload)
<1>1. /\ len \in Nat
      /\ WireLen(packet) = IF len = 0 THEN 8 ELSE 8 + len + 2
      /\ WireLen(packet) \in Nat /\ WireLen(packet) >= 8
  BY WireLenIs
<1>2. /\ E \in Seq(Byte) /\ Len(E) = WireLen(packet)
      /\ SubSeq(E, 9, 8 + len) = packet.payload
      /\ len # 0 => FromLe(E[8 + len + 1], E[8 + len + 2])
                       = Fletcher(SubSeq(E, 3, 8 + len))
  BY Layout DEF HeaderLen
<1>3. Len(buf) >= 8 /\ Agree(buf, E, 8) /\ Agree(buf, E, 8 + len)
  BY <1>1 DEF Agree
<1>4. /\ <<buf[1], buf[2]>> = Token /\ HeaderFits(buf)
      /\ FromLe(buf[5], buf[6]) = len
      /\ PacketAt(buf, len) = Packet(packet.sync, packet.protocol, packet.packet_type,
                                     SubSeq(buf, 9, 8 + len))
  BY <1>3, HeadAgrees
<1>5. \A from \in Nat \ {0} : SubSeq(buf, from, 8 + len) = SubSeq(E, from, 8 + len)
  <2>1. 8 + len \in Nat /\ 8 + len <= Len(buf) /\ 8 + len <= Len(E)
    BY <1>1, <1>2
  <2> HIDE DEF E, len
  <2> QED BY <1>2, <1>3, <2>1, PartAgrees
<1>6. PacketAt(buf, len) = packet
  <2>1. SubSeq(buf, 9, 8 + len) = packet.payload
    <3>1. 9 \in Nat \ {0}
      OBVIOUS
    <3> HIDE DEF E, len
    <3>2. SubSeq(buf, 9, 8 + len) = SubSeq(E, 9, 8 + len)
      BY <1>5, <3>1
    <3> QED BY <1>2, <3>2
  <2> QED BY <1>4, <2>1, PacketFacts
<1>7. len # 0 => BodyFits(buf, len)
  <2> SUFFICES ASSUME len # 0
               PROVE  BodyFits(buf, len)
    OBVIOUS
  <2>1. 8 + len + 1 \in 1 .. WireLen(packet) /\ 8 + len + 2 \in 1 .. WireLen(packet)
    BY <1>1
  <2>2. buf[8 + len + 1] = E[8 + len + 1] /\ buf[8 + len + 2] = E[8 + len + 2]
    BY <2>1 DEF Agree
  <2>3. SubSeq(buf, 3, 8 + len) = SubSeq(E, 3, 8 + len)
    BY <1>5
  <2> HIDE DEF E, len
  <2> QED BY <1>2, <2>2, <2>3 DEF BodyFits, HeaderLen
<1> HIDE DEF E, len
<1>8. CASE len = 0
  <2>1. Decode(buf) = Decoded(PacketAt(buf, 0), HeaderLen)
    BY <1>3, <1>4, <1>8 DEF Decode, HeaderLen
  <2> QED BY <1>1, <1>6, <1>8, <2>1 DEF HeaderLen
<1>9. CASE len # 0
  <2>1. ~(Len(buf) < HeaderLen) /\ Total(len) = WireLen(packet)
        /\ ~(Len(buf) < Total(len))
    BY <1>1, <1>3, <1>9 DEF HeaderLen, Total
  <2>2. Decode(buf) = Decoded(PacketAt(buf, len), Total(len))
    BY <1>4, <1>7, <1>9, <2>1 DEF Decode
  <2> QED BY <1>6, <2>1, <2>2
<1> QED BY <1>8, <1>9

(* A beginning of a packet is incomplete, and the bytes asked for are more *)
(* than there are, not more than the packet has, and all of them once the  *)
(* header is there.                                                        *)
LEMMA DecodeWaits ==
    ASSUME NEW packet, Well(packet), NEW buf \in Seq(Byte),
           Len(buf) < WireLen(packet),
           Agree(buf, Encode(packet), Len(buf))
    PROVE  /\ Decode(buf).verdict = "Incomplete"
           /\ Len(buf) < Decode(buf).need
           /\ Decode(buf).need <= WireLen(packet)
           /\ Len(buf) >= HeaderLen => Decode(buf).need = WireLen(packet)
<1> DEFINE len == Len(packet.payload)
<1>1. /\ len \in Nat
      /\ WireLen(packet) = IF len = 0 THEN 8 ELSE 8 + len + 2
      /\ WireLen(packet) \in Nat /\ WireLen(packet) >= 8
  BY WireLenIs
<1>2. CASE Len(buf) < 8
  <2>1. Decode(buf) = Incomplete(8)
    BY <1>2 DEF Decode, HeaderLen
  <2> QED BY <1>1, <1>2, <2>1 DEF Incomplete, HeaderLen
<1>3. CASE ~(Len(buf) < 8)
  <2>1. Len(buf) >= 8 /\ Agree(buf, Encode(packet), 8)
    BY <1>3 DEF Agree
  <2>2. /\ <<buf[1], buf[2]>> = Token /\ HeaderFits(buf)
        /\ FromLe(buf[5], buf[6]) = len
    BY <2>1, HeadAgrees
  <2>3. len # 0 /\ Total(len) = WireLen(packet)
    BY <1>1, <1>3 DEF Total, HeaderLen
  <2> HIDE DEF len
  <2>4. Decode(buf) = Incomplete(WireLen(packet))
    BY <1>3, <2>2, <2>3 DEF Decode, HeaderLen
  <2> QED BY <1>1, <2>4 DEF Incomplete
<1> QED BY <1>2, <1>3
(* What decode has looked at when it says Ok.                              *)
LEMMA OkMeans ==
    ASSUME NEW buf \in Seq(Byte), Decode(buf).verdict = "Ok"
    PROVE  LET len == FromLe(buf[5], buf[6])
           IN  /\ Len(buf) >= 8
               /\ <<buf[1], buf[2]>> = Token
               /\ HeaderFits(buf)
               /\ len \in Double
               /\ \/ len = 0 /\ Decode(buf) = Decoded(PacketAt(buf, 0), 8)
                  \/ /\ len # 0 /\ Len(buf) >= 8 + len + 2
                     /\ BodyFits(buf, len)
                     /\ Decode(buf) = Decoded(PacketAt(buf, len), 8 + len + 2)
<1> DEFINE len == FromLe(buf[5], buf[6])
<1>1. /\ \A n : Incomplete(n).verdict # "Ok"
      /\ Bad("BadToken").verdict # "Ok"
      /\ Bad("HeaderChecksum").verdict # "Ok"
      /\ Bad("PayloadChecksum").verdict # "Ok"
  BY DEF Incomplete, Bad
<1>2. ~(Len(buf) < 8)
  BY <1>1 DEF Decode, HeaderLen
<1>3. <<buf[1], buf[2]>> = Token
  BY <1>1, <1>2 DEF Decode, HeaderLen
<1>4. HeaderFits(buf)
  BY <1>1, <1>2, <1>3 DEF Decode, HeaderLen
<1>5. len \in Double
  <2>1. buf[5] \in Byte /\ buf[6] \in Byte
    BY <1>2
  <2>2. Base \in Nat \ {0} /\ buf[5] \in 0 .. (Base - 1) /\ buf[6] \in 0 .. (Base - 1)
    BY <2>1, BaseFacts
  <2>3. buf[5] + Base * buf[6] \in 0 .. (Base * Base - 1)
    BY <2>2, PackBound
  <2> QED BY <2>3 DEF FromLe, Double
<1> HIDE DEF len
<1>6. Decode(buf) =
         IF len = 0 THEN Decoded(PacketAt(buf, 0), 8)
         ELSE IF Len(buf) < Total(len) THEN Incomplete(Total(len))
         ELSE IF ~BodyFits(buf, len) THEN Bad("PayloadChecksum")
         ELSE Decoded(PacketAt(buf, len), Total(len))
  BY <1>2, <1>3, <1>4 DEF Decode, HeaderLen, len
<1>7. Total(len) = 8 + len + 2
  BY DEF Total, HeaderLen
<1>8. len # 0 => ~(Len(buf) < Total(len)) /\ BodyFits(buf, len)
  BY <1>1, <1>6
<1>9. len # 0 => Len(buf) >= 8 + len + 2
  <2>1. len \in Nat
    BY <1>5 DEF Double
  <2> QED BY <1>7, <1>8, <2>1
<1> QED BY <1>2, <1>3, <1>4, <1>5, <1>6, <1>7, <1>8, <1>9 DEF len

(* What is decoded is a packet that could have been encoded, and takes at  *)
(* least its header and at most what there is.                             *)
LEMMA DecodeRange ==
    ASSUME NEW buf \in Seq(Byte), Decode(buf).verdict = "Ok"
    PROVE  /\ Well(Decode(buf).packet)
           /\ Decode(buf).consumed \in 8 .. Len(buf)
<1> DEFINE len == FromLe(buf[5], buf[6])
<1>1. Len(buf) >= 8 /\ len \in Double
  BY OkMeans
<1>2. len \in Nat /\ len <= MaxPayload
  <2>1. Base * Base \in Nat
    BY BaseFacts
  <2> HIDE DEF len
  <2> QED BY <1>1, <2>1 DEF Double, MaxPayload
<1>3. /\ Decode(buf) = Decoded(PacketAt(buf, len), IF len = 0 THEN 8 ELSE 8 + len + 2)
      /\ len # 0 => Len(buf) >= 8 + len + 2
  BY OkMeans
<1> HIDE DEF len
<1>4. Decode(buf).packet = PacketAt(buf, len)
      /\ Decode(buf).consumed = IF len = 0 THEN 8 ELSE 8 + len + 2
  BY <1>3 DEF Decoded
<1>5. buf[3] \in Byte /\ buf[4] \in Byte
  BY <1>1
<1>6. buf[4] \div Nibble \in 0 .. (Nibble - 1) /\ buf[4] % Nibble \in 0 .. (Nibble - 1)
  <2>1. Nibble \in Nat \ {0} /\ buf[4] \in Nat /\ buf[4] < Nibble * Nibble
    BY <1>5, BaseFacts
  <2> QED BY <2>1, DivMod, DivBound
<1>7. /\ \A k \in 0 .. (Nibble - 1) : k \in Byte /\ k < Nibble
  BY BaseFacts
<1> DEFINE payload == SubSeq(buf, 9, 8 + len)
<1>8. payload \in Seq(Byte) /\ Len(payload) = len
  BY <1>1, <1>2, <1>3
<1>9. PacketAt(buf, len) = [sync |-> buf[3], protocol |-> buf[4] \div Nibble,
                            packet_type |-> buf[4] % Nibble, payload |-> payload]
  BY DEF PacketAt, Packet, HeaderLen
<1> HIDE DEF payload
<1>10. Well(PacketAt(buf, len))
  BY <1>2, <1>5, <1>6, <1>7, <1>8, <1>9 DEF Well, AnyPacket, Encodable
<1> QED BY <1>1, <1>2, <1>3, <1>4, <1>10

(* decode says nothing of a byte more than it has.                         *)
LEMMA ShortIsIncomplete ==
    ASSUME NEW buf \in Seq(Byte), Len(buf) < 8
    PROVE  Decode(buf).verdict = "Incomplete"
BY DEF Decode, HeaderLen, Incomplete

-------------------------------------------------------------------------------
(* A packet with one damaged byte is not decoded.                          *)
DamagedAt(buf, bytes, d) ==
    /\ d \in 1 .. Len(bytes) /\ d <= Len(buf)
    /\ \A i \in 1 .. Len(bytes) : i <= Len(buf) /\ i # d => buf[i] = bytes[i]
    /\ buf[d] # bytes[d] /\ ~Blind(buf[d], bytes[d])

LEMMA DamagedPart ==
    ASSUME NEW buf \in Seq(Byte), NEW bytes \in Seq(Byte), NEW d,
           DamagedAt(buf, bytes, d), NEW n \in Nat,
           n <= Len(buf), n <= Len(bytes), d \in 3 .. n
    PROVE  Fletcher(SubSeq(buf, 3, n)) # Fletcher(SubSeq(bytes, 3, n))
<1> DEFINE s == SubSeq(bytes, 3, n)
           t == SubSeq(buf, 3, n)
<1>1. /\ s \in Seq(Byte) /\ t \in Seq(Byte) /\ Len(s) = n - 2 /\ Len(t) = n - 2
      /\ \A i \in 1 .. n - 2 : s[i] = bytes[i + 2] /\ t[i] = buf[i + 2]
  OBVIOUS
<1>2. /\ \A i \in 1 .. n : i # d => buf[i] = bytes[i]
      /\ buf[d] # bytes[d] /\ ~Blind(buf[d], bytes[d])
  BY DEF DamagedAt
<1> HIDE DEF s, t
<1>3. d - 2 \in 1 .. n - 2 /\ (d - 2) + 2 = d
  OBVIOUS
<1>4. \A i \in 1 .. n - 2 : i # d - 2 => i + 2 \in 1 .. n /\ i + 2 # d
  OBVIOUS
<1>5. DiffersAt(s, t, d - 2)
  BY <1>1, <1>2, <1>3, <1>4 DEF DiffersAt
<1>6. Fletcher(t) # Fletcher(s)
  BY <1>1, <1>5, FletcherDiffers
<1> QED BY <1>6 DEF s, t

LEMMA DamageIsSeen ==
    ASSUME NEW packet, Well(packet), NEW buf \in Seq(Byte), NEW d,
           DamagedAt(buf, Encode(packet), d)
    PROVE  Decode(buf).verdict # "Ok"
<1> DEFINE E == Encode(packet)
           len == Len(packet.payload)
<1>1. /\ len \in Nat
      /\ WireLen(packet) = IF len = 0 THEN 8 ELSE 8 + len + 2
      /\ WireLen(packet) \in Nat /\ WireLen(packet) >= 8
  BY WireLenIs
<1>2. /\ E \in Seq(Byte) /\ Len(E) = WireLen(packet)
      /\ <<E[1], E[2]>> = Token
      /\ FromLe(E[7], E[8]) = Fletcher(SubSeq(E, 3, 6))
      /\ len # 0 => FromLe(E[8 + len + 1], E[8 + len + 2])
                       = Fletcher(SubSeq(E, 3, 8 + len))
  BY Layout DEF HeaderLen
<1>3. FromLe(E[5], E[6]) = len
  BY HeadOf
<1>4. SUFFICES ASSUME Decode(buf).verdict = "Ok"
               PROVE  FALSE
  OBVIOUS
<1>5. /\ Len(buf) >= 8
      /\ <<buf[1], buf[2]>> = Token
      /\ HeaderFits(buf)
      /\ FromLe(buf[5], buf[6]) # 0 =>
            /\ Len(buf) >= 8 + FromLe(buf[5], buf[6]) + 2
            /\ BodyFits(buf, FromLe(buf[5], buf[6]))
  BY <1>4, OkMeans
<1>6. DamagedAt(buf, E, d)
  OBVIOUS
<1> HIDE DEF E, len
<1>7. /\ d \in 1 .. Len(E) /\ d <= Len(buf)
      /\ \A i \in 1 .. Len(E) : i <= Len(buf) /\ i # d => buf[i] = E[i]
      /\ buf[d] # E[d]
  BY <1>6 DEF DamagedAt
<1>8. \A i \in 1 .. 8 : i # d => buf[i] = E[i]
  <2>1. \A i \in 1 .. 8 : i \in 1 .. Len(E) /\ i <= Len(buf)
    BY <1>1, <1>2, <1>5
  <2> QED BY <1>7, <2>1
<1>9. d # 1 /\ d # 2
  <2>1. buf[1] = E[1] /\ buf[2] = E[2]
    BY <1>2, <1>5
  <2> QED BY <1>7, <2>1
<1>10. FromLe(buf[7], buf[8]) = Fletcher(SubSeq(buf, 3, 6))
  BY <1>5 DEF HeaderFits
<1>11. ~(d \in 3 .. 6)
  <2> SUFFICES ASSUME d \in 3 .. 6
               PROVE  FALSE
    OBVIOUS
  <2>1. Fletcher(SubSeq(buf, 3, 6)) # Fletcher(SubSeq(E, 3, 6))
    <3>1. 6 \in Nat /\ 6 <= Len(buf) /\ 6 <= Len(E)
      BY <1>1, <1>2, <1>5
    <3> QED BY <1>2, <1>6, <3>1, DamagedPart
  <2>2. buf[7] = E[7] /\ buf[8] = E[8]
    BY <1>8
  <2> QED BY <1>2, <1>10, <2>1, <2>2
<1>12. ~(d \in 7 .. 8)
  <2> SUFFICES ASSUME d \in 7 .. 8
               PROVE  FALSE
    OBVIOUS
  <2>1. SubSeq(buf, 3, 6) = SubSeq(E, 3, 6)
    <3>1. Agree(buf, E, 6) /\ 6 \in Nat /\ 6 <= Len(buf) /\ 6 <= Len(E)
      BY <1>1, <1>2, <1>5, <1>8 DEF Agree
    <3>2. 3 \in Nat \ {0}
      OBVIOUS
    <3> QED BY <1>2, <3>1, <3>2, PartAgrees
  <2>2. FromLe(buf[7], buf[8]) = FromLe(E[7], E[8])
    BY <1>2, <1>10, <2>1
  <2>3. buf[7] \in Byte /\ buf[8] \in Byte /\ E[7] \in Byte /\ E[8] \in Byte
    BY <1>1, <1>2, <1>5
  <2>4. buf[7] = E[7] /\ buf[8] = E[8]
    BY <2>2, <2>3, FromLeDiffers
  <2>5. d = 7 \/ d = 8
    OBVIOUS
  <2> QED BY <1>7, <2>4, <2>5
<1>13. d \in 9 .. Len(E) /\ len # 0
  <2>1. ~(d \in 1 .. 8)
    <3>1. \A k \in 1 .. 8 : k = 1 \/ k = 2 \/ k \in 3 .. 6 \/ k \in 7 .. 8
      OBVIOUS
    <3> QED BY <1>9, <1>11, <1>12, <3>1
  <2>2. d \in 9 .. Len(E)
    BY <1>1, <1>2, <1>7, <2>1
  <2> QED BY <1>1, <1>2, <2>2
<1>14. buf[5] = E[5] /\ buf[6] = E[6]
  BY <1>8, <1>13
<1>15. /\ Len(buf) >= 8 + len + 2
       /\ FromLe(buf[8 + len + 1], buf[8 + len + 2]) = Fletcher(SubSeq(buf, 3, 8 + len))
  BY <1>3, <1>5, <1>13, <1>14 DEF BodyFits, HeaderLen
<1>16. Len(E) = 8 + len + 2
  BY <1>1, <1>2, <1>13
<1>17. 8 + len \in Nat /\ 8 + len <= Len(buf) /\ 8 + len <= Len(E)
       /\ 8 + len + 1 \in 1 .. Len(E) /\ 8 + len + 2 \in 1 .. Len(E)
       /\ 8 + len + 1 \in 1 .. Len(buf) /\ 8 + len + 2 \in 1 .. Len(buf)
  BY <1>1, <1>15, <1>16
<1>18. CASE d \in 9 .. 8 + len
  <2>1. d \in 3 .. 8 + len
    BY <1>17, <1>18
  <2>2. Fletcher(SubSeq(buf, 3, 8 + len)) # Fletcher(SubSeq(E, 3, 8 + len))
    BY <1>2, <1>6, <1>17, <2>1, DamagedPart
  <2>3. 8 + len + 1 # d /\ 8 + len + 2 # d
    BY <1>1, <1>18
  <2>4. buf[8 + len + 1] = E[8 + len + 1] /\ buf[8 + len + 2] = E[8 + len + 2]
    BY <1>7, <1>17, <2>3
  <2> QED BY <1>2, <1>13, <1>15, <2>2, <2>4
<1>19. CASE ~(d \in 9 .. 8 + len)
  <2>1. d = 8 + len + 1 \/ d = 8 + len + 2
    BY <1>1, <1>13, <1>16, <1>19
  <2>2. SubSeq(buf, 3, 8 + len) = SubSeq(E, 3, 8 + len)
    <3>1. Agree(buf, E, 8 + len)
      BY <1>1, <1>7, <1>17, <2>1 DEF Agree
    <3>2. 3 \in Nat \ {0}
      OBVIOUS
    <3> QED BY <1>2, <1>17, <3>1, <3>2, PartAgrees
  <2>3. FromLe(buf[8 + len + 1], buf[8 + len + 2])
           = FromLe(E[8 + len + 1], E[8 + len + 2])
    BY <1>2, <1>13, <1>15, <2>2
  <2>4. /\ buf[8 + len + 1] \in Byte /\ buf[8 + len + 2] \in Byte
        /\ E[8 + len + 1] \in Byte /\ E[8 + len + 2] \in Byte
    BY <1>2, <1>17
  <2>5. buf[8 + len + 1] = E[8 + len + 1] /\ buf[8 + len + 2] = E[8 + len + 2]
    BY <2>3, <2>4, FromLeDiffers
  <2> QED BY <1>7, <2>1, <2>5
<1> QED BY <1>18, <1>19
-------------------------------------------------------------------------------
(* Streams of packets.                                                     *)
WellStream(packets) ==
    /\ packets \in Seq(AnyPacket)
    /\ \A i \in 1 .. Len(packets) : Well(packets[i])

LEMMA StreamsAreWell ==
    ASSUME NEW packets \in Streams
    PROVE  WellStream(packets)
<1>1. packets \in Seq(AnyPacket) /\ \A i \in 1 .. Len(packets) : Encodable(packets[i])
  BY StreamsAssumption
<1>2. \A i \in 1 .. Len(packets) : packets[i] \in AnyPacket
  BY <1>1
<1> QED BY <1>1, <1>2 DEF WellStream, Well

AreStarts(at, packets, n) ==
    at = [k \in 1 .. n |-> IF k = 1 THEN 0 ELSE at[k - 1] + WireLen(packets[k - 1])]

LEMMA StartsExist ==
    ASSUME NEW packets, NEW n \in Nat \ {0}
    PROVE  \E at : AreStarts(at, packets, n)
<1> DEFINE S == { k \in Nat : \E at : AreStarts(at, packets, k) }
<1>1. 1 \in S
  <2> DEFINE one == [k \in 1 .. 1 |-> 0]
  <2>1. one = [k \in 1 .. 1 |->
                  IF k = 1 THEN 0 ELSE one[k - 1] + WireLen(packets[k - 1])]
    OBVIOUS
  <2>2. AreStarts(one, packets, 1)
    BY <2>1 DEF AreStarts
  <2> QED BY <2>2
<1>2. ASSUME NEW k \in 1 .. (n - 1), k \in S
      PROVE  k + 1 \in S
  <2>1. PICK at : AreStarts(at, packets, k)
    BY <1>2
  <2> DEFINE more == [i \in 1 .. (k + 1) |->
                         IF i = k + 1 THEN at[k] + WireLen(packets[k]) ELSE at[i]]
  <2>2. \A i \in 1 .. k : more[i] = at[i]
    OBVIOUS
  <2>3. \A i \in 1 .. k :
           at[i] = IF i = 1 THEN 0 ELSE at[i - 1] + WireLen(packets[i - 1])
    BY <2>1 DEF AreStarts
  <2>4. \A i \in 1 .. (k + 1) :
           more[i] = IF i = 1 THEN 0 ELSE more[i - 1] + WireLen(packets[i - 1])
    BY <2>2, <2>3
  <2>5. more = [i \in 1 .. (k + 1) |->
                   IF i = 1 THEN 0 ELSE more[i - 1] + WireLen(packets[i - 1])]
    <3>1. more = [i \in 1 .. (k + 1) |-> more[i]]
      OBVIOUS
    <3> HIDE DEF more
    <3> QED BY <2>4, <3>1
  <2>6. AreStarts(more, packets, k + 1)
    BY <2>5 DEF AreStarts
  <2> QED BY <2>6
<1>3. \A i \in 1 .. n : i \in S
  <2> HIDE DEF S
  <2> QED BY <1>1, <1>2, Induction
<1> QED BY <1>3

LEMMA StartUnfolds ==
    ASSUME NEW packets, NEW i, \E at : AreStarts(at, packets, i)
    PROVE  \E at : AreStarts(at, packets, i) /\ Start(packets, i) = at[i]
BY DEF Start, AreStarts

(* Each packet begins where the one before it ends.                        *)
LEMMA StartFacts ==
    ASSUME NEW packets, WellStream(packets)
    PROVE  /\ Start(packets, 1) = 0
           /\ \A i \in 1 .. Len(packets) + 1 : Start(packets, i) \in Nat
           /\ \A i \in 1 .. Len(packets) :
                 Start(packets, i + 1) = Start(packets, i) + WireLen(packets[i])
<1> DEFINE n == Len(packets) + 1
<1>1. n \in Nat \ {0} /\ Len(packets) \in Nat
  BY DEF WellStream
<1>2. PICK at : AreStarts(at, packets, n)
  BY <1>1, StartsExist
<1>3. \A k \in 1 .. n :
         at[k] = IF k = 1 THEN 0 ELSE at[k - 1] + WireLen(packets[k - 1])
  BY <1>2 DEF AreStarts
<1>4. ASSUME NEW i \in 1 .. n
      PROVE  Start(packets, i) = at[i]
  <2>1. i \in Nat \ {0} /\ i \in 1 .. i
    BY <1>1
  <2>2. PICK own : AreStarts(own, packets, i) /\ Start(packets, i) = own[i]
    BY <2>1, StartsExist, StartUnfolds
  <2>3. \A k \in 1 .. i :
           own[k] = IF k = 1 THEN 0 ELSE own[k - 1] + WireLen(packets[k - 1])
    BY <2>2 DEF AreStarts
  <2> DEFINE S == { k \in Nat : own[k] = at[k] }
  <2>4. 1 \in S
    BY <1>1, <1>3, <2>1, <2>3
  <2>5. ASSUME NEW k \in 1 .. (i - 1), k \in S
        PROVE  k + 1 \in S
    <3>1. /\ k + 1 \in 1 .. i /\ k + 1 \in 1 .. n /\ k + 1 # 1 /\ (k + 1) - 1 = k
          /\ k + 1 \in Nat
      BY <1>1
    <3>2. own[k + 1] = own[k] + WireLen(packets[k])
          /\ at[k + 1] = at[k] + WireLen(packets[k])
      BY <1>3, <2>3, <3>1
    <3>3. own[k] = at[k]
      BY <2>5
    <3> QED BY <3>1, <3>2, <3>3
  <2>6. \A k \in 1 .. i : k \in S
    <3> HIDE DEF S
    <3> QED BY <2>1, <2>4, <2>5, Induction
  <2> QED BY <2>1, <2>2, <2>6
<1>5. \A i \in 1 .. Len(packets) : WireLen(packets[i]) \in Nat
  BY WireLenIs DEF WellStream
<1>6. \A i \in 1 .. Len(packets) : at[i + 1] = at[i] + WireLen(packets[i])
  <2> TAKE i \in 1 .. Len(packets)
  <2>1. i + 1 \in 1 .. n /\ i + 1 # 1 /\ (i + 1) - 1 = i
    BY <1>1
  <2> QED BY <1>3, <2>1
<1>7. \A i \in 1 .. n : at[i] \in Nat
  <2> DEFINE S == { k \in Nat : at[k] \in Nat }
  <2>1. 1 \in S
    BY <1>1, <1>3
  <2>2. ASSUME NEW k \in 1 .. (n - 1), k \in S
        PROVE  k + 1 \in S
    <3>1. k \in 1 .. Len(packets) /\ k + 1 \in Nat /\ at[k] \in Nat
      BY <1>1, <2>2
    <3> QED BY <1>5, <1>6, <3>1
  <2>3. \A k \in 1 .. n : k \in S
    <3> HIDE DEF S, n
    <3> QED BY <1>1, <2>1, <2>2, Induction
  <2> QED BY <2>3
<1>8. \A i \in 1 .. Len(packets) : i \in 1 .. n /\ i + 1 \in 1 .. n
  BY <1>1
<1>9. 1 \in 1 .. n
  BY <1>1
<1> QED BY <1>3, <1>4, <1>6, <1>7, <1>8, <1>9

AreBytes(upto, packets, n) ==
    upto = [k \in 0 .. n |->
               IF k = 0 THEN <<>> ELSE upto[k - 1] \o Encode(packets[k])]

LEMMA BytesExist ==
    ASSUME NEW packets, NEW n \in Nat
    PROVE  \E upto : AreBytes(upto, packets, n)
<1> DEFINE S == { k \in Nat : \E upto : AreBytes(upto, packets, k) }
<1>1. 0 \in S
  <2> DEFINE none == [k \in 0 .. 0 |-> <<>>]
  <2>1. none = [k \in 0 .. 0 |->
                   IF k = 0 THEN <<>> ELSE none[k - 1] \o Encode(packets[k])]
    OBVIOUS
  <2>2. AreBytes(none, packets, 0)
    BY <2>1 DEF AreBytes
  <2> QED BY <2>2
<1>2. ASSUME NEW k \in 0 .. (n - 1), k \in S
      PROVE  k + 1 \in S
  <2>1. PICK upto : AreBytes(upto, packets, k)
    BY <1>2
  <2> DEFINE more == [i \in 0 .. (k + 1) |->
                         IF i = k + 1 THEN upto[k] \o Encode(packets[k + 1])
                         ELSE upto[i]]
  <2>2. \A i \in 0 .. k : more[i] = upto[i]
    OBVIOUS
  <2>3. \A i \in 0 .. k :
           upto[i] = IF i = 0 THEN <<>> ELSE upto[i - 1] \o Encode(packets[i])
    BY <2>1 DEF AreBytes
  <2>4. \A i \in 0 .. (k + 1) :
           more[i] = IF i = 0 THEN <<>> ELSE more[i - 1] \o Encode(packets[i])
    BY <2>2, <2>3
  <2>5. more = [i \in 0 .. (k + 1) |->
                   IF i = 0 THEN <<>> ELSE more[i - 1] \o Encode(packets[i])]
    <3>1. more = [i \in 0 .. (k + 1) |-> more[i]]
      OBVIOUS
    <3> HIDE DEF more
    <3> QED BY <2>4, <3>1
  <2>6. AreBytes(more, packets, k + 1)
    BY <2>5 DEF AreBytes
  <2> QED BY <2>6
<1>3. \A i \in 0 .. n : i \in S
  <2> HIDE DEF S
  <2> QED BY <1>1, <1>2, Induction
<1> QED BY <1>3

LEMMA BytesUnfold ==
    ASSUME NEW packets, \E upto : AreBytes(upto, packets, Len(packets))
    PROVE  \E upto : /\ AreBytes(upto, packets, Len(packets))
                     /\ Bytes(packets) = upto[Len(packets)]
BY DEF Bytes, AreBytes

(* The bytes of a stream are those of its packets, each at its place.      *)
LEMMA BytesFacts ==
    ASSUME NEW packets, WellStream(packets)
    PROVE  /\ Bytes(packets) \in Seq(Byte)
           /\ Len(Bytes(packets)) = Start(packets, Len(packets) + 1)
           /\ \A i \in 1 .. Len(packets) : \A k \in 1 .. WireLen(packets[i]) :
                 /\ Start(packets, i) + k \in 1 .. Len(Bytes(packets))
                 /\ Bytes(packets)[Start(packets, i) + k] = Encode(packets[i])[k]
<1> DEFINE n == Len(packets)
<1>1. n \in Nat
  BY DEF WellStream
<1>2. PICK upto : AreBytes(upto, packets, n) /\ Bytes(packets) = upto[n]
  BY <1>1, BytesExist, BytesUnfold
<1>3. upto[0] = <<>> /\ \A k \in 1 .. n : upto[k] = upto[k - 1] \o Encode(packets[k])
  <2> HIDE DEF n
  <2>1. \A k \in 0 .. n :
           upto[k] = IF k = 0 THEN <<>> ELSE upto[k - 1] \o Encode(packets[k])
    BY <1>2 DEF AreBytes
  <2>2. 0 \in 0 .. n /\ \A k \in 1 .. n : k \in 0 .. n /\ k # 0
    BY <1>1
  <2> QED BY <2>1, <2>2
<1>4. /\ Start(packets, 1) = 0
      /\ \A i \in 1 .. n + 1 : Start(packets, i) \in Nat
      /\ \A i \in 1 .. n :
            Start(packets, i + 1) = Start(packets, i) + WireLen(packets[i])
  BY StartFacts
<1>5. \A i \in 1 .. n : /\ Encode(packets[i]) \in Seq(Byte)
                        /\ Len(Encode(packets[i])) = WireLen(packets[i])
                        /\ WireLen(packets[i]) \in Nat
  BY Layout, WireLenIs DEF WellStream
<1> HIDE DEF n
<1> DEFINE Placed(m) ==
              /\ upto[m] \in Seq(Byte)
              /\ Len(upto[m]) = Start(packets, m + 1)
              /\ \A i \in 1 .. m : \A k \in 1 .. WireLen(packets[i]) :
                    /\ Start(packets, i) + k \in 1 .. Len(upto[m])
                    /\ upto[m][Start(packets, i) + k] = Encode(packets[i])[k]
           S == { m \in Nat : Placed(m) }
<1>6. 0 \in S
  <2>1. <<>> \in Seq(Byte) /\ Len(<<>>) = 0 /\ 0 + 1 = 1
    OBVIOUS
  <2>2. upto[0] \in Seq(Byte) /\ Len(upto[0]) = Start(packets, 0 + 1)
    BY <1>3, <1>4, <2>1
  <2>3. \A i \in 1 .. 0 : FALSE
    OBVIOUS
  <2>4. Placed(0)
    BY <2>2, <2>3
  <2> QED BY <2>4
<1>7. ASSUME NEW m \in 0 .. (n - 1), m \in S
      PROVE  m + 1 \in S
  <2>1. m + 1 \in 1 .. n /\ (m + 1) - 1 = m /\ m \in Nat /\ m + 1 \in Nat
    BY <1>1
  <2>2. Placed(m)
    BY <1>7
  <2> DEFINE old == upto[m]
             E == Encode(packets[m + 1])
             new == upto[m + 1]
  <2>3. /\ new = old \o E /\ old \in Seq(Byte) /\ E \in Seq(Byte)
        /\ Len(old) = Start(packets, m + 1) /\ Len(E) = WireLen(packets[m + 1])
    BY <1>3, <1>5, <2>1, <2>2
  <2>4. \A i \in 1 .. m : \A k \in 1 .. WireLen(packets[i]) :
           /\ Start(packets, i) + k \in 1 .. Len(old)
           /\ old[Start(packets, i) + k] = Encode(packets[i])[k]
    BY <2>2
  <2> HIDE DEF old, E, new
  <2>5. /\ new \in Seq(Byte) /\ Len(new) = Len(old) + Len(E)
        /\ \A k \in 1 .. Len(old) : new[k] = old[k]
        /\ \A k \in 1 .. Len(E) : new[Len(old) + k] = E[k]
        /\ Len(old) \in Nat /\ Len(E) \in Nat
    <3>1. old \in Seq(Byte) /\ E \in Seq(Byte) /\ new = old \o E
      BY <2>3
    <3>2. /\ old \o E \in Seq(Byte) /\ Len(old \o E) = Len(old) + Len(E)
          /\ \A k \in 1 .. Len(old) : (old \o E)[k] = old[k]
          /\ \A k \in 1 .. Len(E) : (old \o E)[Len(old) + k] = E[k]
          /\ Len(old) \in Nat /\ Len(E) \in Nat
      BY <3>1, Joined
    <3> QED BY <3>1, <3>2
  <2>6. Len(new) = Start(packets, (m + 1) + 1)
    BY <1>4, <2>1, <2>3, <2>5
  <2>7. ASSUME NEW i \in 1 .. m + 1, NEW k \in 1 .. WireLen(packets[i])
        PROVE  /\ Start(packets, i) + k \in 1 .. Len(new)
               /\ new[Start(packets, i) + k] = Encode(packets[i])[k]
    <3>1. CASE i = m + 1
      <4>1. k \in 1 .. Len(E) /\ Start(packets, i) = Len(old)
        BY <2>3, <3>1
      <4>2. new[Len(old) + k] = E[k] /\ Len(old) + k \in 1 .. Len(new)
        BY <2>5, <4>1
      <4> QED BY <3>1, <4>1, <4>2 DEF E
    <3>2. CASE i # m + 1
      <4>1. i \in 1 .. m
        BY <2>1, <3>2
      <4>2. /\ Start(packets, i) + k \in 1 .. Len(old)
            /\ old[Start(packets, i) + k] = Encode(packets[i])[k]
        BY <2>4, <4>1
      <4> QED BY <2>5, <4>2
    <3> QED BY <3>1, <3>2
  <2> QED BY <2>1, <2>5, <2>6, <2>7 DEF new
<1>8. Placed(n)
  <2>1. \A m \in 0 .. n : m \in S
    <3> HIDE DEF S
    <3> QED BY <1>1, <1>6, <1>7, Induction
  <2> QED BY <1>1, <2>1
<1> QED BY <1>2, <1>8 DEF n
-------------------------------------------------------------------------------
(* The invariant of sender, line and receiver.                             *)
CodecTypes ==
    /\ stream \in Streams
    /\ wire \in Seq(Byte) /\ inbound \in Seq(Byte)
    /\ consumed \in Nat
    /\ delivered \in Seq([at : Nat, packet : AnyPacket])
    /\ \A i \in 1 .. Len(delivered) :
          Well(delivered[i].packet) /\ delivered[i].at \in 0 .. consumed
    /\ draining \in BOOLEAN /\ damaged \in BOOLEAN

(* The buffer and the line hold the bytes behind those consumed.           *)
OnLine(bytes) ==
    /\ bytes \in Seq(Byte)
    /\ Len(bytes) = Len(Bytes(stream))
    /\ consumed + Len(inbound) + Len(wire) = Len(bytes)
    /\ \A i \in 1 .. Len(inbound) : inbound[i] = bytes[consumed + i]
    /\ \A i \in 1 .. Len(wire) : wire[i] = bytes[consumed + Len(inbound) + i]

(* They are the bytes of the stream, or these with one byte changed.       *)
Carried ==
    /\ ~damaged => OnLine(Bytes(stream))
    /\ damaged => \E bytes, d : OnLine(bytes) /\ DiffersAt(Bytes(stream), bytes, d)

(* Without damage the receiver is at the beginning of a packet, and has    *)
(* stopped only because the packet is not all there.                       *)
Progress ==
    ~damaged =>
        /\ Len(delivered) <= Len(stream)
        /\ \A i \in 1 .. Len(delivered) :
              delivered[i] = [at |-> Start(stream, i), packet |-> stream[i]]
        /\ consumed = Start(stream, Len(delivered) + 1)
        /\ ~draining /\ Len(delivered) < Len(stream) =>
              Len(inbound) < WireLen(stream[Len(delivered) + 1])

CodecInv == CodecTypes /\ Carried /\ Progress /\ DamageNoticed

LEMMA StreamFacts ==
    ASSUME CodecTypes
    PROVE  /\ WellStream(stream) /\ Len(stream) \in Nat
           /\ Bytes(stream) \in Seq(Byte)
           /\ Len(Bytes(stream)) = Start(stream, Len(stream) + 1)
           /\ \A i \in 1 .. Len(stream) :
                 /\ Well(stream[i])
                 /\ Start(stream, i) \in Nat
                 /\ Start(stream, i + 1) = Start(stream, i) + WireLen(stream[i])
                 /\ WireLen(stream[i]) \in Nat /\ WireLen(stream[i]) >= 8
                 /\ Encode(stream[i]) \in Seq(Byte)
                 /\ Len(Encode(stream[i])) = WireLen(stream[i])
                 /\ Start(stream, i) + WireLen(stream[i]) <= Len(Bytes(stream))
<1>1. WellStream(stream)
  BY StreamsAreWell DEF CodecTypes
<1>2. Len(stream) \in Nat /\ \A i \in 1 .. Len(stream) : Well(stream[i])
  BY <1>1 DEF WellStream
<1>3. /\ Bytes(stream) \in Seq(Byte)
      /\ Len(Bytes(stream)) = Start(stream, Len(stream) + 1)
      /\ \A i \in 1 .. Len(stream) : \A k \in 1 .. WireLen(stream[i]) :
            Start(stream, i) + k \in 1 .. Len(Bytes(stream))
  BY <1>1, BytesFacts
<1>4. ASSUME NEW i \in 1 .. Len(stream)
      PROVE  /\ Start(stream, i) \in Nat
             /\ Start(stream, i + 1) = Start(stream, i) + WireLen(stream[i])
             /\ WireLen(stream[i]) \in Nat /\ WireLen(stream[i]) >= 8
             /\ Encode(stream[i]) \in Seq(Byte)
             /\ Len(Encode(stream[i])) = WireLen(stream[i])
             /\ Start(stream, i) + WireLen(stream[i]) <= Len(Bytes(stream))
  <2>1. i \in 1 .. Len(stream) + 1
    BY <1>2
  <2>2. /\ Start(stream, i) \in Nat
        /\ Start(stream, i + 1) = Start(stream, i) + WireLen(stream[i])
    BY <1>1, <2>1, StartFacts
  <2>3. WireLen(stream[i]) \in Nat /\ WireLen(stream[i]) >= 8
    BY <1>2, WireLenIs
  <2>4. /\ Encode(stream[i]) \in Seq(Byte)
        /\ Len(Encode(stream[i])) = WireLen(stream[i])
    BY <1>2, Layout
  <2>5. WireLen(stream[i]) \in 1 .. WireLen(stream[i])
    BY <2>3
  <2>6. Start(stream, i) + WireLen(stream[i]) \in 1 .. Len(Bytes(stream))
    BY <1>3, <2>5
  <2> QED BY <1>3, <2>2, <2>3, <2>4, <2>6
<1> QED BY <1>1, <1>2, <1>3, <1>4

(* What is decoded where a packet of the sender's begins is that packet.   *)
LEMMA DecodedAtStart ==
    ASSUME CodecTypes, Carried, NEW i \in 1 .. Len(stream),
           consumed = Start(stream, i), Decode(inbound).verdict = "Ok"
    PROVE  Decode(inbound) = Decoded(stream[i], WireLen(stream[i]))
<1> DEFINE whole == Bytes(stream)
           packet == stream[i]
           E == Encode(packet)
           W == WireLen(packet)
<1>1. /\ Well(packet) /\ W \in Nat /\ E \in Seq(Byte) /\ Len(E) = W
      /\ whole \in Seq(Byte) /\ consumed \in Nat /\ consumed + W <= Len(whole)
      /\ inbound \in Seq(Byte) /\ Len(inbound) \in Nat
  BY StreamFacts DEF CodecTypes
<1>2. \A k \in 1 .. W : whole[consumed + k] = E[k]
  BY StreamFacts, BytesFacts
<1>3. PICK bytes : /\ OnLine(bytes)
                   /\ bytes = whole \/ \E d : DiffersAt(whole, bytes, d)
  BY DEF Carried, CodecTypes
<1> HIDE DEF whole, packet, E, W
<1>4. \A k \in 1 .. Len(inbound) : inbound[k] = bytes[consumed + k]
  BY <1>3 DEF OnLine
<1>5. ASSUME \A k \in 1 .. W : k <= Len(inbound) => inbound[k] = E[k]
      PROVE  Decode(inbound) = Decoded(packet, W)
  <2>1. CASE Len(inbound) < W
    <3>1. Agree(inbound, E, Len(inbound))
      BY <1>1, <1>5, <2>1 DEF Agree
    <3>2. Decode(inbound).verdict = "Incomplete"
      BY <1>1, <2>1, <3>1, DecodeWaits DEF E, W
    <3> QED BY <3>2
  <2>2. CASE Len(inbound) >= W
    <3>1. Agree(inbound, E, W)
      BY <1>1, <1>5, <2>2 DEF Agree
    <3> QED BY <1>1, <2>2, <3>1, DecodeInverts DEF E, W
  <2> QED BY <1>1, <2>1, <2>2
<1>6. CASE bytes = whole
  <2>1. ASSUME NEW k \in 1 .. W, k <= Len(inbound)
        PROVE  inbound[k] = E[k]
    <3>1. k \in 1 .. Len(inbound)
      BY <1>1, <2>1
    <3>2. inbound[k] = bytes[consumed + k]
      BY <1>4, <3>1
    <3>3. whole[consumed + k] = E[k]
      BY <1>2
    <3> QED BY <1>6, <3>2, <3>3
  <2> QED BY <1>5, <2>1 DEF packet, W
<1>7. CASE \E d : DiffersAt(whole, bytes, d)
  <2>1. PICK d : DiffersAt(whole, bytes, d)
    BY <1>7
  <2>2. /\ d \in 1 .. Len(whole)
        /\ \A k \in 1 .. Len(whole) : k # d => bytes[k] = whole[k]
        /\ bytes[d] # whole[d] /\ ~Blind(bytes[d], whole[d])
    BY <2>1 DEF DiffersAt
  <2>3. \A k \in 1 .. W : k <= Len(inbound) /\ k # d - consumed => inbound[k] = E[k]
    <3> SUFFICES ASSUME NEW k \in 1 .. W, k <= Len(inbound), k # d - consumed
                 PROVE  inbound[k] = E[k]
      OBVIOUS
    <3>1. consumed + k \in 1 .. Len(whole) /\ consumed + k # d /\ k \in 1 .. Len(inbound)
      BY <1>1, <2>2
    <3> QED BY <1>2, <1>4, <2>2, <3>1
  <2>4. CASE d - consumed \in 1 .. W /\ d - consumed <= Len(inbound)
    <3>1. /\ consumed + (d - consumed) = d
          /\ d - consumed \in 1 .. Len(inbound)
      BY <1>1, <2>2, <2>4
    <3>2. inbound[d - consumed] = bytes[d] /\ whole[d] = E[d - consumed]
      <4>1. inbound[d - consumed] = bytes[consumed + (d - consumed)]
        BY <1>4, <3>1
      <4>2. whole[consumed + (d - consumed)] = E[d - consumed]
        BY <1>2, <2>4
      <4> QED BY <3>1, <4>1, <4>2
    <3>3. DamagedAt(inbound, E, d - consumed)
      BY <1>1, <2>2, <2>3, <2>4, <3>2 DEF DamagedAt
    <3>4. Decode(inbound).verdict # "Ok"
      BY <1>1, <3>3, DamageIsSeen DEF E
    <3> QED BY <3>4
  <2>5. CASE ~(d - consumed \in 1 .. W /\ d - consumed <= Len(inbound))
    <3>1. \A k \in 1 .. W : k <= Len(inbound) => inbound[k] = E[k]
      BY <2>3, <2>5
    <3> QED BY <1>5, <3>1 DEF packet, W
  <2> QED BY <2>4, <2>5
<1> QED BY <1>3, <1>6, <1>7

(* What decode says of an undamaged stream.                                *)
LEMMA NextPacket ==
    ASSUME CodecInv, ~damaged, Len(delivered) < Len(stream)
    PROVE  LET packet == stream[Len(delivered) + 1]
           IN  /\ Len(delivered) + 1 \in 1 .. Len(stream)
               /\ Well(packet)
               /\ Len(inbound) >= WireLen(packet) =>
                     Decode(inbound) = Decoded(packet, WireLen(packet))
               /\ Len(inbound) < WireLen(packet) =>
                     /\ Decode(inbound).verdict = "Incomplete"
                     /\ Len(inbound) < Decode(inbound).need
                     /\ Decode(inbound).need <= WireLen(packet)
                     /\ Len(inbound) >= HeaderLen =>
                           Decode(inbound).need = WireLen(packet)
<1> DEFINE k == Len(delivered) + 1
           packet == stream[k]
           E == Encode(packet)
           W == WireLen(packet)
<1>1. k \in 1 .. Len(stream)
  BY StreamFacts DEF CodecInv, CodecTypes
<1>2. /\ Well(packet) /\ W \in Nat /\ Len(Bytes(stream)) \in Nat
      /\ inbound \in Seq(Byte) /\ Len(inbound) \in Nat
      /\ consumed = Start(stream, k) /\ consumed \in Nat
  BY <1>1, StreamFacts DEF CodecInv, CodecTypes, Progress
<1>3. \A j \in 1 .. W : Bytes(stream)[consumed + j] = E[j]
  BY <1>1, <1>2, StreamFacts, BytesFacts DEF CodecInv
<1>4. \A j \in 1 .. Len(inbound) : inbound[j] = Bytes(stream)[consumed + j]
  BY DEF CodecInv, Carried, OnLine
<1> HIDE DEF k, packet, E, W
<1>5. ASSUME Len(inbound) >= W
      PROVE  Decode(inbound) = Decoded(packet, W)
  <2>1. Agree(inbound, E, W)
    BY <1>2, <1>3, <1>4, <1>5 DEF Agree
  <2> QED BY <1>2, <1>5, <2>1, DecodeInverts DEF E, W
<1>6. ASSUME Len(inbound) < W
      PROVE  /\ Decode(inbound).verdict = "Incomplete"
             /\ Len(inbound) < Decode(inbound).need
             /\ Decode(inbound).need <= W
             /\ Len(inbound) >= HeaderLen => Decode(inbound).need = W
  <2>1. Agree(inbound, E, Len(inbound))
    BY <1>2, <1>3, <1>4, <1>6 DEF Agree
  <2> QED BY <1>2, <1>6, <2>1, DecodeWaits DEF E, W
<1> QED BY <1>1, <1>2, <1>5, <1>6 DEF k, packet, W

LEMMA AllDelivered ==
    ASSUME CodecInv, ~damaged, ~(Len(delivered) < Len(stream))
    PROVE  Len(delivered) = Len(stream) /\ Decode(inbound).verdict = "Incomplete"
<1>1. /\ Len(delivered) \in Nat /\ Len(stream) \in Nat
      /\ Len(delivered) <= Len(stream)
      /\ consumed = Start(stream, Len(delivered) + 1)
      /\ inbound \in Seq(Byte) /\ wire \in Seq(Byte)
  BY StreamFacts DEF CodecInv, CodecTypes, Progress
<1>2. Len(delivered) = Len(stream)
  BY <1>1
<1>3. Len(Bytes(stream)) = consumed /\ consumed \in Nat
  BY <1>1, <1>2, StreamFacts DEF CodecInv, CodecTypes
<1>4. consumed + Len(inbound) + Len(wire) = Len(Bytes(stream))
  BY DEF CodecInv, Carried, OnLine
<1>5. Len(inbound) < 8
  BY <1>1, <1>3, <1>4
<1> QED BY <1>1, <1>2, <1>5, ShortIsIncomplete
-------------------------------------------------------------------------------
(* Its beginning, and its steps.                                           *)
LEMMA CodecBegins ==
    ASSUME CodecInit
    PROVE  CodecInv
<1>1. /\ stream \in Streams /\ wire = Bytes(stream) /\ inbound = <<>>
      /\ delivered = <<>> /\ consumed = 0 /\ draining = FALSE /\ damaged = FALSE
  BY DEF CodecInit
<1>2. WellStream(stream)
  BY <1>1, StreamsAreWell
<1>3. /\ Bytes(stream) \in Seq(Byte) /\ Start(stream, 1) = 0
      /\ Len(stream) \in Nat
  BY <1>2, BytesFacts, StartFacts DEF WellStream
<1>4. /\ inbound \in Seq(Byte) /\ Len(inbound) = 0
      /\ delivered \in Seq([at : Nat, packet : AnyPacket]) /\ Len(delivered) = 0
      /\ \A i \in 1 .. Len(delivered) : FALSE
      /\ \A i \in 1 .. Len(inbound) : FALSE
  BY <1>1
<1>5. CodecTypes
  BY <1>1, <1>3, <1>4 DEF CodecTypes
<1>6. OnLine(Bytes(stream))
  BY <1>1, <1>3, <1>4 DEF OnLine
<1>7. Carried
  BY <1>1, <1>6 DEF Carried
<1>8. Progress
  <2>1. Len(delivered) < Len(stream) =>
           Len(inbound) < WireLen(stream[Len(delivered) + 1])
    <3> SUFFICES ASSUME Len(delivered) < Len(stream)
                 PROVE  Len(inbound) < WireLen(stream[Len(delivered) + 1])
      OBVIOUS
    <3>1. Len(delivered) + 1 \in 1 .. Len(stream)
      BY <1>3, <1>4
    <3> QED BY <1>4, <1>5, <3>1, StreamFacts
  <2> QED BY <1>1, <1>3, <1>4, <2>1 DEF Progress
<1>9. DamageNoticed
  BY <1>4 DEF DamageNoticed
<1> QED BY <1>5, <1>7, <1>8, <1>9 DEF CodecInv

(* Bytes that arrive, and bytes that are consumed, stay in their places.   *)
LEMMA ArriveOnLine ==
    ASSUME CodecTypes, NEW bytes, OnLine(bytes), Arrive
    PROVE  OnLine(bytes)' /\ inbound' \in Seq(Byte) /\ wire' \in Seq(Byte)
<1>1. PICK n \in 1 .. Len(wire) : /\ inbound' = inbound \o SubSeq(wire, 1, n)
                                  /\ wire' = SubSeq(wire, n + 1, Len(wire))
  BY DEF Arrive
<1>2. /\ wire \in Seq(Byte) /\ inbound \in Seq(Byte)
      /\ Len(wire) \in Nat /\ Len(inbound) \in Nat /\ consumed \in Nat
      /\ stream' = stream /\ consumed' = consumed
  BY DEF CodecTypes, Arrive
<1> DEFINE head == SubSeq(wire, 1, n)
           tail == SubSeq(wire, n + 1, Len(wire))
<1>3. /\ head \in Seq(Byte) /\ Len(head) = n
      /\ \A i \in 1 .. n : head[i] = wire[i]
  BY <1>2
<1>4. /\ tail \in Seq(Byte) /\ Len(tail) = Len(wire) - n
      /\ \A i \in 1 .. Len(wire) - n : tail[i] = wire[n + i]
  BY <1>2
<1> HIDE DEF head, tail
<1>5. inbound' = inbound \o head /\ wire' = tail
  BY <1>1 DEF head, tail
<1>6. /\ inbound' \in Seq(Byte) /\ Len(inbound') = Len(inbound) + n
      /\ \A i \in 1 .. Len(inbound) : inbound'[i] = inbound[i]
      /\ \A i \in 1 .. n : inbound'[Len(inbound) + i] = head[i]
  <2>1. /\ inbound \o head \in Seq(Byte)
        /\ Len(inbound \o head) = Len(inbound) + Len(head)
        /\ \A i \in 1 .. Len(inbound) : (inbound \o head)[i] = inbound[i]
        /\ \A i \in 1 .. Len(head) : (inbound \o head)[Len(inbound) + i] = head[i]
    <3>1. inbound \in Seq(Byte) /\ head \in Seq(Byte)
      BY <1>2, <1>3
    <3> QED BY <3>1, Joined
  <2> QED BY <1>3, <1>5, <2>1
<1>7. /\ bytes \in Seq(Byte) /\ Len(bytes) = Len(Bytes(stream))
      /\ consumed + Len(inbound) + Len(wire) = Len(bytes)
      /\ \A i \in 1 .. Len(inbound) : inbound[i] = bytes[consumed + i]
      /\ \A i \in 1 .. Len(wire) : wire[i] = bytes[consumed + Len(inbound) + i]
  BY DEF OnLine
<1>8. ASSUME NEW i \in 1 .. Len(inbound')
      PROVE  inbound'[i] = bytes[consumed + i]
  <2>1. CASE i \in 1 .. Len(inbound)
    BY <1>6, <1>7, <2>1
  <2>2. CASE i \notin 1 .. Len(inbound)
    <3>1. /\ i - Len(inbound) \in 1 .. n /\ i - Len(inbound) \in 1 .. Len(wire)
          /\ Len(inbound) + (i - Len(inbound)) = i
          /\ consumed + Len(inbound) + (i - Len(inbound)) = consumed + i
      BY <1>2, <1>6, <2>2
    <3>2. inbound'[Len(inbound) + (i - Len(inbound))] = wire[i - Len(inbound)]
      BY <1>3, <1>6, <3>1
    <3>3. wire[i - Len(inbound)] = bytes[consumed + Len(inbound) + (i - Len(inbound))]
      BY <1>7, <3>1
    <3> QED BY <3>1, <3>2, <3>3
  <2> QED BY <2>1, <2>2
<1>9. ASSUME NEW i \in 1 .. Len(wire')
      PROVE  wire'[i] = bytes[consumed + Len(inbound') + i]
  <2>1. /\ i \in 1 .. Len(wire) - n /\ n + i \in 1 .. Len(wire)
        /\ consumed + Len(inbound) + (n + i) = consumed + Len(inbound') + i
    BY <1>2, <1>4, <1>5, <1>6
  <2>2. wire'[i] = wire[n + i]
    BY <1>4, <1>5, <2>1
  <2>3. wire[n + i] = bytes[consumed + Len(inbound) + (n + i)]
    BY <1>7, <2>1
  <2> QED BY <2>1, <2>2, <2>3
<1>10. consumed + Len(inbound') + Len(wire') = Len(bytes)
  BY <1>2, <1>4, <1>5, <1>6, <1>7
<1> QED BY <1>2, <1>4, <1>5, <1>6, <1>7, <1>8, <1>9, <1>10 DEF OnLine

LEMMA ConsumeOnLine ==
    ASSUME CodecTypes, NEW n \in 0 .. Len(inbound), Consume(n),
           wire' = wire, stream' = stream
    PROVE  /\ inbound' \in Seq(Byte) /\ Len(inbound') = Len(inbound) - n
           /\ consumed' = consumed + n /\ consumed' \in Nat
           /\ \A bytes : OnLine(bytes) => OnLine(bytes)'
<1>1. /\ wire \in Seq(Byte) /\ inbound \in Seq(Byte)
      /\ Len(wire) \in Nat /\ Len(inbound) \in Nat /\ consumed \in Nat
  BY DEF CodecTypes
<1>2. /\ inbound' = SubSeq(inbound, n + 1, Len(inbound))
      /\ consumed' = consumed + n
  BY DEF Consume
<1>3. /\ inbound' \in Seq(Byte) /\ Len(inbound') = Len(inbound) - n
      /\ \A i \in 1 .. Len(inbound) - n : inbound'[i] = inbound[n + i]
  BY <1>1, <1>2
<1>4. ASSUME NEW bytes, OnLine(bytes)
      PROVE  OnLine(bytes)'
  <2>1. /\ bytes \in Seq(Byte) /\ Len(bytes) = Len(Bytes(stream))
        /\ consumed + Len(inbound) + Len(wire) = Len(bytes)
        /\ \A i \in 1 .. Len(inbound) : inbound[i] = bytes[consumed + i]
        /\ \A i \in 1 .. Len(wire) : wire[i] = bytes[consumed + Len(inbound) + i]
    BY <1>4 DEF OnLine
  <2>2. ASSUME NEW i \in 1 .. Len(inbound')
        PROVE  inbound'[i] = bytes[consumed' + i]
    <3>1. n + i \in 1 .. Len(inbound) /\ consumed' + i = consumed + (n + i)
      BY <1>1, <1>2, <1>3
    <3>2. inbound[n + i] = bytes[consumed + (n + i)]
      BY <2>1, <3>1
    <3> QED BY <1>3, <3>1, <3>2
  <2>3. consumed' + Len(inbound') = consumed + Len(inbound)
    BY <1>1, <1>2, <1>3
  <2> QED BY <1>1, <2>1, <2>2, <2>3 DEF OnLine
<1> QED BY <1>1, <1>2, <1>3, <1>4

(* What leaves the history of deliveries alone leaves it right.            *)
LEMMA CarriedStays ==
    ASSUME Carried, stream' = stream, damaged' = damaged,
           \A bytes : OnLine(bytes) => OnLine(bytes)'
    PROVE  Carried'
BY DEF Carried

LEMMA NoticedStays ==
    ASSUME DamageNoticed, UNCHANGED <<stream, delivered>>
    PROVE  DamageNoticed'
BY DEF DamageNoticed

LEMMA ArriveKeeps ==
    ASSUME CodecInv, Arrive
    PROVE  CodecInv'
<1>1. CodecTypes /\ Carried /\ Progress /\ DamageNoticed
  BY DEF CodecInv
<1>2. /\ UNCHANGED <<stream, delivered, consumed, damaged>> /\ draining' = TRUE
      /\ \E n \in 1 .. Len(wire) : wire' = SubSeq(wire, n + 1, Len(wire))
  BY DEF Arrive
<1>3. \E bytes : OnLine(bytes)
  BY <1>1 DEF Carried, CodecTypes
<1>4. inbound' \in Seq(Byte) /\ wire' \in Seq(Byte)
  BY <1>1, <1>3, ArriveOnLine
<1>5. CodecTypes'
  BY <1>1, <1>2, <1>4 DEF CodecTypes
<1>6. \A bytes : OnLine(bytes) => OnLine(bytes)'
  BY <1>1, ArriveOnLine
<1>7. Carried'
  BY <1>1, <1>2, <1>6, CarriedStays
<1>8. Progress'
  BY <1>1, <1>2 DEF Progress
<1>9. DamageNoticed'
  BY <1>1, <1>2, NoticedStays
<1> QED BY <1>5, <1>7, <1>8, <1>9 DEF CodecInv

LEMMA DeliverKeeps ==
    ASSUME CodecInv, Deliver
    PROVE  CodecInv'
<1> DEFINE verdict == Decode(inbound)
           record == [at |-> consumed, packet |-> verdict.packet]
           m == Len(delivered)
<1>1. CodecTypes /\ Carried /\ Progress /\ DamageNoticed
  BY DEF CodecInv
<1>2. /\ draining /\ verdict.verdict = "Ok"
      /\ delivered' = Append(delivered, record)
      /\ Consume(verdict.consumed)
      /\ UNCHANGED <<stream, wire, draining, damaged>>
  BY DEF Deliver
<1>3. Well(verdict.packet) /\ verdict.consumed \in 8 .. Len(inbound)
  BY <1>1, <1>2, DecodeRange DEF CodecTypes
<1>4. \A i \in 1 .. Len(stream) :
         consumed = Start(stream, i) =>
            verdict = Decoded(stream[i], WireLen(stream[i]))
  BY <1>1, <1>2, DecodedAtStart
<1>5. ~damaged => m < Len(stream)
  <2>1. verdict.verdict # "Incomplete"
    BY <1>2
  <2> QED BY <2>1, AllDelivered
<1> HIDE DEF verdict
<1>6. /\ consumed \in Nat /\ Len(inbound) \in Nat /\ m \in Nat
      /\ delivered \in Seq([at : Nat, packet : AnyPacket])
      /\ verdict.consumed \in 0 .. Len(inbound)
      /\ record \in [at : Nat, packet : AnyPacket]
  BY <1>1, <1>3 DEF CodecTypes, Well
<1> HIDE DEF record
<1>7. /\ inbound' \in Seq(Byte)
      /\ consumed' = consumed + verdict.consumed /\ consumed' \in Nat
      /\ \A bytes : OnLine(bytes) => OnLine(bytes)'
  BY <1>1, <1>2, <1>6, ConsumeOnLine
<1>8. /\ delivered' \in Seq([at : Nat, packet : AnyPacket])
      /\ Len(delivered') = m + 1 /\ delivered'[m + 1] = record
      /\ \A i \in 1 .. m : delivered'[i] = delivered[i]
  BY <1>2, <1>6
<1>9. \A i \in 1 .. m + 1 : i \in 1 .. m \/ i = m + 1
  BY <1>6
<1>10. record.at = consumed /\ record.packet = verdict.packet
  BY DEF record
<1>11. CodecTypes'
  <2>1. ASSUME NEW i \in 1 .. Len(delivered')
        PROVE  Well(delivered'[i].packet) /\ delivered'[i].at \in 0 .. consumed'
    <3>1. CASE i \in 1 .. m
      <4>1. Well(delivered[i].packet) /\ delivered[i].at \in 0 .. consumed
        BY <1>1, <3>1 DEF CodecTypes
      <4>2. 0 .. consumed \subseteq 0 .. consumed'
        BY <1>6, <1>7
      <4>3. delivered'[i] = delivered[i]
        BY <1>8, <3>1
      <4> QED BY <4>1, <4>2, <4>3
    <3>2. CASE i = m + 1
      BY <1>3, <1>6, <1>7, <1>8, <1>10, <3>2
    <3> QED BY <1>8, <1>9, <3>1, <3>2
  <2> QED BY <1>1, <1>2, <1>7, <1>8, <2>1 DEF CodecTypes
<1>12. Carried'
  BY <1>1, <1>2, <1>7, CarriedStays
<1>13. Progress'
  <2> SUFFICES ASSUME ~damaged
               PROVE  Progress'
    BY <1>2 DEF Progress
  <2>1. /\ m + 1 \in 1 .. Len(stream) /\ Len(stream) \in Nat
        /\ consumed = Start(stream, m + 1)
        /\ \A i \in 1 .. m : delivered[i] = [at |-> Start(stream, i), packet |-> stream[i]]
    BY <1>1, <1>5, <1>6, StreamFacts DEF Progress
  <2>2. verdict = Decoded(stream[m + 1], WireLen(stream[m + 1]))
    BY <1>4, <2>1
  <2>3. verdict.packet = stream[m + 1] /\ verdict.consumed = WireLen(stream[m + 1])
    BY <2>2 DEF Decoded
  <2>4. record = [at |-> Start(stream, m + 1), packet |-> stream[m + 1]]
    BY <2>1, <2>3 DEF record
  <2>5. consumed' = Start(stream, (m + 1) + 1)
    BY <1>1, <1>7, <2>1, <2>3, StreamFacts
  <2>6. \A i \in 1 .. Len(delivered') :
           delivered'[i] = [at |-> Start(stream, i), packet |-> stream[i]]
    BY <1>8, <1>9, <2>1, <2>4
  <2> QED BY <1>2, <1>8, <2>1, <2>5, <2>6 DEF Progress
<1>14. DamageNoticed'
  <2> SUFFICES ASSUME NEW i \in 1 .. Len(stream), NEW j \in 1 .. m + 1,
                      delivered'[j].at = Start(stream, i)
               PROVE  delivered'[j].packet = stream[i]
    BY <1>2, <1>8 DEF DamageNoticed
  <2>1. CASE j \in 1 .. m
    BY <1>1, <1>8, <2>1 DEF DamageNoticed
  <2>2. CASE j = m + 1
    <3>1. consumed = Start(stream, i) /\ delivered'[j].packet = verdict.packet
      BY <1>8, <1>10, <2>2
    <3>2. verdict = Decoded(stream[i], WireLen(stream[i]))
      BY <1>4, <3>1
    <3> QED BY <3>1, <3>2 DEF Decoded
  <2> QED BY <1>9, <2>1, <2>2
<1> QED BY <1>11, <1>12, <1>13, <1>14 DEF CodecInv

LEMMA AwaitKeeps ==
    ASSUME CodecInv, Await
    PROVE  CodecInv'
<1>1. CodecTypes /\ Carried /\ Progress /\ DamageNoticed
  BY DEF CodecInv
<1>2. /\ Decode(inbound).verdict = "Incomplete" /\ draining' = FALSE
      /\ UNCHANGED <<stream, wire, inbound, delivered, consumed, damaged>>
  BY DEF Await
<1>3. CodecTypes'
  BY <1>1, <1>2 DEF CodecTypes
<1>4. \A bytes : OnLine(bytes) => OnLine(bytes)'
  BY <1>2 DEF OnLine
<1>5. Carried'
  BY <1>1, <1>2, <1>4, CarriedStays
<1>6. ASSUME ~damaged, Len(delivered) < Len(stream)
      PROVE  Len(inbound) < WireLen(stream[Len(delivered) + 1])
  <2> DEFINE packet == stream[Len(delivered) + 1]
  <2>1. /\ Len(delivered) + 1 \in 1 .. Len(stream)
        /\ Len(inbound) >= WireLen(packet) =>
              Decode(inbound) = Decoded(packet, WireLen(packet))
    BY <1>6, NextPacket
  <2>2. Decoded(packet, WireLen(packet)).verdict # "Incomplete"
    BY DEF Decoded
  <2>3. WireLen(packet) \in Nat /\ Len(inbound) \in Nat
    BY <1>1, <2>1, StreamFacts DEF CodecTypes
  <2> HIDE DEF packet
  <2>4. ~(Len(inbound) >= WireLen(packet))
    BY <1>2, <2>1, <2>2
  <2> QED BY <2>3, <2>4 DEF packet
<1>7. Progress'
  BY <1>1, <1>2, <1>6 DEF Progress
<1>8. DamageNoticed'
  BY <1>1, <1>2, NoticedStays
<1> QED BY <1>3, <1>5, <1>7, <1>8 DEF CodecInv

(* A byte is dropped only of a stream that was damaged.                    *)
LEMMA SkipKeeps ==
    ASSUME CodecInv, Skip
    PROVE  damaged /\ CodecInv'
<1>1. CodecTypes /\ Carried /\ Progress /\ DamageNoticed
  BY DEF CodecInv
<1>2. /\ Decode(inbound).verdict # "Ok" /\ Decode(inbound).verdict # "Incomplete"
      /\ Consume(1)
      /\ UNCHANGED <<stream, wire, delivered, draining, damaged>>
  BY DEF Skip
<1>3. inbound \in Seq(Byte) /\ Len(inbound) \in Nat /\ consumed \in Nat
  BY <1>1 DEF CodecTypes
<1>4. 1 \in 0 .. Len(inbound)
  BY <1>2, <1>3, ShortIsIncomplete
<1>5. damaged
  <2> SUFFICES ASSUME ~damaged
               PROVE  FALSE
    BY <1>1 DEF CodecTypes
  <2>1. Len(delivered) < Len(stream)
    BY <1>2, AllDelivered
  <2> DEFINE packet == stream[Len(delivered) + 1]
  <2>2. /\ Len(delivered) + 1 \in 1 .. Len(stream)
        /\ Len(inbound) >= WireLen(packet) =>
              Decode(inbound) = Decoded(packet, WireLen(packet))
        /\ Len(inbound) < WireLen(packet) => Decode(inbound).verdict = "Incomplete"
    BY <2>1, NextPacket
  <2>3. Decoded(packet, WireLen(packet)).verdict = "Ok"
    BY DEF Decoded
  <2>4. WireLen(packet) \in Nat
    BY <1>1, <2>2, StreamFacts
  <2> HIDE DEF packet
  <2> QED BY <1>2, <1>3, <2>2, <2>3, <2>4
<1>6. /\ inbound' \in Seq(Byte)
      /\ consumed' = consumed + 1 /\ consumed' \in Nat
      /\ \A bytes : OnLine(bytes) => OnLine(bytes)'
  BY <1>1, <1>2, <1>4, ConsumeOnLine
<1>7. CodecTypes'
  BY <1>1, <1>2, <1>3, <1>6 DEF CodecTypes
<1>8. Carried'
  BY <1>1, <1>2, <1>6, CarriedStays
<1>9. Progress'
  BY <1>2, <1>5 DEF Progress
<1>10. DamageNoticed'
  BY <1>1, <1>2, NoticedStays
<1> QED BY <1>5, <1>7, <1>8, <1>9, <1>10 DEF CodecInv

LEMMA DamageKeeps ==
    ASSUME CodecInv, Damage
    PROVE  CodecInv'
<1>1. CodecTypes /\ Carried /\ Progress /\ DamageNoticed
  BY DEF CodecInv
<1>2. /\ ~damaged /\ damaged' = TRUE
      /\ UNCHANGED <<stream, inbound, delivered, consumed, draining>>
  BY DEF Damage
<1>3. PICK i \in 1 .. Len(wire), b \in Byte :
         /\ b # wire[i] /\ ~Blind(b, wire[i]) /\ wire' = [wire EXCEPT ![i] = b]
  BY DEF Damage
<1>4. PICK whole, d, bytes : /\ whole = Bytes(stream)
                              /\ d = consumed + Len(inbound) + i
                              /\ bytes = [whole EXCEPT ![d] = b]
  OBVIOUS
<1>5. /\ whole \in Seq(Byte) /\ Len(whole) \in Nat
      /\ wire \in Seq(Byte) /\ inbound \in Seq(Byte)
      /\ Len(wire) \in Nat /\ Len(inbound) \in Nat /\ consumed \in Nat
  BY <1>1, <1>4, StreamFacts DEF CodecTypes
<1>6. /\ consumed + Len(inbound) + Len(wire) = Len(whole)
      /\ \A k \in 1 .. Len(inbound) : inbound[k] = whole[consumed + k]
      /\ \A k \in 1 .. Len(wire) : wire[k] = whole[consumed + Len(inbound) + k]
  BY <1>1, <1>2, <1>4 DEF Carried, OnLine
<1>7. d \in 1 .. Len(whole)
  BY <1>5, <1>6, <1>4
<1>8. /\ wire' \in Seq(Byte) /\ Len(wire') = Len(wire) /\ wire'[i] = b
      /\ \A k \in 1 .. Len(wire) : k # i => wire'[k] = wire[k]
  BY <1>3, <1>5
<1>9. /\ bytes \in Seq(Byte) /\ Len(bytes) = Len(whole) /\ bytes[d] = b
      /\ \A k \in 1 .. Len(whole) : k # d => bytes[k] = whole[k]
  BY <1>5, <1>7, <1>4
<1>10. wire[i] = whole[d]
  BY <1>6, <1>4
<1>11. DiffersAt(whole, bytes, d)
  BY <1>3, <1>7, <1>9, <1>10 DEF DiffersAt
<1>12. OnLine(bytes)'
  <2>1. ASSUME NEW k \in 1 .. Len(inbound)
        PROVE  inbound[k] = bytes[consumed + k]
    <3>1. consumed + k \in 1 .. Len(whole) /\ consumed + k # d
      BY <1>5, <1>6, <1>4
    <3> QED BY <1>6, <1>9, <3>1
  <2>2. ASSUME NEW k \in 1 .. Len(wire)
        PROVE  wire'[k] = bytes[consumed + Len(inbound) + k]
    <3>1. CASE k = i
      BY <1>8, <1>9, <1>4, <3>1
    <3>2. CASE k # i
      <4>1. /\ consumed + Len(inbound) + k \in 1 .. Len(whole)
            /\ consumed + Len(inbound) + k # d
        BY <1>5, <1>6, <1>4, <3>2
      <4>2. /\ bytes[consumed + Len(inbound) + k] = whole[consumed + Len(inbound) + k]
            /\ wire[k] = whole[consumed + Len(inbound) + k]
        BY <1>6, <1>9, <4>1
      <4> QED BY <1>8, <3>2, <4>2
    <3> QED BY <3>1, <3>2
  <2> QED BY <1>2, <1>6, <1>8, <1>9, <1>4, <2>1, <2>2 DEF OnLine
<1>13. CodecTypes'
  BY <1>1, <1>2, <1>8 DEF CodecTypes
<1>14. Carried'
  <2>1. DiffersAt(Bytes(stream'), bytes, d)
    BY <1>2, <1>11, <1>4
  <2> QED BY <1>2, <1>12, <2>1 DEF Carried
<1>15. Progress'
  BY <1>2 DEF Progress
<1>16. DamageNoticed'
  BY <1>1, <1>2, NoticedStays
<1> QED BY <1>13, <1>14, <1>15, <1>16 DEF CodecInv

LEMMA CodecStutters ==
    ASSUME CodecInv, UNCHANGED codecVars
    PROVE  CodecInv'
BY DEF CodecInv, CodecTypes, Carried, Progress, DamageNoticed, OnLine, codecVars

LEMMA CodecInvariant == CodecSpec => []CodecInv
<1>1. CodecInv /\ [CodecNext]_codecVars => CodecInv'
  BY ArriveKeeps, DeliverKeeps, AwaitKeeps, SkipKeeps, DamageKeeps, CodecStutters
     DEF CodecNext
<1> QED BY <1>1, CodecBegins, PTL DEF CodecSpec
-------------------------------------------------------------------------------
(* What follows.                                                           *)

(* Nothing the receiver of a stream does, damaged or not, takes the bytes  *)
(* of the line, of the buffer or of a decoded packet out of their types: a *)
(* packet that decode returns is one that encode would have accepted       *)
(* (decode and Packet::new of src/codec.rs).                               *)
THEOREM CodecTyped == CodecSpec => []CodecTypeOK
<1>1. CodecInv => CodecTypeOK
  BY DEF CodecInv, CodecTypes, CodecTypeOK, Well
<1> QED BY <1>1, CodecInvariant, PTL

(* However the bytes are cut into reads, an undamaged stream is decoded    *)
(* into its packets, each where it began and none of them left out, and    *)
(* once all has arrived it is all of them: decode inverts encode on        *)
(* streams, whatever the payloads hold.                                    *)
THEOREM FragmentsDecode == CodecSpec => []StreamSurvivesFragmentation
<1>1. ASSUME CodecInv
      PROVE  StreamSurvivesFragmentation
  <2> SUFFICES ASSUME ~damaged
               PROVE  StreamSurvivesFragmentation
    BY DEF StreamSurvivesFragmentation
  <2> DEFINE m == Len(delivered)
  <2>1. /\ m \in Nat /\ Len(stream) \in Nat /\ m <= Len(stream)
        /\ \A i \in 1 .. m :
              delivered[i] = [at |-> Start(stream, i), packet |-> stream[i]]
        /\ consumed = Start(stream, m + 1) /\ consumed \in Nat
        /\ ~draining /\ m < Len(stream) => Len(inbound) < WireLen(stream[m + 1])
        /\ Len(inbound) \in Nat
    BY <1>1, StreamFacts DEF CodecInv, CodecTypes, Progress
  <2>2. consumed + Len(inbound) + Len(wire) = Len(Bytes(stream))
    BY <1>1 DEF CodecInv, Carried, OnLine
  <2>3. ASSUME wire = <<>>, ~draining, m < Len(stream)
        PROVE  FALSE
    <3>1. m + 1 \in 1 .. Len(stream)
      BY <2>1, <2>3
    <3>2. /\ WireLen(stream[m + 1]) \in Nat
          /\ consumed + WireLen(stream[m + 1]) <= Len(Bytes(stream))
      BY <1>1, <2>1, <3>1, StreamFacts DEF CodecInv
    <3>3. Len(wire) = 0
      BY <2>3
    <3>4. Len(inbound) < WireLen(stream[m + 1])
      BY <2>1, <2>3
    <3> QED BY <2>1, <2>2, <3>2, <3>3, <3>4
  <2> HIDE DEF m
  <2>4. wire = <<>> /\ ~draining => m = Len(stream)
    BY <2>1, <2>3
  <2> QED BY <2>1, <2>4 DEF StreamSurvivesFragmentation, m
<1> QED BY <1>1, CodecInvariant, PTL

(* While decode waits for more of an undamaged stream, the number it asks  *)
(* for is more than there is, never more than the packet has, and exactly  *)
(* that once it has seen the length ("callers can read more bytes and      *)
(* retry", DecodeError::Incomplete).                                       *)
THEOREM DecodeAsksRight == CodecSpec => []WaitsForItsPacket
<1>1. ASSUME CodecInv
      PROVE  WaitsForItsPacket
  <2> SUFFICES ASSUME ~damaged, ~draining, Len(delivered) < Len(stream)
               PROVE  WaitsForItsPacket
    BY DEF WaitsForItsPacket
  <2> DEFINE packet == stream[Len(delivered) + 1]
  <2>1. Len(inbound) < WireLen(packet)
    BY <1>1 DEF CodecInv, Progress
  <2>2. /\ Len(inbound) < Decode(inbound).need
        /\ Decode(inbound).need <= WireLen(packet)
        /\ Len(inbound) >= HeaderLen => Decode(inbound).need = WireLen(packet)
    BY <1>1, <2>1, NextPacket
  <2> QED BY <2>2 DEF WaitsForItsPacket
<1> QED BY <1>1, CodecInvariant, PTL

(* One byte changed on the line, by anything Fletcher-16 tells apart, is   *)
(* never decoded as another packet than the one the sender began there.    *)
THEOREM OneByteNeverPasses == CodecSpec => []DamageNoticed
<1>1. CodecInv => DamageNoticed
  BY DEF CodecInv
<1> QED BY <1>1, CodecInvariant, PTL
(* decode inverts encode: of every packet encode accepts, and whatever     *)
(* follows it in the buffer, decode returns that packet and its length     *)
(* (decode and encode of src/codec.rs).                                    *)
THEOREM DecodeInvertsEncode ==
    ASSUME NEW packet \in AnyPacket, Encodable(packet), NEW rest \in Seq(Byte)
    PROVE  Decode(Encode(packet) \o rest) = Decoded(packet, WireLen(packet))
<1> DEFINE E == Encode(packet)
           buf == E \o rest
<1>1. Well(packet)
  BY DEF Well
<1>2. E \in Seq(Byte) /\ Len(E) = WireLen(packet) /\ WireLen(packet) \in Nat
  BY <1>1, Layout, WireLenIs
<1> HIDE DEF E
<1>3. /\ buf \in Seq(Byte) /\ Len(buf) = Len(E) + Len(rest)
      /\ \A k \in 1 .. Len(E) : buf[k] = E[k]
      /\ Len(E) \in Nat /\ Len(rest) \in Nat
  BY <1>2, Joined
<1> HIDE DEF buf
<1>4. Agree(buf, E, WireLen(packet)) /\ Len(buf) >= WireLen(packet)
  BY <1>2, <1>3 DEF Agree
<1>5. Decode(buf) = Decoded(packet, WireLen(packet))
  BY <1>1, <1>3, <1>4, DecodeInverts DEF E
<1> QED BY <1>5 DEF buf, E

(* Fletcher-16 tells any two runs of bytes apart that differ in one byte,  *)
(* by anything but 0 against Base - 1 (fletcher16 of src/codec.rs).        *)
THEOREM ChecksumSeesOneByte ==
    ASSUME NEW buf \in Seq(Byte), NEW d \in 1 .. Len(buf), NEW b \in Byte,
           b # buf[d], ~Blind(b, buf[d])
    PROVE  Fletcher([buf EXCEPT ![d] = b]) # Fletcher(buf)
<1> DEFINE other == [buf EXCEPT ![d] = b]
<1>1. other \in Seq(Byte) /\ Len(other) = Len(buf) /\ other[d] = b
      /\ \A i \in 1 .. Len(buf) : i # d => other[i] = buf[i]
  OBVIOUS
<1> HIDE DEF other
<1>2. DiffersAt(buf, other, d)
  BY <1>1 DEF DiffersAt
<1>3. Fletcher(other) # Fletcher(buf)
  BY <1>1, <1>2, FletcherDiffers
<1> QED BY <1>3 DEF other
===============================================================================
