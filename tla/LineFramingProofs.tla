--------------------------- MODULE LineFramingProofs ---------------------------
(***************************************************************************)
(* Theorems about LineFraming: between two calls of feed no complete line  *)
(* waits in inbound_buf, and process_line has been given the lines of the  *)
(* input, however the input was cut into reads.  The argument follows      *)
(* Taken, the number of bytes of the input that have left the buffer.      *)
(***************************************************************************)
EXTENDS LineFraming, FiniteSetTheorems, TLAPS

(* The bytes of the input that are no longer in inbound_buf.               *)
Taken == Len(fed) - Len(inbound_buf)

FramingTypes ==
    /\ inbound_buf \in Seq(Byte)
    /\ fed \in Seq(Byte)
    /\ lines \in Seq(Seq(Byte))
    /\ feeding \in BOOLEAN

(* The buffer is the rest of the input behind an LF, or all of it.         *)
BufferIsTheRest ==
    /\ Taken \in 0 .. Len(fed)
    /\ Taken # 0 => Taken \in Ends(fed)
    /\ \A i \in 1 .. Len(inbound_buf) : inbound_buf[i] = fed[Taken + i]

(* The lines are those of the input up to there.                           *)
LinesUpToTaken ==
    /\ Len(lines) = Cardinality(FilledUpTo(fed, Taken))
    /\ \A end \in FilledUpTo(fed, Taken) :
          lines[Cardinality(FilledUpTo(fed, end))] = TextBefore(fed, end)

QuietMeansNoLF == ~feeding => LineEnd(inbound_buf) = 0

FramingInv == FramingTypes /\ BufferIsTheRest /\ LinesUpToTaken /\ QuietMeansNoLF

-------------------------------------------------------------------------------
(* Smallest and largest elements: what Min and Max of the library choose.  *)
Below == { pair \in Nat \X Nat : pair[1] < pair[2] }

LEMMA SmallestExists ==
    ASSUME NEW S \in SUBSET Nat, S # {}
    PROVE  /\ Min(S) \in S
           /\ \A y \in S : Min(S) <= y
<1>1. IsWellFoundedOn(Below, Nat)
  BY NatLessThanWellFounded DEF Below, OpToRel
<1>2. \E x \in S : \A y \in S : ~ (<<y, x>> \in Below)
  BY <1>1, WFMin
<1>3. \A x, y \in Nat : ~ (<<y, x>> \in Below) => x <= y
  BY DEF Below
<1>4. \E x \in S : \A y \in S : x <= y
  BY <1>2, <1>3
<1> QED BY <1>4 DEF Min

LEMMA LargestExists ==
    ASSUME NEW n \in Nat, NEW S \in SUBSET (0 .. n), S # {}
    PROVE  /\ Max(S) \in S
           /\ \A y \in S : y <= Max(S)
<1> DEFINE Mirror == { i \in 0 .. n : n - i \in S }
<1>1. Mirror \in SUBSET Nat
  OBVIOUS
<1>2. Mirror # {}
  <2>1. PICK x \in S : TRUE
    OBVIOUS
  <2>2. n - x \in 0 .. n /\ n - (n - x) = x
    BY <2>1
  <2> QED BY <2>1, <2>2
<1>3. PICK least \in Mirror : \A y \in Mirror : least <= y
  <2> HIDE DEF Mirror
  <2> QED BY <1>1, <1>2, SmallestExists
<1>4. \A y \in S : n - y \in Mirror
  <2> TAKE y \in S
  <2>1. n - y \in 0 .. n /\ n - (n - y) = y
    OBVIOUS
  <2> QED BY <2>1
<1>5. n - least \in S /\ \A y \in S : y <= n - least
  BY <1>3, <1>4
<1>6. \E x \in S : \A y \in S : x >= y
  BY <1>5
<1> QED BY <1>6 DEF Max

LEMMA LastOfIs ==
    ASSUME NEW n \in Nat, NEW S \in SUBSET (1 .. n)
    PROVE  \/ S = {} /\ LastOf(S) = 0
           \/ LastOf(S) \in S /\ \A y \in S : y <= LastOf(S)
<1>1. S \in SUBSET (0 .. n)
  OBVIOUS
<1> QED BY <1>1, LargestExists DEF LastOf

-------------------------------------------------------------------------------
(* LineEnd finds the first LF, or says with 0 that there is none.          *)
LEMMA LineEndIs ==
    ASSUME NEW buf \in Seq(Byte)
    PROVE  \/ LineEnd(buf) = 0 /\ \A i \in 1 .. Len(buf) : buf[i] # LF
           \/ /\ LineEnd(buf) \in 1 .. Len(buf)
              /\ buf[LineEnd(buf)] = LF
              /\ \A i \in 1 .. LineEnd(buf) - 1 : buf[i] # LF
<1> DEFINE I == { i \in 1 .. Len(buf) : buf[i] = LF }
<1>1. LineEnd(buf) = IF I # {} THEN Min(I) ELSE 0
  BY DEF LineEnd, SelectInSeq
<1>2. I \in SUBSET Nat
  OBVIOUS
<1>3. I # {} => Min(I) \in I /\ \A y \in I : Min(I) <= y
  <2> HIDE DEF I
  <2> QED BY <1>2, SmallestExists
<1>4. CASE I = {}
  BY <1>1, <1>4
<1>5. CASE I # {}
  <2> DEFINE m == Min(I)
  <2>1. m \in 1 .. Len(buf) /\ buf[m] = LF
    BY <1>3, <1>5
  <2>2. \A i \in 1 .. m - 1 : buf[i] # LF
    <3> SUFFICES ASSUME NEW i \in 1 .. m - 1, buf[i] = LF
                 PROVE  FALSE
      OBVIOUS
    <3>1. i \in I
      BY <2>1
    <3> QED BY <1>3, <1>5, <2>1, <3>1
  <2>3. LineEnd(buf) = m
    BY <1>1, <1>5
  <2> HIDE DEF m
  <2> QED BY <2>1, <2>2, <2>3
<1> QED BY <1>4, <1>5

(* Strip cuts behind the last byte that is neither CR nor LF.              *)
LEMMA StripIs ==
    ASSUME NEW line \in Seq(Byte)
    PROVE  \E k \in 0 .. Len(line) :
              /\ Strip(line) = SubSeq(line, 1, k)
              /\ k # 0 => line[k] \notin {CR, LF}
              /\ \A i \in k + 1 .. Len(line) : line[i] \in {CR, LF}
<1> DEFINE I == { i \in 1 .. Len(line) : line[i] \notin {CR, LF} }
           k == IF I # {} THEN Max(I) ELSE 0
<1>1. Strip(line) = SubSeq(line, 1, k)
  BY DEF Strip, SelectLastInSeq
<1>2. I \in SUBSET (0 .. Len(line)) /\ Len(line) \in Nat
  OBVIOUS
<1>3. I # {} => Max(I) \in I /\ \A y \in I : y <= Max(I)
  <2> HIDE DEF I
  <2> QED BY <1>2, LargestExists
<1>4. k \in 0 .. Len(line) /\ (k # 0 => line[k] \notin {CR, LF})
  BY <1>2, <1>3
<1>5. \A i \in k + 1 .. Len(line) : line[i] \in {CR, LF}
  BY <1>2, <1>3
<1> HIDE DEF k
<1> QED BY <1>1, <1>4, <1>5
-------------------------------------------------------------------------------
(* Trimmed is the text up to the last byte that is no CR, and there is one *)
(* such cut.                                                               *)
CutAt(input, from, to, k) ==
    /\ k \in (from - 1) .. to
    /\ k >= from => input[k] # CR
    /\ \A i \in (k + 1) .. to : input[i] = CR

LEMMA TrimmedIs ==
    ASSUME NEW input \in Seq(Byte), NEW from \in Nat \ {0}, NEW to \in Nat,
           from - 1 <= to, to <= Len(input),
           NEW k, CutAt(input, from, to, k)
    PROVE  Trimmed(input, from, to) = SubSeq(input, from, k)
<1> DEFINE Texts == { SubSeq(input, from, j) : j \in (from - 1) .. to }
           Good(text) == /\ text # <<>> => text[Len(text)] # CR
                         /\ \A i \in (from + Len(text)) .. to : input[i] = CR
<1>1. \A j \in (from - 1) .. to :
         /\ Len(SubSeq(input, from, j)) = j - from + 1
         /\ j >= from => SubSeq(input, from, j)[j - from + 1] = input[j]
         /\ SubSeq(input, from, j) # <<>> <=> j >= from
  OBVIOUS
<1>2. k \in (from - 1) .. to
  BY DEF CutAt
<1>3. SubSeq(input, from, k) \in Texts /\ Good(SubSeq(input, from, k))
  <2>1. from + Len(SubSeq(input, from, k)) = k + 1
    BY <1>1, <1>2
  <2> QED BY <1>1, <1>2, <2>1 DEF CutAt
<1>4. ASSUME NEW j \in (from - 1) .. to, Good(SubSeq(input, from, j))
      PROVE  j = k
  <2>1. from + Len(SubSeq(input, from, j)) = j + 1
    BY <1>1
  <2>2. /\ j >= from => input[j] # CR
        /\ \A i \in (j + 1) .. to : input[i] = CR
    BY <1>1, <1>4, <2>1
  <2> QED BY <1>2, <2>2 DEF CutAt
<1>5. \A text \in Texts : Good(text) => text = SubSeq(input, from, k)
  BY <1>4
<1>6. Trimmed(input, from, to) = CHOOSE text \in Texts : Good(text)
  BY DEF Trimmed
<1> HIDE DEF Texts, Good
<1> QED BY <1>3, <1>5, <1>6

LEMMA CutExists ==
    ASSUME NEW input \in Seq(Byte), NEW from \in Nat \ {0}, NEW to \in Nat,
           from - 1 <= to, to <= Len(input)
    PROVE  \E k : CutAt(input, from, to, k)
<1> DEFINE I == { i \in from .. to : input[i] # CR }
<1>1. I \in SUBSET (0 .. to)
  OBVIOUS
<1>2. I # {} => Max(I) \in I /\ \A y \in I : y <= Max(I)
  <2> HIDE DEF I
  <2> QED BY <1>1, LargestExists
<1>3. CASE I = {}
  <2>1. CutAt(input, from, to, from - 1)
    BY <1>3 DEF CutAt
  <2> QED BY <2>1
<1>4. CASE I # {}
  <2> DEFINE m == Max(I)
  <2>1. m \in from .. to /\ input[m] # CR
    BY <1>2, <1>4
  <2>2. ASSUME NEW i \in (m + 1) .. to, input[i] # CR
        PROVE  FALSE
    <3>1. i \in I
      BY <2>1, <2>2
    <3> QED BY <1>2, <1>4, <2>1, <3>1
  <2> HIDE DEF m
  <2>3. CutAt(input, from, to, m)
    BY <2>1, <2>2 DEF CutAt
  <2> QED BY <2>3
<1> QED BY <1>3, <1>4

-------------------------------------------------------------------------------
(* More input changes neither the lines that have ended nor their ranks.   *)
LEMMA EndsExtend ==
    ASSUME NEW input \in Seq(Byte), NEW more \in Seq(Byte)
    PROVE  /\ input \o more \in Seq(Byte)
           /\ Len(input \o more) = Len(input) + Len(more)
           /\ \A i \in 1 .. Len(input) : (input \o more)[i] = input[i]
           /\ \A i \in 1 .. Len(input) :
                 i \in Ends(input \o more) <=> i \in Ends(input)
<1>1. /\ input \o more \in Seq(Byte)
      /\ Len(input \o more) = Len(input) + Len(more)
      /\ \A i \in 1 .. Len(input) : (input \o more)[i] = input[i]
  OBVIOUS
<1> QED BY <1>1 DEF Ends

LEMMA LineStart ==
    ASSUME NEW input \in Seq(Byte), NEW end \in Ends(input)
    PROVE  LET from == LastOf({ i \in Ends(input) : i < end }) + 1
           IN  from \in 1 .. end
<1> DEFINE S == { i \in Ends(input) : i < end }
<1>1. end \in 1 .. Len(input) /\ Len(input) \in Nat
  BY DEF Ends
<1>2. S \in SUBSET (1 .. Len(input))
  BY DEF Ends
<1>3. \/ S = {} /\ LastOf(S) = 0
      \/ LastOf(S) \in S
  <2> HIDE DEF S
  <2> QED BY <1>1, <1>2, LastOfIs
<1>4. LastOf(S) \in 0 .. end - 1
  BY <1>1, <1>2, <1>3
<1> HIDE DEF S
<1>5. LastOf(S) + 1 \in 1 .. end
  BY <1>1, <1>4
<1> QED BY <1>5 DEF S

LEMMA TextBeforeExtends ==
    ASSUME NEW input \in Seq(Byte), NEW more \in Seq(Byte), NEW end \in Ends(input)
    PROVE  TextBefore(input \o more, end) = TextBefore(input, end)
<1> DEFINE whole == input \o more
           from == LastOf({ i \in Ends(input) : i < end }) + 1
           to == end - 1
<1>1. /\ whole \in Seq(Byte)
      /\ Len(whole) = Len(input) + Len(more)
      /\ \A i \in 1 .. Len(input) : whole[i] = input[i]
      /\ \A i \in 1 .. Len(input) : i \in Ends(whole) <=> i \in Ends(input)
  BY EndsExtend
<1>2. end \in 1 .. Len(input) /\ Len(input) \in Nat /\ Len(more) \in Nat
  BY DEF Ends
<1>3. { i \in Ends(whole) : i < end } = { i \in Ends(input) : i < end }
  <2> HIDE DEF whole
  <2>1. \A i \in Ends(whole) \cup Ends(input) : i \in Nat \ {0}
    BY <1>1 DEF Ends
  <2>2. \A i \in Ends(whole) \cup Ends(input) : i < end => i \in 1 .. Len(input)
    BY <1>2, <2>1
  <2> QED BY <1>1, <2>2
<1>4. from \in 1 .. end
  BY LineStart
<1>5. /\ TextBefore(input, end) = Trimmed(input, from, to)
      /\ TextBefore(whole, end) = Trimmed(whole, from, to)
  <2> HIDE DEF whole
  <2> QED BY <1>3 DEF TextBefore
<1> HIDE DEF whole, from
<1>6. PICK k : CutAt(input, from, to, k)
  BY <1>2, <1>4, CutExists
<1>7. k \in (from - 1) .. to
  BY <1>6 DEF CutAt
<1>8. CutAt(whole, from, to, k)
  <2>1. \A i \in from .. to : whole[i] = input[i]
    BY <1>1, <1>2, <1>4
  <2> QED BY <1>2, <1>4, <1>6, <1>7, <2>1 DEF CutAt
<1>9. /\ Trimmed(input, from, to) = SubSeq(input, from, k)
      /\ Trimmed(whole, from, to) = SubSeq(whole, from, k)
  <2>1. from \in Nat \ {0} /\ to \in Nat /\ from - 1 <= to /\ to <= Len(input)
        /\ to <= Len(whole)
    BY <1>1, <1>2, <1>4
  <2> HIDE DEF to
  <2>2. Trimmed(input, from, to) = SubSeq(input, from, k)
    BY <1>6, <2>1, TrimmedIs
  <2>3. Trimmed(whole, from, to) = SubSeq(whole, from, k)
    BY <1>1, <1>8, <2>1, TrimmedIs
  <2> QED BY <2>2, <2>3
<1>10. SubSeq(input, from, k) = SubSeq(whole, from, k)
  BY <1>1, <1>2, <1>4, <1>7
<1> QED BY <1>5, <1>9, <1>10 DEF whole
LEMMA FilledUpToExtends ==
    ASSUME NEW input \in Seq(Byte), NEW more \in Seq(Byte),
           NEW n \in 0 .. Len(input)
    PROVE  FilledUpTo(input \o more, n) = FilledUpTo(input, n)
<1>1. /\ \A i \in 1 .. Len(input) :
            i \in Ends(input \o more) <=> i \in Ends(input)
      /\ \A i \in Ends(input \o more) \cup Ends(input) : i \in Nat \ {0}
  BY EndsExtend DEF Ends
<1>2. \A i \in Ends(input \o more) \cup Ends(input) :
         i <= n => i \in 1 .. Len(input)
  BY <1>1
<1>3. \A end \in Ends(input) :
         TextBefore(input \o more, end) = TextBefore(input, end)
  BY TextBeforeExtends
<1>4. FilledUpTo(input \o more, n) \subseteq FilledUpTo(input, n)
  BY <1>1, <1>2, <1>3 DEF FilledUpTo, Filled
<1>5. FilledUpTo(input, n) \subseteq FilledUpTo(input \o more, n)
  BY <1>1, <1>2, <1>3 DEF FilledUpTo, Filled
<1> QED BY <1>4, <1>5

LEMMA FilledUpToIsFinite ==
    ASSUME NEW input \in Seq(Byte), NEW n \in Nat
    PROVE  /\ FilledUpTo(input, n) \subseteq Ends(input)
           /\ \A end \in FilledUpTo(input, n) :
                 end \in 1 .. Len(input) /\ end <= n
           /\ IsFiniteSet(FilledUpTo(input, n))
           /\ Cardinality(FilledUpTo(input, n)) \in Nat
<1>1. /\ FilledUpTo(input, n) \subseteq Ends(input)
      /\ \A end \in FilledUpTo(input, n) :
            end \in 1 .. Len(input) /\ end <= n
  BY DEF FilledUpTo, Filled, Ends
<1>2. FilledUpTo(input, n) \in SUBSET Nat /\ \A s \in FilledUpTo(input, n) : s <= n
  BY <1>1
<1>3. IsFiniteSet(FilledUpTo(input, n))
  BY <1>2, FS_BoundedSetOfNaturals
<1>4. Cardinality(FilledUpTo(input, n)) \in Nat
  BY <1>3, FS_CardinalityType
<1> QED BY <1>1, <1>3, <1>4

-------------------------------------------------------------------------------
(* The line feed takes from the buffer is the line of the input that ends  *)
(* at the next LF behind what has been taken.                              *)
IsRest(buf, input, t) ==
    /\ t \in 0 .. Len(input)
    /\ t # 0 => t \in Ends(input)
    /\ Len(buf) = Len(input) - t
    /\ \A i \in 1 .. Len(buf) : buf[i] = input[t + i]

LEMMA NextEnd ==
    ASSUME NEW buf \in Seq(Byte), NEW input \in Seq(Byte), NEW t,
           IsRest(buf, input, t), LineEnd(buf) # 0
    PROVE  /\ LineEnd(buf) \in 1 .. Len(buf)
           /\ t + LineEnd(buf) \in Ends(input)
           /\ \A i \in Ends(input) : i < t + LineEnd(buf) => i <= t
<1> DEFINE p == LineEnd(buf)
<1>1. /\ p \in 1 .. Len(buf)
      /\ buf[p] = LF
      /\ \A i \in 1 .. p - 1 : buf[i] # LF
  BY LineEndIs
<1>2. /\ t \in Nat /\ Len(buf) \in Nat /\ Len(input) \in Nat
      /\ Len(buf) = Len(input) - t
      /\ \A i \in 1 .. Len(buf) : buf[i] = input[t + i]
  BY DEF IsRest
<1> HIDE DEF p
<1>3. t + p \in Ends(input)
  BY <1>1, <1>2 DEF Ends
<1>4. ASSUME NEW i \in Ends(input), i < t + p, ~(i <= t)
      PROVE  FALSE
  <2>1. i \in 1 .. Len(input) /\ input[i] = LF
    BY DEF Ends
  <2>2. i - t \in 1 .. p - 1 /\ i - t \in 1 .. Len(buf) /\ t + (i - t) = i
    BY <1>1, <1>2, <1>4, <2>1
  <2>3. buf[i - t] = LF
    BY <1>2, <2>1, <2>2
  <2> QED BY <1>1, <2>2, <2>3
<1>5. \A i \in Ends(input) : i < t + p => i <= t
  BY <1>4
<1> QED BY <1>1, <1>3, <1>5 DEF p

LEMMA NextStart ==
    ASSUME NEW buf \in Seq(Byte), NEW input \in Seq(Byte), NEW t,
           IsRest(buf, input, t), LineEnd(buf) # 0
    PROVE  LastOf({ i \in Ends(input) : i < t + LineEnd(buf) }) = t
<1> DEFINE S == { i \in Ends(input) : i < t + LineEnd(buf) }
<1>1. /\ LineEnd(buf) \in 1 .. Len(buf)
      /\ \A i \in Ends(input) : i < t + LineEnd(buf) => i <= t
  BY NextEnd
<1>2. t \in Nat /\ Len(input) \in Nat /\ Len(buf) \in Nat
      /\ (t # 0 => t \in Ends(input))
  BY DEF IsRest
<1>3. S \in SUBSET (1 .. Len(input)) /\ \A i \in S : i \in 1 .. t
  BY <1>1, <1>2 DEF Ends
<1>4. t # 0 => t \in S
  BY <1>1, <1>2
<1>5. \/ S = {} /\ LastOf(S) = 0
      \/ LastOf(S) \in S /\ \A y \in S : y <= LastOf(S)
  <2> HIDE DEF S
  <2> QED BY <1>2, <1>3, LastOfIs
<1> HIDE DEF S
<1>6. ASSUME t = 0
      PROVE  LastOf(S) = t
  <2>1. S = {}
    BY <1>3, <1>6
  <2> QED BY <1>5, <1>6, <2>1
<1>7. ASSUME t # 0
      PROVE  LastOf(S) = t
  <2>1. t \in S
    BY <1>4, <1>7
  <2>2. LastOf(S) \in S /\ t <= LastOf(S)
    BY <1>5, <2>1
  <2>3. LastOf(S) \in 1 .. t
    BY <1>3, <2>2
  <2> QED BY <1>2, <2>2, <2>3
<1> QED BY <1>6, <1>7 DEF S

LEMMA NextLine ==
    ASSUME NEW buf \in Seq(Byte), NEW input \in Seq(Byte), NEW t,
           IsRest(buf, input, t), LineEnd(buf) # 0
    PROVE  TextBefore(input, t + LineEnd(buf))
              = Strip(SubSeq(buf, 1, LineEnd(buf)))
<1> DEFINE p == LineEnd(buf)
           line == SubSeq(buf, 1, p)
           from == t + 1
           to == (t + p) - 1
<1>1. p \in 1 .. Len(buf) /\ buf[p] = LF /\ \A i \in 1 .. p - 1 : buf[i] # LF
  BY LineEndIs, NextEnd
<1>2. /\ t \in Nat /\ Len(buf) \in Nat /\ Len(input) \in Nat
      /\ Len(buf) = Len(input) - t
      /\ \A i \in 1 .. Len(buf) : buf[i] = input[t + i]
  BY DEF IsRest
<1>3. TextBefore(input, t + p) = Trimmed(input, from, to)
  <2>1. LastOf({ i \in Ends(input) : i < t + p }) = t
    BY NextStart
  <2> DEFINE end == t + p
  <2>2. LastOf({ i \in Ends(input) : i < end }) + 1 = from /\ end - 1 = to
    BY <2>1
  <2> HIDE DEF end, from, to
  <2>3. TextBefore(input, end) = Trimmed(input, from, to)
    BY <2>2 DEF TextBefore
  <2> QED BY <2>3 DEF end
<1> HIDE DEF p
<1>4. /\ line \in Seq(Byte) /\ Len(line) = p
      /\ \A i \in 1 .. p : line[i] = buf[i]
  BY <1>1, <1>2
<1> HIDE DEF line
<1>5. PICK k \in 0 .. Len(line) :
              /\ Strip(line) = SubSeq(line, 1, k)
              /\ k # 0 => line[k] \notin {CR, LF}
              /\ \A i \in k + 1 .. Len(line) : line[i] \in {CR, LF}
  BY <1>4, StripIs
<1>6. k \in 0 .. p - 1
  BY <1>1, <1>4, <1>5
<1>7. CutAt(input, from, to, t + k)
  <2>1. t + k \in (from - 1) .. to
    BY <1>1, <1>2, <1>6
  <2>2. ASSUME t + k >= from
        PROVE  input[t + k] # CR
    <3>1. k \in 1 .. p /\ k \in 1 .. Len(buf)
      BY <1>1, <1>2, <1>6, <2>2
    <3>2. input[t + k] = line[k]
      BY <1>2, <1>4, <3>1
    <3> QED BY <1>5, <3>1, <3>2
  <2>3. ASSUME NEW i \in (t + k + 1) .. to
        PROVE  input[i] = CR
    <3>1. /\ i - t \in k + 1 .. Len(line) /\ i - t \in 1 .. p - 1
          /\ i - t \in 1 .. Len(buf) /\ t + (i - t) = i
      BY <1>1, <1>2, <1>4, <1>6
    <3>2. input[i] = line[i - t] /\ buf[i - t] = line[i - t]
      BY <1>1, <1>2, <1>4, <3>1
    <3> QED BY <1>1, <1>5, <3>1, <3>2
  <2> QED BY <2>1, <2>2, <2>3 DEF CutAt
<1>8. Trimmed(input, from, to) = SubSeq(input, from, t + k)
  <2>1. from \in Nat \ {0} /\ to \in Nat /\ from - 1 <= to /\ to <= Len(input)
    BY <1>1, <1>2
  <2> HIDE DEF from, to
  <2> QED BY <1>7, <2>1, TrimmedIs
<1>9. SubSeq(input, from, t + k) = SubSeq(line, 1, k)
  <2> DEFINE there == SubSeq(input, from, t + k)
             here == SubSeq(line, 1, k)
  <2>1. /\ k \in Nat /\ k <= Len(line) /\ k <= Len(buf) /\ t + k <= Len(input)
        /\ Len(line) \in Nat
    BY <1>1, <1>2, <1>4, <1>6
  <2>2. /\ there \in Seq(Byte) /\ Len(there) = k
        /\ \A i \in 1 .. k : there[i] = input[t + i]
    BY <1>2, <2>1
  <2>3. /\ here \in Seq(Byte) /\ Len(here) = k
        /\ \A i \in 1 .. k : here[i] = line[i]
    BY <1>4, <2>1
  <2>4. \A i \in 1 .. k : line[i] = input[t + i]
    <3>1. \A i \in 1 .. k : i \in 1 .. p /\ i \in 1 .. Len(buf)
      BY <1>2, <1>4, <2>1
    <3> QED BY <1>2, <1>4, <3>1
  <2> HIDE DEF there, here
  <2>5. there = here
    BY <2>2, <2>3, <2>4
  <2> QED BY <2>5 DEF there, here
<1> QED BY <1>3, <1>5, <1>8, <1>9 DEF line, p
-------------------------------------------------------------------------------
(* What each action does to the invariant.                                 *)
LEMMA IsRestNow ==
    ASSUME FramingTypes
    PROVE  BufferIsTheRest <=> IsRest(inbound_buf, fed, Taken)
<1>1. Len(inbound_buf) = Len(fed) - Taken
  BY DEF FramingTypes, Taken
<1> QED BY <1>1 DEF BufferIsTheRest, IsRest

LEMMA InitEstablishes == FramingInit => FramingInv
<1> SUFFICES ASSUME FramingInit
             PROVE  FramingInv
  OBVIOUS
<1>1. FramingTypes /\ Len(inbound_buf) = 0 /\ Len(fed) = 0 /\ Len(lines) = 0
  <2>1. FramingTypes
    <3>1. \A S : <<>> \in Seq(S)
      OBVIOUS
    <3> QED BY <3>1 DEF FramingInit, FramingTypes
  <2>2. Len(inbound_buf) = 0 /\ Len(fed) = 0 /\ Len(lines) = 0
    BY DEF FramingInit
  <2> QED BY <2>1, <2>2
<1>2. BufferIsTheRest
  BY <1>1 DEF BufferIsTheRest, Taken
<1>3. FilledUpTo(fed, Taken) = {}
  BY <1>1 DEF FilledUpTo, Filled, Ends
<1>4. LinesUpToTaken
  BY <1>1, <1>3, FS_EmptySet DEF LinesUpToTaken
<1>5. QuietMeansNoLF
  <2>1. inbound_buf \in Seq(Byte)
    BY <1>1 DEF FramingTypes
  <2>2. LineEnd(inbound_buf) = 0 \/ LineEnd(inbound_buf) \in 1 .. Len(inbound_buf)
    BY <2>1, LineEndIs
  <2> QED BY <1>1, <2>2 DEF QuietMeansNoLF
<1> QED BY <1>1, <1>2, <1>4, <1>5 DEF FramingInv

LEMMA FeedKeeps ==
    ASSUME FramingInv, NEW n \in Nat, NEW bytes \in [1 .. n -> Byte], Feed(bytes)
    PROVE  FramingInv'
<1>1. /\ inbound_buf \in Seq(Byte) /\ fed \in Seq(Byte) /\ bytes \in Seq(Byte)
      /\ Len(inbound_buf) \in Nat /\ Len(fed) \in Nat /\ Len(bytes) \in Nat
  <2>1. bytes \in Seq(Byte)
    OBVIOUS
  <2> QED BY <2>1 DEF FramingInv, FramingTypes
<1>2. /\ inbound_buf' = inbound_buf \o bytes /\ fed' = fed \o bytes
      /\ feeding' = TRUE /\ lines' = lines
  BY DEF Feed
<1>3. FramingTypes'
  BY <1>1, <1>2 DEF FramingInv, FramingTypes
<1>4. Taken' = Taken /\ Taken \in 0 .. Len(fed)
  BY <1>1, <1>2 DEF Taken, FramingInv, BufferIsTheRest
<1>5. BufferIsTheRest'
  <2>1. Taken # 0 => Taken \in Ends(fed \o bytes)
    BY <1>1, <1>4, EndsExtend DEF FramingInv, BufferIsTheRest
  <2>2. Taken \in 0 .. Len(fed \o bytes)
    BY <1>1, <1>4
  <2>3. ASSUME NEW i \in 1 .. Len(inbound_buf \o bytes)
        PROVE  (inbound_buf \o bytes)[i] = (fed \o bytes)[Taken + i]
    <3>1. Len(inbound_buf) = Len(fed) - Taken
      BY <1>1 DEF Taken
    <3>2. CASE i <= Len(inbound_buf)
      <4>1. i \in 1 .. Len(inbound_buf) /\ Taken + i \in 1 .. Len(fed)
        BY <1>1, <1>4, <3>1, <3>2
      <4>2. inbound_buf[i] = fed[Taken + i]
        BY <4>1 DEF FramingInv, BufferIsTheRest
      <4> QED BY <1>1, <4>1, <4>2
    <3>3. CASE ~(i <= Len(inbound_buf))
      <4>1. /\ i - Len(inbound_buf) \in 1 .. Len(bytes)
            /\ Taken + i = Len(fed) + (i - Len(inbound_buf))
        BY <1>1, <1>4, <3>1, <3>3
      <4> QED BY <1>1, <4>1
    <3> QED BY <3>2, <3>3
  <2> QED BY <1>2, <1>4, <2>1, <2>2, <2>3 DEF BufferIsTheRest
<1>6. LinesUpToTaken'
  <2>1. FilledUpTo(fed \o bytes, Taken) = FilledUpTo(fed, Taken)
    BY <1>1, <1>4, FilledUpToExtends
  <2>2. ASSUME NEW end \in FilledUpTo(fed, Taken)
        PROVE  lines[Cardinality(FilledUpTo(fed \o bytes, end))]
                  = TextBefore(fed \o bytes, end)
    <3>1. end \in Ends(fed) /\ end \in 0 .. Len(fed)
      <4>1. Taken \in Nat
        BY <1>1, <1>4
      <4>2. end \in Ends(fed) /\ end \in 1 .. Len(fed)
        BY <1>1, <4>1, FilledUpToIsFinite
      <4> QED BY <1>1, <4>2
    <3>2. FilledUpTo(fed \o bytes, end) = FilledUpTo(fed, end)
      BY <1>1, <3>1, FilledUpToExtends
    <3>3. TextBefore(fed \o bytes, end) = TextBefore(fed, end)
      BY <1>1, <3>1, TextBeforeExtends
    <3>4. lines[Cardinality(FilledUpTo(fed, end))] = TextBefore(fed, end)
      BY DEF FramingInv, LinesUpToTaken
    <3> QED BY <3>2, <3>3, <3>4
  <2>3. Len(lines) = Cardinality(FilledUpTo(fed, Taken))
    BY DEF FramingInv, LinesUpToTaken
  <2> QED BY <1>2, <1>4, <2>1, <2>2, <2>3 DEF LinesUpToTaken
<1>7. QuietMeansNoLF'
  BY <1>2 DEF QuietMeansNoLF
<1> QED BY <1>3, <1>5, <1>6, <1>7 DEF FramingInv

LEMMA TakesLineKeeps ==
    ASSUME FramingInv, TakesLine
    PROVE  FramingInv'
<1> DEFINE p == LineEnd(inbound_buf)
           end == Taken + p
           text == Strip(SubSeq(inbound_buf, 1, p))
<1>1. /\ inbound_buf \in Seq(Byte) /\ fed \in Seq(Byte) /\ lines \in Seq(Seq(Byte))
      /\ Len(inbound_buf) \in Nat /\ Len(fed) \in Nat /\ Len(lines) \in Nat
      /\ IsRest(inbound_buf, fed, Taken)
  BY IsRestNow DEF FramingInv, FramingTypes
<1>2. /\ feeding /\ p # 0
      /\ lines' = IF text = <<>> THEN lines ELSE Append(lines, text)
      /\ inbound_buf' = SubSeq(inbound_buf, p + 1, Len(inbound_buf))
      /\ feeding' = feeding /\ fed' = fed
  BY DEF TakesLine
<1>3. /\ p \in 1 .. Len(inbound_buf)
      /\ end \in Ends(fed)
      /\ \A i \in Ends(fed) : i < end => i <= Taken
  BY <1>1, <1>2, NextEnd
<1>4. TextBefore(fed, end) = text
  BY <1>1, <1>2, NextLine
<1>5. text \in Seq(Byte)
  <2> DEFINE line == SubSeq(inbound_buf, 1, p)
  <2>1. line \in Seq(Byte)
    BY <1>1, <1>3
  <2> HIDE DEF line
  <2>2. PICK k \in 0 .. Len(line) : Strip(line) = SubSeq(line, 1, k)
    BY <2>1, StripIs
  <2>3. Strip(line) \in Seq(Byte)
    BY <2>1, <2>2
  <2> QED BY <2>3 DEF line
<1> HIDE DEF p, text
<1>6. FramingTypes'
  BY <1>1, <1>2, <1>3, <1>5 DEF FramingInv, FramingTypes
<1>7. /\ Taken \in Nat /\ Len(inbound_buf) = Len(fed) - Taken
      /\ Taken' = end /\ Len(inbound_buf') = Len(inbound_buf) - p
  <2>1. Len(inbound_buf') = Len(inbound_buf) - p
    BY <1>1, <1>2, <1>3
  <2>2. Taken \in Nat
    BY DEF FramingInv, BufferIsTheRest
  <2>3. Len(inbound_buf) = Len(fed) - Taken
    BY <1>1 DEF Taken
  <2>4. Taken' = Len(fed) - Len(inbound_buf')
    BY <1>2 DEF Taken
  <2>5. Taken' = Len(fed) - (Len(inbound_buf) - p)
    BY <2>1, <2>4
  <2>6. Taken' = Taken + p
    <3>1. p \in Nat
      BY <1>1, <1>3
    <3> QED BY <1>1, <2>2, <2>3, <2>5, <3>1
  <2> QED BY <2>1, <2>2, <2>3, <2>6
<1>8. BufferIsTheRest'
  <2>1. end \in 0 .. Len(fed)
    BY <1>1, <1>3, <1>7
  <2>2. ASSUME NEW i \in 1 .. Len(inbound_buf')
        PROVE  inbound_buf'[i] = fed[end + i]
    <3>1. /\ p + i \in 1 .. Len(inbound_buf) /\ end + i = Taken + (p + i)
          /\ inbound_buf'[i] = inbound_buf[p + i]
      BY <1>1, <1>2, <1>3, <1>7
    <3> QED BY <3>1 DEF FramingInv, BufferIsTheRest
  <2> HIDE DEF end
  <2> QED BY <1>2, <1>3, <1>7, <2>1, <2>2 DEF BufferIsTheRest
<1>9. LinesUpToTaken'
  <2> DEFINE old == FilledUpTo(fed, Taken)
             new == FilledUpTo(fed, end)
  <2>1. /\ IsFiniteSet(old) /\ Cardinality(old) \in Nat
        /\ \A e \in old : e \in Ends(fed) /\ e \in 1 .. Len(fed) /\ e <= Taken
    BY <1>1, <1>7, FilledUpToIsFinite
  <2>2. Len(lines) = Cardinality(old)
        /\ \A e \in old : lines[Cardinality(FilledUpTo(fed, e))] = TextBefore(fed, e)
    BY DEF FramingInv, LinesUpToTaken
  <2>3. end \in Nat /\ Taken < end
    BY <1>1, <1>3, <1>7
  <2>4. \A e \in Ends(fed) : e \in Nat
    BY DEF Ends
  <2> HIDE DEF end
  <2>5. \A e \in Ends(fed) : e <= end => e <= Taken \/ e = end
    BY <1>3, <2>3, <2>4
  <2>6. end \notin old
    BY <1>7, <2>1, <2>3
  <2>7. CASE text = <<>>
    <3>1. end \notin Filled(fed)
      BY <1>4, <2>7 DEF Filled
    <3>2. new = old
      BY <1>7, <2>3, <2>4, <2>5, <3>1 DEF FilledUpTo, Filled
    <3> QED BY <1>2, <1>7, <2>2, <2>7, <3>2 DEF LinesUpToTaken
  <2>8. CASE text # <<>>
    <3>1. end \in Filled(fed)
      BY <1>3, <1>4, <2>8 DEF Filled
    <3>2. new = old \cup {end}
      <4>1. \A e \in Filled(fed) : e \in Ends(fed)
        BY DEF Filled
      <4>2. \A e \in Filled(fed) : e <= end <=> (e <= Taken \/ e = end)
        BY <1>7, <2>3, <2>4, <2>5, <4>1
      <4> QED BY <3>1, <4>2 DEF FilledUpTo
    <3>3. Cardinality(new) = Len(lines) + 1
      <4> HIDE DEF old
      <4> QED BY <2>1, <2>2, <2>6, <3>2, FS_AddElement
    <3>4. lines' = Append(lines, text) /\ Len(lines') = Len(lines) + 1
      BY <1>1, <1>2, <1>5, <2>8
    <3>5. lines'[Cardinality(FilledUpTo(fed, end))] = TextBefore(fed, end)
      BY <1>1, <1>4, <1>5, <3>3, <3>4
    <3>6. ASSUME NEW e \in old
          PROVE  lines'[Cardinality(FilledUpTo(fed, e))] = TextBefore(fed, e)
      <4> DEFINE upTo == FilledUpTo(fed, e)
      <4>1. e \in Filled(fed) /\ e \in Nat /\ e <= Taken
        BY <2>1, <2>4 DEF FilledUpTo
      <4>2. /\ IsFiniteSet(upTo) /\ Cardinality(upTo) \in Nat
            /\ upTo \subseteq Ends(fed)
        BY <1>1, <4>1, FilledUpToIsFinite
      <4>3. e \in upTo
        BY <4>1 DEF FilledUpTo
      <4>4. upTo \subseteq old
        BY <1>7, <2>4, <4>1, <4>2 DEF FilledUpTo
      <4> HIDE DEF upTo, old
      <4>5. Cardinality(upTo) <= Cardinality(old)
        BY <2>1, <4>4, FS_Subset
      <4>6. Cardinality(upTo) # 0
        BY <4>2, <4>3, FS_EmptySet
      <4>7. Cardinality(upTo) \in 1 .. Len(lines)
        BY <1>1, <2>1, <2>2, <4>2, <4>5, <4>6
      <4>8. lines'[Cardinality(upTo)] = lines[Cardinality(upTo)]
        BY <1>1, <1>5, <3>4, <4>7
      <4> QED BY <2>2, <4>8 DEF upTo
    <3> HIDE DEF old
    <3>7. /\ Len(lines') = Cardinality(FilledUpTo(fed, end))
          /\ \A e \in FilledUpTo(fed, end) :
                lines'[Cardinality(FilledUpTo(fed, e))] = TextBefore(fed, e)
      BY <3>2, <3>3, <3>4, <3>5, <3>6
    <3> QED BY <1>2, <1>7, <3>7 DEF LinesUpToTaken
  <2> QED BY <2>7, <2>8
<1>10. QuietMeansNoLF'
  BY <1>2 DEF QuietMeansNoLF
<1> QED BY <1>6, <1>8, <1>9, <1>10 DEF FramingInv
LEMMA FeedReturnsKeeps ==
    ASSUME FramingInv, FeedReturns
    PROVE  FramingInv'
<1>1. /\ LineEnd(inbound_buf) = 0 /\ feeding' = FALSE
      /\ inbound_buf' = inbound_buf /\ lines' = lines /\ fed' = fed
  BY DEF FeedReturns
<1>2. Taken' = Taken
  BY <1>1 DEF Taken
<1>3. FramingTypes'
  BY <1>1 DEF FramingInv, FramingTypes
<1>4. BufferIsTheRest'
  BY <1>1, <1>2 DEF FramingInv, BufferIsTheRest
<1>5. LinesUpToTaken'
  BY <1>1, <1>2 DEF FramingInv, LinesUpToTaken
<1>6. QuietMeansNoLF'
  BY <1>1 DEF QuietMeansNoLF
<1> QED BY <1>3, <1>4, <1>5, <1>6 DEF FramingInv

LEMMA ResetKeeps ==
    ASSUME FramingInv, Reset
    PROVE  FramingInv'
<1>1. /\ inbound_buf' = <<>> /\ lines' = <<>> /\ fed' = <<>>
      /\ feeding' = feeding /\ feeding = FALSE
  BY DEF Reset, FramingInv, FramingTypes
<1>2. FramingInit'
  BY <1>1 DEF FramingInit
<1>3. (FramingInit => FramingInv)'
  BY InitEstablishes, PTL
<1> QED BY <1>2, <1>3

LEMMA FramingStep == FramingInv /\ [FramingNext]_framingVars => FramingInv'
<1> SUFFICES ASSUME FramingInv, [FramingNext]_framingVars
             PROVE  FramingInv'
  OBVIOUS
<1>1. CASE \E n \in 1 .. MaxBytes : \E bytes \in [1 .. n -> Byte] : Feed(bytes)
  <2>1. PICK n \in 1 .. MaxBytes : \E bytes \in [1 .. n -> Byte] : Feed(bytes)
    BY <1>1
  <2>2. PICK bytes \in [1 .. n -> Byte] : Feed(bytes)
    BY <2>1
  <2>3. n \in Nat
    BY FramingAssumption
  <2> QED BY <2>2, <2>3, FeedKeeps
<1>2. CASE TakesLine
  BY <1>2, TakesLineKeeps
<1>3. CASE FeedReturns
  BY <1>3, FeedReturnsKeeps
<1>4. CASE Reset
  BY <1>4, ResetKeeps
<1>5. CASE UNCHANGED framingVars
  <2>1. /\ inbound_buf' = inbound_buf /\ lines' = lines
        /\ fed' = fed /\ feeding' = feeding
    BY <1>5 DEF framingVars
  <2>2. Taken' = Taken
    BY <2>1 DEF Taken
  <2> QED BY <2>1, <2>2 DEF FramingInv, FramingTypes, BufferIsTheRest,
             LinesUpToTaken, QuietMeansNoLF
<1> QED BY <1>1, <1>2, <1>3, <1>4, <1>5 DEF FramingNext

LEMMA FramingInvariant == FramingSpec => []FramingInv
BY InitEstablishes, FramingStep, PTL DEF FramingSpec

(* When feed has returned, the whole input but its unfinished last line    *)
(* has been taken.                                                         *)
LEMMA QuietTakenIsLast ==
    ASSUME FramingInv, ~feeding
    PROVE  /\ \A i \in 1 .. Len(inbound_buf) : inbound_buf[i] # LF
           /\ \A end \in Ends(fed) : end <= Taken
           /\ Taken = LastOf(Ends(fed))
<1>1. /\ inbound_buf \in Seq(Byte) /\ fed \in Seq(Byte)
      /\ Len(inbound_buf) \in Nat /\ Len(fed) \in Nat
      /\ Taken \in 0 .. Len(fed)
      /\ Taken # 0 => Taken \in Ends(fed)
      /\ \A i \in 1 .. Len(inbound_buf) : inbound_buf[i] = fed[Taken + i]
  BY DEF FramingInv, FramingTypes, BufferIsTheRest
<1>2. Len(inbound_buf) = Len(fed) - Taken
  BY <1>1 DEF Taken
<1>3. \A i \in 1 .. Len(inbound_buf) : inbound_buf[i] # LF
  <2>1. LineEnd(inbound_buf) = 0
    BY DEF FramingInv, QuietMeansNoLF
  <2> QED BY <1>1, <2>1, LineEndIs
<1>4. ASSUME NEW end \in Ends(fed), ~(end <= Taken)
      PROVE  FALSE
  <2>1. end \in 1 .. Len(fed) /\ fed[end] = LF
    BY DEF Ends
  <2>2. end - Taken \in 1 .. Len(inbound_buf) /\ Taken + (end - Taken) = end
    BY <1>1, <1>2, <1>4, <2>1
  <2> QED BY <1>1, <1>3, <2>1, <2>2
<1>5. \A end \in Ends(fed) : end \in 1 .. Len(fed) /\ end <= Taken
  BY <1>4 DEF Ends
<1>6. \/ Ends(fed) = {} /\ LastOf(Ends(fed)) = 0
      \/ /\ LastOf(Ends(fed)) \in Ends(fed)
         /\ \A y \in Ends(fed) : y <= LastOf(Ends(fed))
  BY <1>1, <1>5, LastOfIs
<1>7. Taken = LastOf(Ends(fed))
  <2>1. CASE Ends(fed) = {}
    BY <1>1, <1>6, <2>1
  <2>2. CASE Ends(fed) # {}
    <3> DEFINE last == LastOf(Ends(fed))
    <3>1. last \in Ends(fed) /\ \A y \in Ends(fed) : y <= last
      BY <1>6, <2>2
    <3> HIDE DEF last
    <3>2. last \in 1 .. Len(fed) /\ last <= Taken
      BY <1>5, <3>1
    <3>3. Taken <= last
      BY <1>1, <3>1, <3>2
    <3>4. Taken = last
      BY <1>1, <3>2, <3>3
    <3> QED BY <3>4 DEF last
  <2> QED BY <2>1, <2>2
<1> QED BY <1>3, <1>5, <1>7

-------------------------------------------------------------------------------
(* Between two calls of feed the buffer holds no complete line, for every  *)
(* set of bytes and every length of the input.                             *)
THEOREM NothingHeldBack == FramingSpec => []NoLineHeldBack
<1>1. FramingInv => NoLineHeldBack
  <2> SUFFICES ASSUME FramingInv
               PROVE  NoLineHeldBack
    OBVIOUS
  <2>1. ~feeding => ~Contains(inbound_buf, LF)
    BY QuietTakenIsLast DEF Contains
  <2> QED BY <2>1 DEF NoLineHeldBack, FramingInv, FramingTypes
<1> QED BY <1>1, FramingInvariant, PTL

(* However the input is cut into reads, process_line is given exactly its  *)
(* lines that are not empty, in their order, and the unfinished line stays *)
(* in the buffer.                                                          *)
THEOREM FramingIsExact == FramingSpec => []LinesAreTheInputs
<1>1. FramingInv => LinesAreTheInputs
  <2> SUFFICES ASSUME FramingInv, ~feeding
               PROVE  /\ Len(lines) = Cardinality(Filled(fed))
                      /\ \A end \in Filled(fed) :
                            lines[Cardinality(FilledUpTo(fed, end))]
                               = TextBefore(fed, end)
                      /\ inbound_buf = SubSeq(fed, LastOf(Ends(fed)) + 1, Len(fed))
    BY DEF LinesAreTheInputs
  <2>1. FilledUpTo(fed, Taken) = Filled(fed)
    BY QuietTakenIsLast DEF FilledUpTo, Filled
  <2>2. Taken = LastOf(Ends(fed))
    BY QuietTakenIsLast
  <2>3. inbound_buf = SubSeq(fed, Taken + 1, Len(fed))
    <3>1. /\ inbound_buf \in Seq(Byte) /\ fed \in Seq(Byte)
          /\ Taken \in 0 .. Len(fed)
          /\ \A i \in 1 .. Len(inbound_buf) : inbound_buf[i] = fed[Taken + i]
      BY DEF FramingInv, FramingTypes, BufferIsTheRest
    <3>2. Len(inbound_buf) = Len(fed) - Taken
      BY <3>1 DEF Taken
    <3> QED BY <3>1, <3>2
  <2> QED BY <2>1, <2>2, <2>3 DEF FramingInv, LinesUpToTaken
<1> QED BY <1>1, FramingInvariant, PTL

===============================================================================
