----------------------------- MODULE LineLemmas -----------------------------
(***************************************************************************)
(* Lemmas about a line that keeps order, as a sequence: what its first     *)
(* item leaves behind, and what becomes of it when items are put behind    *)
(* the last.                                                               *)
(***************************************************************************)
EXTENDS Naturals, Sequences, TLAPS

NoneOf(s, set) == \A i \in 1 .. Len(s) : s[i] \notin set
Ordered(s, old, new) ==
    \A i, j \in 1 .. Len(s) : i < j /\ s[i] \in new => s[j] \notin old

LEMMA FirstLeaves ==
    ASSUME NEW S, NEW s \in Seq(S), s # <<>>, NEW old, NEW new
    PROVE  /\ Head(s) \in S /\ Tail(s) \in Seq(S)
           /\ NoneOf(s, old) => NoneOf(Tail(s), old) /\ Head(s) \notin old
           /\ Ordered(s, old, new) => Ordered(Tail(s), old, new)
           /\ Ordered(s, old, new) /\ Head(s) \in new => NoneOf(Tail(s), old)
  <1>1. /\ Head(s) \in S /\ Tail(s) \in Seq(S) /\ Head(s) = s[1]
        /\ Len(s) \in Nat /\ 1 \in 1 .. Len(s) /\ Len(Tail(s)) = Len(s) - 1
        /\ \A i \in 1 .. Len(Tail(s)) : i + 1 \in 1 .. Len(s) /\ Tail(s)[i] = s[i + 1]
    OBVIOUS
  <1>2. Ordered(s, old, new) => Ordered(Tail(s), old, new)
    <2> SUFFICES ASSUME Ordered(s, old, new),
                        NEW i \in 1 .. Len(Tail(s)), NEW j \in 1 .. Len(Tail(s)),
                        i < j, Tail(s)[i] \in new
                 PROVE  Tail(s)[j] \notin old
      BY DEF Ordered
    <2>1. /\ i + 1 \in 1 .. Len(s) /\ j + 1 \in 1 .. Len(s) /\ i + 1 < j + 1
          /\ Tail(s)[i] = s[i + 1] /\ Tail(s)[j] = s[j + 1]
      BY <1>1
    <2> QED
      BY <2>1 DEF Ordered
  <1>3. Ordered(s, old, new) /\ Head(s) \in new => NoneOf(Tail(s), old)
    <2> SUFFICES ASSUME Ordered(s, old, new), Head(s) \in new, NEW j \in 1 .. Len(Tail(s))
                 PROVE  Tail(s)[j] \notin old
      BY DEF NoneOf
    <2>1. j + 1 \in 1 .. Len(s) /\ 1 < j + 1 /\ Tail(s)[j] = s[j + 1]
      BY <1>1
    <2> QED
      BY <1>1, <2>1 DEF Ordered
  <1>4. NoneOf(s, old) => NoneOf(Tail(s), old) /\ Head(s) \notin old
    BY <1>1 DEF NoneOf
  <1> QED
    BY <1>1, <1>2, <1>3, <1>4

LEMMA LastJoins ==
    ASSUME NEW S, NEW s \in Seq(S), NEW e \in S, NEW old, NEW new
    PROVE  /\ Append(s, e) \in Seq(S)
           /\ NoneOf(s, old) /\ e \notin old => NoneOf(Append(s, e), old)
           /\ Ordered(s, old, new) /\ (e \in old => NoneOf(s, new))
                 => Ordered(Append(s, e), old, new)
  <1>1. /\ Append(s, e) \in Seq(S) /\ Len(s) \in Nat
        /\ Len(Append(s, e)) = Len(s) + 1 /\ Append(s, e)[Len(s) + 1] = e
        /\ \A i \in 1 .. Len(s) : Append(s, e)[i] = s[i]
    OBVIOUS
  <1>2. NoneOf(s, old) /\ e \notin old => NoneOf(Append(s, e), old)
    BY <1>1 DEF NoneOf
  <1>3. ASSUME Ordered(s, old, new), e \in old => NoneOf(s, new)
        PROVE  Ordered(Append(s, e), old, new)
    <2> SUFFICES ASSUME NEW i \in 1 .. Len(Append(s, e)), NEW j \in 1 .. Len(Append(s, e)),
                        i < j, Append(s, e)[i] \in new
                 PROVE  Append(s, e)[j] \notin old
      BY DEF Ordered
    <2>1. i \in 1 .. Len(s) /\ s[i] \in new
      BY <1>1
    <2>2. CASE j \in 1 .. Len(s)
      BY <1>1, <1>3, <2>1, <2>2 DEF Ordered
    <2>3. CASE j = Len(s) + 1
      BY <1>1, <1>3, <2>1, <2>3 DEF NoneOf
    <2> QED
      BY <1>1, <2>2, <2>3
  <1> QED
    BY <1>1, <1>2, <1>3

(* A line may be looked at as one of other sets.                           *)
LEMMA Reviewed ==
    ASSUME NEW S, NEW s \in Seq(S), NEW T
    PROVE  /\ (\A i \in 1 .. Len(s) : s[i] \in T) => s \in Seq(T)
           /\ \A i \in 1 .. Len(s) : s[i] \in S
           /\ S \subseteq T => s \in Seq(T)
  OBVIOUS

LEMMA NothingThere ==
    ASSUME NEW old, NEW new
    PROVE  NoneOf(<<>>, old) /\ Ordered(<<>>, old, new)
  BY DEF NoneOf, Ordered

LEMMA NoneOfNothing == \A s : NoneOf(s, {})
  BY DEF NoneOf

(* What a device answers is put behind what is there.                      *)
LEMMA AnswerJoins ==
    ASSUME NEW S, NEW s \in Seq(S)
    PROVE  /\ s \o <<>> = s
           /\ \A a : s \o <<a>> = Append(s, a) /\ s \o Append(<<>>, a) = Append(s, a)
           /\ \A a, b : s \o Append(<<a>>, b) = Append(Append(s, a), b)
  <1>1. ASSUME NEW a, NEW b
        PROVE  s \o Append(<<a>>, b) = Append(Append(s, a), b)
    <2>1. /\ Len(s \o Append(<<a>>, b)) = Len(s) + 2
          /\ Len(Append(Append(s, a), b)) = Len(s) + 2 /\ Len(s) \in Nat
      OBVIOUS
    <2> QED
      BY <2>1
  <1> QED
    BY <1>1

LEMMA ItemJoins ==
    ASSUME NEW S, NEW s \in Seq(S), NEW e
    PROVE  \A i \in 1 .. Len(Append(s, e)) :
              Append(s, e)[i] = e \/ (i \in 1 .. Len(s) /\ Append(s, e)[i] = s[i])
  OBVIOUS

LEMMA ItemLeaves ==
    ASSUME NEW S, NEW s \in Seq(S), s # <<>>
    PROVE  /\ Head(s) = s[1] /\ 1 \in 1 .. Len(s)
           /\ \A i \in 1 .. Len(Tail(s)) :
                 i \in Nat \ {0} /\ i + 1 \in 1 .. Len(s) /\ Tail(s)[i] = s[i + 1]
  OBVIOUS

=============================================================================
