--------------------------- MODULE ServoLinkProofs ---------------------------
(***************************************************************************)
(* Proofs about ServoLink, for any positions and any number of faults.     *)
(***************************************************************************)
EXTENDS ServoLink, SequenceTheorems, TLAPS

(***************************************************************************)
(* Sequences                                                               *)
(***************************************************************************)

LEMMA Shortened ==
  \A s \in Seq(Bytes) : \A k \in 1..Len(s) :
    /\ Without(s, k) \in Seq(Bytes)
    /\ Len(Without(s, k)) = Len(s) - 1
    /\ \A j \in 1..(Len(s) - 1) : Without(s, k)[j] = s[IF j < k THEN j ELSE j + 1]
<1> SUFFICES ASSUME NEW s \in Seq(Bytes), NEW k \in 1..Len(s)
             PROVE  /\ Without(s, k) \in Seq(Bytes)
                    /\ Len(Without(s, k)) = Len(s) - 1
                    /\ \A j \in 1..(Len(s) - 1) : Without(s, k)[j] = s[IF j < k THEN j ELSE j + 1]
  OBVIOUS
<1> DEFINE front == SubSeq(s, 1, k - 1)
           back  == SubSeq(s, k + 1, Len(s))
<1>1. /\ front \in Seq(Bytes) /\ Len(front) = k - 1
      /\ \A j \in 1..(k - 1) : front[j] = s[j]
  OBVIOUS
<1>2. /\ back \in Seq(Bytes) /\ Len(back) = Len(s) - k
      /\ \A j \in 1..(Len(s) - k) : back[j] = s[k + j]
  OBVIOUS
<1>3. Without(s, k) = front \o back
  BY DEF Without
<1> HIDE DEF front, back
<1>4. front \o back \in Seq(Bytes) /\ Len(front \o back) = Len(s) - 1
  BY <1>1, <1>2
<1>5. ASSUME NEW j \in 1..(Len(s) - 1), j < k PROVE (front \o back)[j] = s[j]
  BY <1>1, <1>2, <1>5
<1>6. ASSUME NEW j \in 1..(Len(s) - 1), ~(j < k) PROVE (front \o back)[j] = s[j + 1]
  <2>1. (front \o back)[j] = back[j - (k - 1)]
    BY <1>1, <1>2, <1>6
  <2>2. j - (k - 1) \in 1..(Len(s) - k) /\ k + (j - (k - 1)) = j + 1
    BY <1>6
  <2> QED
    BY <1>2, <2>1, <2>2
<1> QED
  BY <1>3, <1>4, <1>5, <1>6

LEMMA Behead ==
  \A s \in Seq(Bytes) : s # << >> =>
    /\ Head(s) \in Bytes /\ Head(s) = s[1] /\ 1 \in 1..Len(s)
    /\ Tail(s) \in Seq(Bytes) /\ Len(Tail(s)) = Len(s) - 1
    /\ \A j \in 1..(Len(s) - 1) : Tail(s)[j] = s[j + 1]
OBVIOUS

LEMMA Joined ==
  \A s, t \in Seq(Bytes) :
    /\ s \o t \in Seq(Bytes) /\ Len(s \o t) = Len(s) + Len(t)
    /\ \A j \in 1..Len(s) : (s \o t)[j] = s[j]
    /\ \A j \in 1..Len(t) : (s \o t)[Len(s) + j] = t[j]
OBVIOUS

LEMMA Passed ==
  \A s, t \in Seq(Bytes) : t # << >> => Append(s, Head(t)) \o Tail(t) = s \o t
<1> SUFFICES ASSUME NEW s \in Seq(Bytes), NEW t \in Seq(Bytes), t # << >>
             PROVE  Append(s, Head(t)) \o Tail(t) = s \o t
  OBVIOUS
<1>1. t = <<Head(t)>> \o Tail(t)
  OBVIOUS
<1> QED
  BY <1>1, AppendProperties, ConcatAssociative

LEMMA ShortenedJoined ==
  \A s, t \in Seq(Bytes) : \A k \in 1..Len(t) : s \o Without(t, k) = Without(s \o t, Len(s) + k)
<1> SUFFICES ASSUME NEW s \in Seq(Bytes), NEW t \in Seq(Bytes), NEW k \in 1..Len(t)
             PROVE  s \o Without(t, k) = Without(s \o t, Len(s) + k)
  OBVIOUS
<1> DEFINE one == s \o Without(t, k)
           two == Without(s \o t, Len(s) + k)
<1>1. /\ Without(t, k) \in Seq(Bytes) /\ Len(Without(t, k)) = Len(t) - 1
      /\ \A j \in 1..(Len(t) - 1) : Without(t, k)[j] = t[IF j < k THEN j ELSE j + 1]
  BY Shortened
<1>2. one \in Seq(Bytes) /\ Len(one) = Len(s) + Len(t) - 1
  BY <1>1, Joined
<1>3. s \o t \in Seq(Bytes) /\ Len(s) + k \in 1..Len(s \o t) /\ Len(s \o t) = Len(s) + Len(t)
  BY Joined
<1>4. /\ two \in Seq(Bytes) /\ Len(two) = Len(s) + Len(t) - 1
      /\ \A j \in 1..(Len(s) + Len(t) - 1) :
           two[j] = (s \o t)[IF j < Len(s) + k THEN j ELSE j + 1]
  <2>1. /\ two \in Seq(Bytes) /\ Len(two) = Len(s \o t) - 1
        /\ \A j \in 1..(Len(s \o t) - 1) :
             two[j] = (s \o t)[IF j < Len(s) + k THEN j ELSE j + 1]
    BY <1>3, Shortened, Zenon
  <2> QED
    BY <1>3, <2>1
<1>5. ASSUME NEW j \in 1..(Len(s) + Len(t) - 1) PROVE one[j] = two[j]
  <2>1. CASE j \in 1..Len(s)
    BY <1>1, <1>4, <2>1, Joined
  <2>2. CASE j \notin 1..Len(s)
    <3>1. PICK m \in 1..(Len(t) - 1) : j = Len(s) + m
      <4>1. j - Len(s) \in 1..(Len(t) - 1) /\ j = Len(s) + (j - Len(s))
        BY <2>2
      <4> QED
        BY <4>1
    <3>2. one[j] = Without(t, k)[m]
      BY <1>1, <3>1, Joined
    <3>3. CASE m < k
      <4>1. two[j] = (s \o t)[Len(s) + m]
        <5>1. j < Len(s) + k
          BY <3>1, <3>3
        <5> QED
          BY <1>4, <3>1, <5>1
      <4>2. m \in 1..Len(t)
        BY <3>1
      <4> QED
        BY <1>1, <3>2, <3>3, <4>1, <4>2, Joined
    <3>4. CASE ~(m < k)
      <4>1. two[j] = (s \o t)[Len(s) + (m + 1)]
        <5>1. j + 1 = Len(s) + (m + 1) /\ ~(j < Len(s) + k)
          BY <3>1, <3>4
        <5> QED
          BY <1>4, <5>1
      <4>2. m + 1 \in 1..Len(t)
        BY <3>1
      <4> QED
        BY <1>1, <3>2, <3>4, <4>1, <4>2, Joined
    <3> QED
      BY <3>3, <3>4
  <2> QED
    BY <2>1, <2>2
<1> HIDE DEF one, two
<1>6. one = two
  BY <1>2, <1>4, <1>5, SeqEqual
<1> QED
  BY <1>6 DEF one, two

(***************************************************************************)
(* What is said of the bytes on their way stays true when one is taken or  *)
(* lost.                                                                   *)
(***************************************************************************)

LEMMA ShortenedKeeps ==
  ASSUME NEW s \in Seq(Bytes), NEW k \in 1..Len(s), NEW taken
  PROVE  /\ OnlyI(s) => OnlyI(Without(s, k))
         /\ NoPair(s) => NoPair(Without(s, k))
         /\ NoTriple(s) => NoTriple(Without(s, k))
         /\ Untold(s) => Untold(Without(s, k))
         /\ Truthful(s, taken) => Truthful(Without(s, k), taken)
<1> DEFINE t == Without(s, k)
           n == Len(s)
           from(j) == IF j < k THEN j ELSE j + 1
<1>1. n \in Nat /\ Len(t) = n - 1 /\ \A j \in 1..(n - 1) : t[j] = s[from(j)]
  BY Shortened
<1>2. \A j \in 1..(n - 1) : from(j) \in 1..n
  BY <1>1
<1>3. \A j, m \in 1..(n - 1) : j < m => from(j) < from(m)
  BY <1>1
<1>4. OnlyI(s) => OnlyI(t)
  BY <1>1, <1>2 DEF OnlyI
<1>5. NoPair(s) => NoPair(t)
  <2> HIDE DEF t, from, n
  <2>1. Len(s) = n
    BY DEF n
  <2> QED
    BY <1>1, <1>2, <1>3, <2>1 DEF NoPair
<1>6. NoTriple(s) => NoTriple(t)
  <2> HIDE DEF t, from, n
  <2>1. Len(s) = n
    BY DEF n
  <2> QED
    BY <1>1, <1>2, <1>3, <2>1 DEF NoTriple
<1>7. Untold(s) => Untold(t)
  BY <1>1, <1>2 DEF Untold
<1>8. Truthful(s, taken) => Truthful(t, taken)
  <2> SUFFICES ASSUME Truthful(s, taken), NEW j \in 1..Len(t), t[j] = S
               PROVE  /\ Len(t) <= j + 2
                      /\ Len(t) = j + 2 => t[j + 1] \in {X, Y} /\ taken[t[j + 1]] = t[j + 2]
    BY DEF Truthful
  <2>1. j \in 1..(n - 1) /\ s[from(j)] = S /\ from(j) \in 1..n
    BY <1>1, <1>2
  <2>2. n <= from(j) + 2
    BY <2>1 DEF Truthful
  <2>3. CASE j < k
    <3>1. n <= j + 2
      BY <2>2, <2>3
    <3> QED
      BY <1>1, <3>1
  <2>4. CASE ~(j < k)
    <3>1. n <= j + 3 /\ from(j) = j + 1
      BY <2>2, <2>4
    <3>2. ASSUME Len(t) = j + 2
          PROVE  t[j + 1] = s[j + 2] /\ t[j + 2] = s[j + 3] /\ n = j + 3
      <4>1. /\ j + 1 \in 1..(n - 1) /\ j + 2 \in 1..(n - 1) /\ n = j + 3
            /\ from(j + 1) = j + 2 /\ from(j + 2) = j + 3
        BY <1>1, <2>1, <2>4, <3>2
      <4> HIDE DEF from
      <4> QED
        BY <1>1, <4>1
    <3>3. n = j + 3 => s[j + 2] \in {X, Y} /\ taken[s[j + 2]] = s[j + 3]
      <4>1. j + 1 \in 1..Len(s) /\ s[j + 1] = S /\ (j + 1) + 1 = j + 2 /\ (j + 1) + 2 = j + 3
        BY <2>1, <3>1
      <4> QED
        BY <4>1 DEF Truthful
    <3> QED
      BY <1>1, <3>1, <3>2, <3>3
  <2> QED
    BY <2>3, <2>4
<1> QED
  BY <1>4, <1>5, <1>6, <1>7, <1>8

LEMMA TailKeeps ==
  ASSUME NEW s \in Seq(Bytes), s # << >>
  PROVE  /\ OnlyI(s) => OnlyI(Tail(s)) /\ Head(s) = I
         /\ NoPair(s) => NoPair(Tail(s)) /\ (Head(s) # I => OnlyI(Tail(s)))
         /\ NoTriple(s) => NoTriple(Tail(s)) /\ (Head(s) # I => NoPair(Tail(s)))
         /\ Untold(s) => Untold(Tail(s))
<1> DEFINE t == Tail(s)
           n == Len(s)
<1>1. /\ n \in Nat \ {0} /\ Head(s) = s[1] /\ Len(t) = n - 1
      /\ \A j \in 1..(n - 1) : t[j] = s[j + 1]
  BY Behead
<1>2. \A j \in 1..(n - 1) : j + 1 \in 1..n /\ 1 < j + 1
  BY <1>1
<1>3. \A j, m \in 1..(n - 1) : j < m => j + 1 < m + 1
  BY <1>1
<1>4. 1 \in 1..n /\ Len(s) = n
  BY <1>1
<1> HIDE DEF t, n
<1>5. OnlyI(s) => OnlyI(t) /\ Head(s) = I
  BY <1>1, <1>2, <1>4 DEF OnlyI
<1>6. NoPair(s) => NoPair(t)
  BY <1>1, <1>2, <1>3, <1>4 DEF NoPair
<1>7. NoPair(s) /\ Head(s) # I => OnlyI(t)
  BY <1>1, <1>2, <1>4 DEF NoPair, OnlyI
<1>8. NoTriple(s) => NoTriple(t)
  BY <1>1, <1>2, <1>3, <1>4 DEF NoTriple
<1>9. NoTriple(s) /\ Head(s) # I => NoPair(t)
  BY <1>1, <1>2, <1>3, <1>4 DEF NoTriple, NoPair
<1>10. Untold(s) => Untold(t)
  BY <1>1, <1>2, <1>4 DEF Untold
<1> QED
  BY <1>5, <1>6, <1>7, <1>8, <1>9, <1>10 DEF t

(***************************************************************************)
(* Types                                                                   *)
(***************************************************************************)

LEMMA Constants ==
  /\ X \in Bytes /\ Y \in Bytes /\ I \in Bytes /\ S \in Bytes /\ F \in Bytes /\ U \in Bytes
  /\ 0 \in Bytes /\ Tries = 3 /\ Middle \in Bytes /\ Middle \in 0..Highest
  /\ Positions \subseteq Bytes /\ MaxFaults \in Nat
BY PositionsAssumption, FaultsAssumption
   DEF X, Y, I, S, F, U, Tries, Middle, Highest, Bytes

LEMMA BytesOfBytes ==
  /\ << >> \in Seq(Bytes)
  /\ \A a, b \in Bytes : <<a, b>> \in Seq(Bytes)
  /\ \A a, b, c \in Bytes : <<a, b, c>> \in Seq(Bytes)
  /\ Greeting \in Seq(Bytes)
<1>1. << >> \in Seq(Bytes)
  BY EmptySeq
<1>2. \A a, b \in Bytes : <<a, b>> \in Seq(Bytes)
  OBVIOUS
<1>3. \A a, b, c \in Bytes : <<a, b, c>> \in Seq(Bytes)
  OBVIOUS
<1>4. Greeting \in Seq(Bytes)
  <2>1. 67 \in Bytes /\ 111 \in Bytes /\ 110 \in Bytes /\ 116 \in Bytes
    BY DEF Bytes
  <2> QED
    BY <2>1 DEF Greeting
<1> QED
  BY <1>1, <1>2, <1>3, <1>4

LEMMA TypeInit == Init => TypeOK
<1> SUFFICES ASSUME Init PROVE TypeOK
  OBVIOUS
<1>1. position \in [{X, Y} -> 0..Highest]
  BY Constants DEF Init
<1>2. toHost \in Seq(Bytes) /\ toBoard \in Seq(Bytes) /\ rxbuf \in Seq(Bytes) /\ Len(rxbuf) = 0
  BY BytesOfBytes DEF Init
<1>3. i \in 0..Tries /\ deg \in Bytes /\ axispart \in Bytes /\ faults \in 0..MaxFaults
  BY Constants DEF Init
<1>4. flawed \in BOOLEAN
  BY Zenon DEF Init
<1> QED
  BY <1>1, <1>2, <1>3, <1>4 DEF Init, TypeOK

LEMMA FaultTyped == TypeOK /\ Fault => faults' \in 0..MaxFaults
BY Constants DEF TypeOK, Fault

LEMMA ReturnTyped ==
  ASSUME TypeOK, NEW flag \in {"OK", "FAIL", "OFFLINE", "BADLINK", "LINKDOWN"}, Return(flag)
  PROVE  /\ spc' = "judge" /\ flawed' \in BOOLEAN
         /\ result' \in {"OK", "FAIL", "OFFLINE", "BADLINK", "LINKDOWN"}
         /\ UNCHANGED <<axis, deg, rxbuf, board>>
<1>1. flawed' \in BOOLEAN
  BY Zenon DEF Return
<1> QED
  BY <1>1 DEF Return

LEMMA TypeKept == TypeOK /\ [Next]_vars => TypeOK'
<1> SUFFICES ASSUME TypeOK, [Next]_vars PROVE TypeOK'
  OBVIOUS
<1> USE DEF server, line, board
<1>c. Tries = 3 /\ 0 \in 0..Tries
  BY Constants
<1>f. Patience => faults' \in 0..MaxFaults
  BY FaultTyped DEF Patience, TypeOK
<1>1. CASE UNCHANGED vars
  BY <1>1 DEF vars, TypeOK
<1>2. ASSUME NEW p \in Positions, Call(p) PROVE TypeOK'
  BY <1>2, <1>c, Constants DEF Call, TypeOK
<1>3. CASE Write
  <2>1. toBoard \o <<axis, deg>> \in Seq(Bytes)
    BY Constants, BytesOfBytes, Joined DEF TypeOK
  <2>2. << >> \in Seq(Bytes) /\ Len(<< >>) <= 3
    BY BytesOfBytes
  <2> QED
    BY <1>3, <2>1, <2>2 DEF Write, TypeOK
<1>4. CASE Sleep
  BY <1>4, <1>f DEF Sleep, TypeOK
<1>5. CASE ReadByte
  <2>1. /\ Append(rxbuf, Head(toHost)) \in Seq(Bytes) /\ Tail(toHost) \in Seq(Bytes)
        /\ Len(Append(rxbuf, Head(toHost))) = Len(rxbuf) + 1
    BY <1>5, Behead DEF ReadByte, TypeOK
  <2>2. Len(rxbuf) + 1 <= 3
    BY <1>5 DEF ReadByte, TypeOK
  <2> QED
    BY <1>5, <2>1, <2>2 DEF ReadByte, TypeOK
<1>6. CASE ReadTimeout
  <2>1. CASE i' < Tries /\ spc' = "write" /\ UNCHANGED <<axis, deg, rxbuf, result, flawed, board>>
    <3>1. i' \in 0..Tries
      BY <1>6, <1>c, <2>1 DEF ReadTimeout, TypeOK
    <3> QED
      BY <1>6, <1>f, <2>1, <3>1 DEF ReadTimeout, TypeOK
  <2>2. CASE i' = Tries /\ Return("OFFLINE")
    BY <1>6, <1>c, <1>f, <2>2, ReturnTyped DEF ReadTimeout, TypeOK
  <2> QED
    BY <1>6, <2>1, <2>2 DEF ReadTimeout
<1>7. CASE Answered
  <2>1. PICK flag \in {"OK", "FAIL", "BADLINK"} : Return(flag)
    BY <1>7 DEF Answered
  <2> QED
    BY <1>7, <2>1, ReturnTyped DEF Answered, TypeOK
<1>8. CASE Judge
  BY <1>8 DEF Judge, TypeOK
<1>9. CASE Recover
  <2>1. toBoard \o <<I, I, I>> \in Seq(Bytes)
    BY Constants, BytesOfBytes, Joined DEF TypeOK
  <2> QED
    BY <1>9, <2>1 DEF Recover, TypeOK
<1>10. CASE Flush
  <2>1. toHost' \in Seq(Bytes)
    <3>1. \A s \in Seq(Bytes) : \A k \in 1..Len(s) : SubSeq(s, k, Len(s)) \in Seq(Bytes)
      OBVIOUS
    <3> QED
      BY <1>10, <3>1, BytesOfBytes DEF Flush, TypeOK
  <2>2. faults' \in 0..MaxFaults
    BY <1>10, FaultTyped DEF Flush, TypeOK
  <2> QED
    BY <1>10, <2>1, <2>2 DEF Flush, TypeOK
<1>11. CASE ReadAxis
  <2>1. Head(toBoard) \in Bytes /\ Tail(toBoard) \in Seq(Bytes)
    BY <1>11, Behead DEF ReadAxis, TypeOK
  <2> QED
    BY <1>11, <2>1 DEF ReadAxis, TypeOK
<1>12. CASE ReadValue
  <2> DEFINE value == Head(toBoard)
  <2>1. value \in Bytes /\ Tail(toBoard) \in Seq(Bytes)
    BY <1>12, Behead DEF ReadValue, TypeOK
  <2>2. toHost' \in Seq(Bytes)
    <3>1. PICK a, b, c \in Bytes : toHost' = toHost \/ toHost' = toHost \o <<a, b, c>>
      BY <1>12, <2>1, Constants DEF ReadValue, Reply, TypeOK
    <3> QED
      BY <3>1, BytesOfBytes, Joined DEF TypeOK
  <2>3. position' \in [{X, Y} -> 0..Highest]
    <3>1. position \in [{X, Y} -> 0..Highest]
      BY DEF TypeOK
    <3>2. \/ UNCHANGED position
          \/ /\ axispart \in {X, Y} /\ value \in 0..Highest
             /\ position' = [position EXCEPT ![axispart] = value]
      <4>1. value <= Highest => value \in 0..Highest
        <5>1. \A b \in Bytes : b <= Highest => b \in 0..Highest
          BY DEF Bytes, Highest
        <5> QED
          BY <2>1, <5>1
      <4>2. \/ UNCHANGED position
            \/ /\ axispart \in {X, Y} /\ value <= Highest
               /\ position' = [position EXCEPT ![axispart] = value]
        BY <1>12 DEF ReadValue
      <4> QED
        BY <4>1, <4>2
    <3> QED
      BY <3>1, <3>2
  <2> QED
    BY <1>12, <2>1, <2>2, <2>3 DEF ReadValue, TypeOK
<1>13. CASE WriteFails
  BY <1>13, FaultTyped, ReturnTyped DEF WriteFails, TypeOK
<1>14. CASE LoseByte
  <2>1. toBoard' \in Seq(Bytes) /\ toHost' \in Seq(Bytes)
    BY <1>14, Shortened DEF LoseByte, TypeOK
  <2> QED
    BY <1>14, <2>1, FaultTyped DEF LoseByte, TypeOK
<1> QED
  BY <1>1, <1>2, <1>3, <1>4, <1>5, <1>6, <1>7, <1>8, <1>9, <1>10, <1>11, <1>12, <1>13, <1>14
     DEF Next, Server, Board

\* Every variable keeps its type.
THEOREM TypeCorrect == Spec => []TypeOK
BY TypeInit, TypeKept, PTL DEF Spec

(***************************************************************************)
(* One answer at most is on its way while the server waits for the board:  *)
(* LineInv.                                                                *)
(***************************************************************************)

LEMMA Nothing == OnlyI(<< >>) /\ Untold(<< >>) /\ NoPair(<< >>) /\ NoTriple(<< >>)
BY DEF OnlyI, Untold, NoPair, NoTriple

LEMMA ConcatNothing == \A s \in Seq(Bytes) : << >> \o s = s /\ s \o << >> = s
BY ConcatEmptySeq

LEMMA UntoldIsTruthful == \A s \in Seq(Bytes) : Untold(s) => \A taken : Truthful(s, taken)
BY DEF Untold, Truthful

LEMMA OnlyIIsAnswerless == \A s \in Seq(Bytes) : OnlyI(s) => NoPair(s) /\ NoTriple(s)
BY DEF OnlyI, NoPair, NoTriple

LEMMA InitLineInv == Init => LineInv
<1> SUFFICES ASSUME Init PROVE LineInv
  OBVIOUS
<1>1. Untold(Greeting)
  BY DEF Untold, Greeting, S
<1> QED
  BY <1>1, Nothing DEF Init, LineInv, AckMeansMoved

LEMMA RecoverySilent == ASSUME NEW s \in Seq(Bytes), OnlyI(s) PROVE OnlyI(s \o <<I, I, I>>)
<1>1. <<I, I, I>> \in Seq(Bytes) /\ Len(<<I, I, I>>) = 3
  BY Constants, BytesOfBytes
<1>2. \A j \in 1..3 : <<I, I, I>>[j] = I
  OBVIOUS
<1> QED
  BY <1>1, <1>2 DEF OnlyI

LEMMA CommandAnsweredOnce ==
  ASSUME NEW s \in Seq(Bytes), OnlyI(s), NEW a \in Bytes, NEW b \in Bytes
  PROVE  NoTriple(s \o <<a, b>>)
<1> DEFINE t == s \o <<a, b>>
<1>1. <<a, b>> \in Seq(Bytes) /\ Len(<<a, b>>) = 2
  BY BytesOfBytes
<1>2. Len(s) \in Nat /\ Len(t) = Len(s) + 2 /\ \A j \in 1..Len(s) : t[j] = I
  BY <1>1, Joined DEF OnlyI
<1> HIDE DEF t
<1>3. \A j, k, m \in 1..Len(t) : j < k /\ k < m => j \in 1..Len(s)
  BY <1>2
<1>4. NoTriple(t)
  BY <1>2, <1>3 DEF NoTriple
<1> QED
  BY <1>4 DEF t

\* An answer of the board after bytes without an acknowledgement.
LEMMA AnswerTruthful ==
  ASSUME NEW s \in Seq(Bytes), Untold(s), NEW first \in {S, F}, NEW a \in Bytes, NEW b \in Bytes,
         a # S, first = F => b # S,
         NEW taken, first = S => a \in {X, Y} /\ taken[a] = b
  PROVE  Truthful(s \o <<first, a, b>>, taken)
<1> DEFINE reply == <<first, a, b>>
           t == s \o reply
<1>1. reply \in Seq(Bytes) /\ Len(reply) = 3 /\ reply[1] = first /\ reply[2] = a /\ reply[3] = b
  BY Constants, BytesOfBytes
<1>2. t \in Seq(Bytes) /\ Len(s) \in Nat /\ Len(t) = Len(s) + 3
  BY <1>1, Joined
<1>3. t[Len(s) + 1] = first /\ t[Len(s) + 2] = a /\ t[Len(s) + 3] = b
  BY <1>1, Joined
<1>4. \A j \in 1..Len(s) : t[j] # S
  BY <1>1, Joined DEF Untold
<1> HIDE DEF t, reply
<1>5. ASSUME NEW j \in 1..Len(t), t[j] = S
      PROVE  /\ Len(t) <= j + 2
             /\ Len(t) = j + 2 => t[j + 1] \in {X, Y} /\ taken[t[j + 1]] = t[j + 2]
  <2>1. j = Len(s) + 1 \/ j = Len(s) + 3
    BY <1>2, <1>3, <1>4, <1>5
  <2>2. CASE j = Len(s) + 1
    <3>1. first = S
      BY <1>3, <1>5, <2>2
    <3>2. j + 1 = Len(s) + 2 /\ j + 2 = Len(s) + 3
      BY <1>2, <2>2
    <3> QED
      BY <1>2, <1>3, <3>1, <3>2
  <2>3. CASE j = Len(s) + 3
    BY <1>2, <2>3
  <2> QED
    BY <2>1, <2>2, <2>3
<1>6. Truthful(t, taken)
  BY <1>5 DEF Truthful
<1> QED
  BY <1>6 DEF t, reply

LEMMA BoardKeepsLineInv == TypeOK /\ TypeOK' /\ LineInv /\ Board => LineInv'
<1> SUFFICES ASSUME TypeOK, TypeOK', LineInv, Board PROVE LineInv'
  OBVIOUS
<1> USE DEF server, line, board
<1> DEFINE head == Head(toBoard)
           rest == Tail(toBoard)
<1>1. toBoard \in Seq(Bytes) /\ toBoard # << >> /\ toHost \in Seq(Bytes) /\ toBoard' = rest
  BY DEF Board, ReadAxis, ReadValue, TypeOK
<1>2. UNCHANGED <<spc, axis, deg, rxbuf, result, flawed>> /\ spc # "read"
  BY <1>1 DEF Board, ReadAxis, ReadValue, LineInv
<1>3. /\ OnlyI(toBoard) => OnlyI(rest) /\ head = I
      /\ NoPair(toBoard) => NoPair(rest) /\ (head # I => OnlyI(rest))
      /\ NoTriple(toBoard) => NoTriple(rest) /\ (head # I => NoPair(rest))
  BY <1>1, TailKeeps
<1> HIDE DEF head, rest
<1>4. CASE UNCHANGED <<toHost, position>>
  <2>1. CASE spc # "sleep"
    BY <1>1, <1>2, <1>3, <1>4, <2>1 DEF LineInv, AckMeansMoved
  <2>2. CASE spc = "sleep"
    <3>1. Answerless => Answerless'
      <4>1. CASE ReadAxis
        BY <1>1, <1>3, <4>1 DEF ReadAxis, Answerless, head
      <4>2. CASE ReadValue
        BY <1>1, <1>3, <4>2, OnlyIIsAnswerless, Behead DEF ReadValue, Answerless, rest
      <4> QED
        BY <4>1, <4>2 DEF Board
    <3> QED
      BY <1>1, <1>2, <1>3, <1>4, <2>2, <3>1 DEF LineInv, AckMeansMoved
  <2> QED
    BY <2>1, <2>2
<1>5. CASE ~UNCHANGED <<toHost, position>>
  <2>1. ReadValue /\ head # I
    BY <1>5 DEF Board, ReadAxis, ReadValue, head
  <2>2. spc = "sleep" /\ ~OnlyI(toBoard)
    BY <1>3, <2>1 DEF LineInv
  <2>3. NoTriple(toBoard) /\ Untold(toHost)
    BY <2>1, <2>2 DEF LineInv, Answerless, ReadValue
  <2>4. Answerless'
    BY <1>1, <1>3, <2>1, <2>3 DEF ReadValue, Answerless
  <2>5. PICK first \in {S, F}, a \in Bytes, b \in Bytes :
          /\ toHost' = toHost \o <<first, a, b>>
          /\ a # S /\ (first = F => b # S)
          /\ first = S => a \in {X, Y} /\ position'[a] = b
    <3>1. head \in Bytes
      BY <1>1, Behead DEF head
    <3>2. 0 # S /\ U # S /\ X # S /\ Y # S /\ S # F
      BY DEF S, U, X, Y, F
    <3>3. CASE axispart \notin {X, Y}
      <4>1. toHost' = toHost \o <<F, U, 0>>
        BY <2>1, <3>3 DEF ReadValue, Reply, head
      <4> QED
        BY <3>2, <4>1, Constants
    <3>4. CASE axispart \in {X, Y} /\ head <= Highest
      <4>1. /\ toHost' = toHost \o <<S, axispart, head>>
            /\ position' = [position EXCEPT ![axispart] = head]
        BY <2>1, <3>4 DEF ReadValue, Reply, head
      <4>2. position'[axispart] = head
        BY <3>4, <4>1 DEF TypeOK
      <4>3. axispart \in Bytes /\ axispart # S
        BY <3>2, <3>4, Constants
      <4> QED
        BY <3>1, <3>2, <3>4, <4>1, <4>2, <4>3
    <3>5. CASE axispart \in {X, Y} /\ ~(head <= Highest)
      <4>1. toHost' = toHost \o <<F, axispart, 0>>
        BY <2>1, <3>5 DEF ReadValue, Reply, head
      <4>2. axispart \in Bytes /\ axispart # S
        BY <3>2, <3>5, Constants
      <4> QED
        BY <3>2, <4>1, <4>2, Constants
    <3> QED
      BY <3>3, <3>4, <3>5
  <2>6. Truthful(toHost', position')
    BY <1>1, <2>3, <2>5, AnswerTruthful
  <2> QED
    BY <1>2, <2>2, <2>4, <2>6 DEF LineInv, AckMeansMoved
<1> QED
  BY <1>4, <1>5

LEMMA LossKeepsLineInv == TypeOK /\ LineInv /\ LoseByte => LineInv'
<1> SUFFICES ASSUME TypeOK, LineInv, LoseByte PROVE LineInv'
  OBVIOUS
<1> USE DEF server, line, board
<1>t. toBoard \in Seq(Bytes) /\ toHost \in Seq(Bytes) /\ rxbuf \in Seq(Bytes)
  BY DEF TypeOK
<1>u. UNCHANGED <<spc, axis, deg, rxbuf, result, flawed, bpc, position>>
  BY DEF LoseByte
<1>1. ASSUME NEW k \in 1..Len(toBoard), toBoard' = Without(toBoard, k), UNCHANGED toHost
      PROVE  LineInv'
  <2>1. /\ OnlyI(toBoard) => OnlyI(toBoard')
        /\ NoPair(toBoard) => NoPair(toBoard')
        /\ NoTriple(toBoard) => NoTriple(toBoard')
    BY <1>t, <1>1, ShortenedKeeps
  <2>2. toBoard # << >>
    BY <1>1
  <2> QED
    BY <1>u, <1>1, <2>1, <2>2 DEF LineInv, Answerless, AckMeansMoved
<1>2. ASSUME NEW k \in 1..Len(toHost), toHost' = Without(toHost, k), UNCHANGED toBoard
      PROVE  LineInv'
  <2>1. /\ Untold(toHost) => Untold(toHost')
        /\ Truthful(toHost, position) => Truthful(toHost', position)
    BY <1>t, <1>2, ShortenedKeeps
  <2>2. Truthful(rxbuf \o toHost, position) => Truthful(rxbuf \o toHost', position)
    <3>1. rxbuf \o toHost' = Without(rxbuf \o toHost, Len(rxbuf) + k)
      BY <1>t, <1>2, ShortenedJoined
    <3>2. rxbuf \o toHost \in Seq(Bytes) /\ Len(rxbuf) + k \in 1..Len(rxbuf \o toHost)
      BY <1>t, Joined
    <3> QED
      BY <3>1, <3>2, ShortenedKeeps, Zenon
  <2> QED
    BY <1>u, <1>2, <2>1, <2>2 DEF LineInv, Answerless, AckMeansMoved
<1> QED
  BY <1>1, <1>2 DEF LoseByte

LEMMA ServerKeepsLineInv == TypeOK /\ LineInv /\ Server /\ Prompt => LineInv'
<1> SUFFICES ASSUME TypeOK, LineInv, Server, Prompt PROVE LineInv'
  OBVIOUS
<1> USE DEF server, line, board
<1>t. toBoard \in Seq(Bytes) /\ toHost \in Seq(Bytes) /\ rxbuf \in Seq(Bytes)
  BY DEF TypeOK
<1>1. ASSUME NEW p \in Positions, Call(p) PROVE LineInv'
  BY <1>1 DEF Call, LineInv, AckMeansMoved
<1>2. CASE Write
  <2>1. NoTriple(toBoard')
    BY <1>t, <1>2, CommandAnsweredOnce, Constants DEF Write, LineInv, TypeOK
  <2> QED
    BY <1>2, <2>1 DEF Write, LineInv, AckMeansMoved
<1>3. CASE Sleep
  <2>1. toBoard = << >> /\ spc = "sleep" /\ spc' = "read" /\ rxbuf = << >>
    BY <1>3 DEF Sleep, Prompt, LineInv
  <2>2. Truthful(toHost, position) /\ rxbuf \o toHost = toHost
    BY <1>t, <2>1, UntoldIsTruthful, ConcatNothing DEF LineInv
  <2> QED
    BY <1>3, <2>1, <2>2, Nothing DEF Sleep, LineInv, AckMeansMoved
<1>4. CASE ReadByte
  <2>1. rxbuf' \o toHost' = rxbuf \o toHost
    BY <1>t, <1>4, Passed DEF ReadByte
  <2> QED
    BY <1>4, <2>1 DEF ReadByte, LineInv, AckMeansMoved
<1>5. CASE ReadTimeout
  <2>1. spc = "read" /\ toHost = << >> /\ toBoard = << >> /\ UNCHANGED <<toHost, toBoard>>
    BY <1>5 DEF ReadTimeout, LineInv
  <2>2. \/ spc' = "write" \/ (spc' = "judge" /\ result' = "OFFLINE")
    BY <1>5 DEF ReadTimeout, Return
  <2> QED
    BY <2>1, <2>2, Nothing DEF LineInv, AckMeansMoved
<1>6. CASE Answered
  <2>1. /\ spc = "read" /\ toBoard = << >> /\ Len(rxbuf) = 3 /\ spc' = "judge"
        /\ UNCHANGED <<toHost, toBoard, position, axis, deg>>
        /\ ~flawed' => result' = "OK"
        /\ result' = "OK" => rxbuf = <<S, axis, deg>>
    BY <1>6 DEF Answered, Return, LineInv
  <2>2. ASSUME rxbuf = <<S, axis, deg>> PROVE toHost = << >> /\ position[axis] = deg
    <3> DEFINE r == rxbuf \o toHost
    <3>1. /\ Len(r) = 3 + Len(toHost) /\ Len(toHost) \in Nat
          /\ r[1] = S /\ r[2] = axis /\ r[3] = deg
      BY <1>t, <2>1, <2>2, Joined
    <3>2. Truthful(r, position)
      BY <2>1 DEF LineInv
    <3> HIDE DEF r
    <3>3. Len(r) <= 1 + 2 /\ (Len(r) = 1 + 2 => position[r[1 + 1]] = r[1 + 2])
      BY <3>1, <3>2 DEF Truthful
    <3>4. Len(toHost) = 0 /\ Len(r) = 3
      BY <3>1, <3>3
    <3> QED
      BY <1>t, <3>1, <3>3, <3>4
  <2> QED
    BY <2>1, <2>2, Nothing DEF LineInv, AckMeansMoved
<1>7. CASE Judge
  BY <1>7 DEF Judge, LineInv, AckMeansMoved
<1>8. CASE Recover
  <2>1. OnlyI(toBoard')
    BY <1>t, <1>8, RecoverySilent DEF Recover, LineInv
  <2> QED
    BY <1>8, <2>1 DEF Recover, LineInv, AckMeansMoved
<1>9. CASE Flush
  <2>1. /\ toHost' = << >> /\ spc = "flush" /\ spc' = "idle"
        /\ UNCHANGED <<toBoard, position, axis, deg, rxbuf>>
    BY <1>9 DEF Flush, Prompt
  <2> QED
    BY <2>1, Nothing DEF LineInv, AckMeansMoved
<1> QED
  BY <1>1, <1>2, <1>3, <1>4, <1>5, <1>6, <1>7, <1>8, <1>9 DEF Server

LEMMA LineInvKept == TypeOK /\ TypeOK' /\ LineInv /\ [Next]_vars /\ [Prompt]_vars => LineInv'
<1> SUFFICES ASSUME TypeOK, TypeOK', LineInv, [Next]_vars, [Prompt]_vars PROVE LineInv'
  OBVIOUS
<1> USE DEF server, line, board
<1>1. CASE UNCHANGED vars
  BY <1>1 DEF vars, LineInv, Answerless, AckMeansMoved
<1>2. CASE WriteFails
  <2>1. /\ spc' = "judge" /\ result' = "LINKDOWN" /\ flawed' /\ toBoard' = toBoard
        /\ OnlyI(toBoard)
    BY <1>2 DEF WriteFails, Return, LineInv
  <2> QED
    BY <2>1 DEF LineInv, AckMeansMoved
<1>3. CASE ~UNCHANGED vars /\ ~WriteFails
  <2>1. Prompt /\ (Server \/ Board \/ LoseByte)
    BY <1>3 DEF Next
  <2> QED
    BY <2>1, BoardKeepsLineInv, LossKeepsLineInv, ServerKeepsLineInv
<1> QED
  BY <1>1, <1>2, <1>3

\* A position that is acknowledged has been taken up, for any number of bytes lost and writes
\* failed, as long as the server waits for what it has sent to be read, and what has been answered
\* is received before it is thrown away.
THEOREM AckMeansMovedHolds == Spec /\ [][Prompt]_vars => []AckMeansMoved
<1>1. LineInv => AckMeansMoved
  BY DEF LineInv
<1> QED
  BY <1>1, InitLineInv, LineInvKept, TypeCorrect, PTL DEF Spec
=============================================================================
