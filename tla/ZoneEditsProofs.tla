---------------------------- MODULE ZoneEditsProofs ----------------------------
(***************************************************************************)
(* What every edit of a zone file does, whatever edits came before it, and *)
(* where every posted name goes: the invariants of ZoneEdits and of        *)
(* AskedNames, for files and names of any length and any number of edits.  *)
(***************************************************************************)
EXTENDS ZoneEdits, AskedNames, ZoneFileProofs

(***************************************************************************)
(* The place a line gets                                                   *)
(***************************************************************************)

\* The loop is a function that takes the lines one by one.
LEMMA KeptStep ==
    ASSUME NEW text \in Seq(Lines), NEW o
    PROVE  LET kept == KeptUpTo(text, o)
           IN  /\ kept[0] = << >>
               /\ \A i \in 0..Len(text) : kept[i] \in Seq(Lines)
               /\ \A i \in 1..Len(text) :
                      /\ LineMatches(text[i], o) => kept[i] = kept[i - 1]
                      /\ ~ LineMatches(text[i], o) =>
                             /\ Len(kept[i]) = Len(kept[i - 1]) + 1
                             /\ kept[i][Len(kept[i])] = text[i]
                             /\ \A k \in 1..Len(kept[i - 1]) : kept[i][k] = kept[i - 1][k]
<1> DEFINE K == KeptUpTo(text, o)
<1>1. Len(text) \in Nat
  OBVIOUS
<1>2. \A i \in 0..Len(text) : K[i] \in Seq(Lines)
  BY KeptLines
<1>3. Loop(text, o, Len(text), K)
  BY KeptUpToDef
<1> HIDE DEF K
<1>4. \A i \in 0..Len(text) : K[i] =
          IF i = 0 THEN << >>
          ELSE IF LineMatches(text[i], o) THEN K[i - 1]
          ELSE Append(K[i - 1], text[i])
  BY <1>3 DEF Loop
<1>5. ASSUME NEW i \in 1..Len(text), ~ LineMatches(text[i], o)
      PROVE  /\ Len(K[i]) = Len(K[i - 1]) + 1
             /\ K[i][Len(K[i])] = text[i]
             /\ \A k \in 1..Len(K[i - 1]) : K[i][k] = K[i - 1][k]
  <2>1. i \in 0..Len(text) /\ i # 0 /\ i - 1 \in 0..Len(text) /\ text[i] \in Lines
    BY <1>1
  <2>2. K[i] = Append(K[i - 1], text[i]) /\ K[i - 1] \in Seq(Lines)
    BY <1>2, <1>4, <1>5, <2>1
  <2> QED
    BY <2>1, <2>2, AppendProperties
<1>6. ASSUME NEW i \in 1..Len(text), LineMatches(text[i], o)
      PROVE  K[i] = K[i - 1]
  <2>1. i \in 0..Len(text) /\ i # 0
    BY <1>1
  <2> QED
    BY <1>4, <1>6, <2>1
<1>7. K[0] = << >>
  BY <1>1, <1>4
<1> QED
  BY <1>2, <1>5, <1>6, <1>7 DEF K

\* A line that stays is the last one kept when the loop has seen it, and keeps
\* that place; every place is that of one line.
LEMMA KeptPlaces ==
    ASSUME NEW text \in Seq(Lines), NEW o, NEW n \in 0..Len(text)
    PROVE  LET kept == KeptUpTo(text, o)
               stay == {j \in 1..n : ~ LineMatches(text[j], o)}
           IN  /\ \A j \in stay : /\ Len(kept[j]) \in 1..Len(kept[n])
                                  /\ kept[n][Len(kept[j])] = text[j]
               /\ \A i, j \in stay : i < j => Len(kept[i]) < Len(kept[j])
               /\ \A k \in 1..Len(kept[n]) : \E j \in stay : Len(kept[j]) = k
<1> DEFINE K == KeptUpTo(text, o)
           Stay(m) == {j \in 1..m : ~ LineMatches(text[j], o)}
           Held(m) == \A j \in Stay(m) : /\ Len(K[j]) \in 1..Len(K[m])
                                         /\ K[m][Len(K[j])] = text[j]
           Ordered(m) == \A i, j \in Stay(m) : i < j => Len(K[i]) < Len(K[j])
           Onto(m) == \A k \in 1..Len(K[m]) : \E j \in Stay(m) : Len(K[j]) = k
           S == {m \in 0..Len(text) : Held(m) /\ Ordered(m) /\ Onto(m)}
<1>1. Len(text) \in Nat
  OBVIOUS
<1>2. /\ K[0] = << >>
      /\ \A i \in 0..Len(text) : K[i] \in Seq(Lines)
      /\ \A i \in 1..Len(text) : LineMatches(text[i], o) => K[i] = K[i - 1]
      /\ \A i \in 1..Len(text) : ~ LineMatches(text[i], o) =>
             /\ Len(K[i]) = Len(K[i - 1]) + 1
             /\ K[i][Len(K[i])] = text[i]
             /\ \A k \in 1..Len(K[i - 1]) : K[i][k] = K[i - 1][k]
  BY KeptStep
<1> HIDE DEF K
<1>3. 0 \in S
  <2>1. Stay(0) = {} /\ Len(K[0]) = 0
    BY <1>2
  <2> QED
    BY <1>1, <2>1
<1>4. ASSUME NEW m \in 0..Len(text), m < Len(text), m \in S
      PROVE  m + 1 \in S
  <2> DEFINE q == m + 1
  <2>1. /\ q \in 0..Len(text) /\ q \in 1..Len(text) /\ q - 1 = m
        /\ \A j : j \in 1..q <=> j \in 1..m \/ j = q
        /\ \A j \in 1..m : j < q /\ j \in 0..Len(text)
    BY <1>1, <1>4
  <2>2. Held(m) /\ Ordered(m) /\ Onto(m)
    BY <1>4
  <2>3. Len(K[m]) \in Nat /\ \A j \in 0..Len(text) : Len(K[j]) \in Nat
    BY <1>2, <1>4
  <2> HIDE DEF q
  <2>4. CASE LineMatches(text[q], o)
    <3>1. K[q] = K[m] /\ Stay(q) = Stay(m)
      BY <1>2, <2>1, <2>4
    <3>2. Held(q) /\ Ordered(q) /\ Onto(q)
      BY <2>2, <3>1
    <3> QED
      BY <2>1, <3>2 DEF q
  <2>5. CASE ~ LineMatches(text[q], o)
    <3>1. /\ Len(K[q]) = Len(K[m]) + 1
          /\ K[q][Len(K[q])] = text[q]
          /\ \A k \in 1..Len(K[m]) : K[q][k] = K[m][k]
      BY <1>2, <2>1, <2>5
    <3>2. Stay(q) = Stay(m) \cup {q}
      BY <2>1, <2>5
    <3> HIDE DEF Stay
    <3>3. Held(q)
      <4>1. ASSUME NEW j \in Stay(m)
            PROVE  Len(K[j]) \in 1..Len(K[q]) /\ K[q][Len(K[j])] = text[j]
        <5>1. Len(K[j]) \in 1..Len(K[m]) /\ K[m][Len(K[j])] = text[j]
          BY <2>2
        <5>2. 1..Len(K[m]) \subseteq 1..Len(K[q])
          BY <2>3, <3>1
        <5> QED
          BY <3>1, <5>1, <5>2
      <4>2. Len(K[q]) \in 1..Len(K[q])
        BY <2>3, <3>1
      <4> QED
        BY <3>1, <3>2, <4>1, <4>2
    <3>4. Ordered(q)
      <4>1. ASSUME NEW j \in Stay(m)
            PROVE  j < q /\ ~ (q < j) /\ Len(K[j]) < Len(K[q])
        <5>1. j \in 1..m
          BY DEF Stay
        <5>2. Len(K[j]) \in 1..Len(K[m])
          BY <2>2
        <5> QED
          BY <2>1, <2>3, <3>1, <5>1, <5>2
      <4>2. ~ (q < q)
        BY <2>1
      <4> QED
        BY <2>2, <3>2, <4>1, <4>2
    <3>5. Onto(q)
      <4>1. ASSUME NEW k \in 1..Len(K[q])
            PROVE  \E j \in Stay(q) : Len(K[j]) = k
        <5>1. k \in 1..Len(K[m]) \/ k = Len(K[q])
          BY <2>3, <3>1
        <5> QED
          BY <2>2, <3>2, <5>1
      <4> QED
        BY <4>1
    <3> QED
      BY <2>1, <3>3, <3>4, <3>5 DEF q
  <2> QED
    BY <2>4, <2>5
<1>5. \A m \in 0..Len(text) : m \in S
  <2> HIDE DEF S
  <2> QED
    BY <1>1, <1>3, <1>4, InductionUpTo
<1> QED
  BY <1>5 DEF K

\* As long as no line is the owner's, the lines seen are the lines kept.
LEMMA KeptAll ==
    ASSUME NEW text \in Seq(Lines), NEW o, NEW n \in 0..Len(text),
           \A j \in 1..n : ~ LineMatches(text[j], o)
    PROVE  LET kept == KeptUpTo(text, o)[n]
           IN  Len(kept) = n /\ \A j \in 1..n : kept[j] = text[j]
<1> DEFINE K == KeptUpTo(text, o)
           S == {m \in 0..n : Len(K[m]) = m}
<1>1. n \in Nat /\ Len(text) \in Nat /\ n =< Len(text)
  OBVIOUS
<1>2. /\ K[0] = << >>
      /\ \A i \in 1..Len(text) : ~ LineMatches(text[i], o) =>
             Len(K[i]) = Len(K[i - 1]) + 1
  BY KeptStep, SMTT(20)
<1>3. \A j \in 1..n : K[n][Len(K[j])] = text[j]
  BY KeptPlaces
<1> HIDE DEF K
<1>4. 0 \in S
  BY <1>1, <1>2
<1>5. ASSUME NEW m \in 0..n, m < n, m \in S
      PROVE  m + 1 \in S
  <2>1. m + 1 \in 1..n /\ m + 1 \in 1..Len(text) /\ (m + 1) - 1 = m /\ m + 1 \in 0..n
    BY <1>1, <1>5
  <2> QED
    BY <1>2, <1>5, <2>1
<1>6. \A m \in 0..n : m \in S
  <2> HIDE DEF S
  <2> QED
    BY <1>1, <1>4, <1>5, InductionUpTo
<1>7. Len(K[n]) = n /\ \A j \in 1..n : Len(K[j]) = j
  BY <1>1, <1>6
<1> QED
  BY <1>3, <1>7 DEF K

-----------------------------------------------------------------------------
(***************************************************************************)
(* One edit                                                                *)
(***************************************************************************)

\* What the edit of a terminated file writes: the lines of the others, and then
\* the record, if there is one.
LEMMA EditedPlaces ==
    ASSUME WordsAssumption,
           NEW text \in Seq(Lines), Terminated(text),
           NEW o \in Words, NEW v \in Words \cup {NoValue}
    PROVE  LET others == RemoveEntries(text, o)
               edited == WriteRecordFile(text, o, v)
           IN  /\ others \in Seq(Lines)
               /\ \A k \in 1..Len(others) : ~ LineMatches(others[k], o)
               /\ v = NoValue => edited = others
               /\ v # NoValue =>
                      /\ edited = Append(others, Record(o, v))
                      /\ edited \in Seq(Lines)
                      /\ Len(edited) = Len(others) + 1
                      /\ \A k \in 1..Len(others) : edited[k] = others[k]
                      /\ edited[Len(others) + 1] = Record(o, v)
                      /\ LineMatches(Record(o, v), o)
<1> DEFINE others == RemoveEntries(text, o)
<1>1. /\ others \in Seq(Lines)
      /\ LinesIn(others) = {line \in LinesIn(text) : ~ LineMatches(line, o)}
  BY RemoveEntriesLines
<1>2. Terminated(others)
  BY <1>1, LinesGiveTermination
<1> HIDE DEF others
<1>3. \A k \in 1..Len(others) : ~ LineMatches(others[k], o)
  BY <1>1 DEF LinesIn
<1>4. EndsWithNewline(others)
  <2>1. others # << >> => Len(others) \in 1..Len(others)
    BY <1>1
  <2> QED
    BY <1>2, <2>1 DEF EndsWithNewline, Terminated
<1>5. v = NoValue => WriteRecordFile(text, o, v) = others
  BY DEF WriteRecordFile, others
<1>6. ASSUME v # NoValue
      PROVE  /\ WriteRecordFile(text, o, v) = Append(others, Record(o, v))
             /\ Record(o, v) \in Lines
             /\ LineMatches(Record(o, v), o)
  <2>1. Record(o, v) \in Lines /\ Record(o, v).owner = o
    BY <1>6, RecordIsLine
  <2> QED
    BY <1>4, <1>6, <2>1, WordsAssumption DEF WriteRecordFile, Joined, LineMatches, others
<1> HIDE DEF others
<1>7. v # NoValue =>
          /\ Append(others, Record(o, v)) \in Seq(Lines)
          /\ Len(Append(others, Record(o, v))) = Len(others) + 1
          /\ \A k \in 1..Len(others) : Append(others, Record(o, v))[k] = others[k]
          /\ Append(others, Record(o, v))[Len(others) + 1] = Record(o, v)
  BY <1>1, <1>6, AppendProperties
<1> QED
  BY <1>1, <1>3, <1>5, <1>6, <1>7 DEF others

\* Every line that is not the owner's has one place in the edited file, in the
\* order it had, and every place but the one of the record is such a line's.
THEOREM EditKeepsTheOthers ==
    ASSUME WordsAssumption,
           NEW text \in Seq(Lines),
           NEW o \in Words, NEW v \in Words \cup {NoValue}
    PROVE  EditKeepsOthers(text, WriteRecordFile(text, o, v), o)
<1> DEFINE edited == WriteRecordFile(text, o, v)
           others == RemoveEntries(text, o)
           K == KeptUpTo(text, o)
           stay == {j \in 1..Len(text) : ~ LineMatches(text[j], o)}
           place == [j \in stay |-> Len(K[j])]
<1> SUFFICES ASSUME Terminated(text)
             PROVE  EditKeepsOthers(text, edited, o)
  BY DEF EditKeepsOthers
<1>1. Terminated(edited)
  BY EditSparesOthers
<1>2. OtherLines(text, o) = stay
  BY DEF OtherLines
<1>3. /\ \A j \in stay : Len(K[j]) \in 1..Len(others) /\ others[Len(K[j])] = text[j]
      /\ \A i, j \in stay : i < j => Len(K[i]) < Len(K[j])
      /\ \A k \in 1..Len(others) : \E j \in stay : Len(K[j]) = k
  <2>1. Len(text) \in 0..Len(text) /\ others = K[Len(text)]
    BY DEF RemoveEntries
  <2> DEFINE n == Len(text)
  <2>2. /\ \A j \in stay : Len(K[j]) \in 1..Len(K[n]) /\ K[n][Len(K[j])] = text[j]
        /\ \A i, j \in stay : i < j => Len(K[i]) < Len(K[j])
        /\ \A k \in 1..Len(K[n]) : \E j \in stay : Len(K[j]) = k
    <3> HIDE DEF place, edited, others
    <3> QED
      BY <2>1, KeptPlaces
  <2> HIDE DEF K, stay, place, edited, others
  <2> QED
    BY <2>1, <2>2
<1> HIDE DEF K, stay
<1>4. /\ OtherLines(edited, o) = 1..Len(others)
      /\ \A k \in 1..Len(others) : edited[k] = others[k]
  <2>1. /\ others \in Seq(Lines)
        /\ \A k \in 1..Len(others) : ~ LineMatches(others[k], o)
        /\ v = NoValue => edited = others
        /\ v # NoValue => /\ Len(edited) = Len(others) + 1
                          /\ \A k \in 1..Len(others) : edited[k] = others[k]
                          /\ edited[Len(others) + 1] = Record(o, v)
                          /\ LineMatches(Record(o, v), o)
    BY EditedPlaces
  <2>2. Len(others) \in Nat
    BY <2>1
  <2> HIDE DEF edited, others
  <2>3. CASE v = NoValue
    BY <2>1, <2>3 DEF OtherLines
  <2>4. CASE v # NoValue
    <3>1. \A k : k \in 1..Len(edited) <=> k \in 1..Len(others) \/ k = Len(others) + 1
      BY <2>1, <2>2, <2>4
    <3>2. ~ (Len(others) + 1 \in 1..Len(others))
      BY <2>2
    <3> QED
      BY <2>1, <2>4, <3>1, <3>2 DEF OtherLines
  <2> QED
    BY <2>3, <2>4
<1> HIDE DEF edited, others
<1>5. place \in [OtherLines(text, o) -> OtherLines(edited, o)]
  BY <1>2, <1>3, <1>4
<1>6. DOMAIN place = stay /\ \A j \in stay : place[j] = Len(K[j])
  OBVIOUS
<1> HIDE DEF place
<1>7. /\ \A i \in DOMAIN place : edited[place[i]] = text[i]
      /\ \A i, j \in DOMAIN place : i < j => place[i] < place[j]
      /\ \A k \in OtherLines(edited, o) : \E i \in DOMAIN place : place[i] = k
  BY <1>3, <1>4, <1>6
<1> QED
  BY <1>1, <1>5, <1>7 DEF EditKeepsOthers

\* git has nothing to commit exactly when the file already ends with the record.
THEOREM NoOpsAreDetected ==
    ASSUME WordsAssumption,
           NEW text \in Seq(Lines),
           NEW o \in Words, NEW v \in Words \cup {NoValue}
    PROVE  NoOpIsDetected(text, WriteRecordFile(text, o, v), o, v)
<1> DEFINE edited == WriteRecordFile(text, o, v)
           others == RemoveEntries(text, o)
           K == KeptUpTo(text, o)
           n == Len(text)
<1> SUFFICES ASSUME Terminated(text)
             PROVE  NoOpIsDetected(text, edited, o, v)
  BY DEF NoOpIsDetected
<1>1. /\ n \in Nat /\ n \in 0..n /\ others = K[n]
      /\ \A i \in 1..n : text[i] \in Lines
      /\ text = << >> <=> n = 0
  BY DEF RemoveEntries
<1>2. \A i \in 1..n : LineMatches(text[i], o) <=> text[i].owner = o
  BY WordsAssumption DEF LineMatches
<1>3. /\ others \in Seq(Lines)
      /\ \A k \in 1..Len(others) : ~ LineMatches(others[k], o)
      /\ v = NoValue => edited = others
      /\ v # NoValue => /\ edited = Append(others, Record(o, v))
                        /\ edited \in Seq(Lines)
                        /\ Len(edited) = Len(others) + 1
                        /\ \A k \in 1..Len(others) : edited[k] = others[k]
                        /\ edited[Len(others) + 1] = Record(o, v)
                        /\ LineMatches(Record(o, v), o)
  BY EditedPlaces
<1>4. Len(others) \in Nat
  BY <1>3
<1>5. CASE v = NoValue
  <2>1. ASSUME text = edited
        PROVE  \A i \in 1..n : text[i].owner # o
    <3>1. text = others
      BY <1>3, <1>5, <2>1
    <3> HIDE DEF others
    <3> QED
      BY <1>2, <1>3, <3>1
  <2>2. ASSUME \A i \in 1..n : text[i].owner # o
        PROVE  text = edited
    <3>1. \A i \in 1..n : ~ LineMatches(text[i], o)
      BY <1>2, <2>2
    <3>2. Len(K[n]) = n /\ \A i \in 1..n : K[n][i] = text[i]
      BY <1>1, <3>1, KeptAll
    <3> HIDE DEF K, others, edited
    <3>3. text = others
      BY <1>1, <1>3, <3>2, SeqEqual
    <3> QED
      BY <1>3, <1>5, <3>3
  <2> HIDE DEF edited
  <2> QED
    BY <1>5, <2>1, <2>2 DEF NoOpIsDetected
<1>6. CASE v # NoValue
  <2>1. ASSUME text = edited
        PROVE  /\ text # << >>
               /\ text[n] = Record(o, v)
               /\ \A i \in 1..(n - 1) : text[i].owner # o
    <3> HIDE DEF others, edited, K
    <3>1. /\ n = Len(others) + 1 /\ n - 1 = Len(others)
          /\ \A k \in 1..(n - 1) : text[k] = others[k]
      BY <1>3, <1>4, <1>6, <2>1
    <3>2. \A k \in 1..(n - 1) : k \in 1..n
      BY <1>1
    <3> QED
      BY <1>1, <1>2, <1>3, <1>4, <1>6, <2>1, <3>1, <3>2
  <2>2. ASSUME text # << >>, text[n] = Record(o, v),
               \A i \in 1..(n - 1) : text[i].owner # o
        PROVE  text = edited
    <3>1. n \in 1..n /\ n - 1 \in 0..n /\ \A k \in 1..(n - 1) : k \in 1..n
      BY <1>1, <2>2
    <3>2. \A i \in 1..(n - 1) : ~ LineMatches(text[i], o)
      BY <1>2, <2>2, <3>1
    <3>3. Len(K[n - 1]) = n - 1 /\ \A i \in 1..(n - 1) : K[n - 1][i] = text[i]
      <4> DEFINE m == n - 1
      <4>1. m \in 0..Len(text) /\ \A j \in 1..m : ~ LineMatches(text[j], o)
        BY <3>1, <3>2
      <4> HIDE DEF m, edited, others
      <4>2. Len(K[m]) = m /\ \A j \in 1..m : K[m][j] = text[j]
        BY <4>1, KeptAll
      <4> QED
        BY <4>2 DEF m
    <3>4. K[n] = K[n - 1]
      <4>1. LineMatches(text[n], o)
        <5>1. LineMatches(Record(o, v), o)
          BY Zenon, <1>3, <1>6
        <5> QED
          BY Zenon, <2>2, <5>1
      <4>2. \A i \in 1..n : LineMatches(text[i], o) => K[i] = K[i - 1]
        BY KeptStep
      <4> HIDE DEF K
      <4> QED
        BY <3>1, <4>1, <4>2
    <3> HIDE DEF K, others, edited
    <3>5. Len(others) = n - 1 /\ \A k \in 1..(n - 1) : others[k] = text[k]
      BY <1>1, <3>3, <3>4
    <3>6. Len(edited) = n /\ \A k \in 1..n : edited[k] = text[k]
      <4>1. \A k \in 1..n : k \in 1..(n - 1) \/ k = n
        BY <1>1
      <4>2. Len(edited) = (n - 1) + 1 /\ (n - 1) + 1 = n
        BY <1>1, <1>3, <1>6, <3>5
      <4> QED
        BY <1>3, <1>6, <2>2, <3>5, <4>1, <4>2
    <3> QED
      BY <1>3, <1>6, <3>6, SeqEqual
  <2> HIDE DEF edited
  <2> QED
    BY <1>6, <2>1, <2>2 DEF NoOpIsDetected
<1> QED
  BY <1>5, <1>6

-----------------------------------------------------------------------------
(***************************************************************************)
(* Any number of edits.  What holds of one holds of them all because each  *)
(* of them leaves a terminated file to the next: that is the invariant.    *)
(***************************************************************************)
EditsInv ==
    /\ before \in Seq(Lines) /\ Terminated(before)
    /\ owner \in Words
    /\ value \in Words \cup {NoValue}
    /\ content = WriteRecordFile(before, owner, value)

LEMMA EditsStart ==
    ASSUME WordsAssumption, EditsAssumption, \A text \in Files : Terminated(text), EditsInit
    PROVE  EditsInv
  BY DEF EditsInit, EditsInv, EditsAssumption

LEMMA EditsStep ==
    ASSUME WordsAssumption, EditsAssumption, EditsInv, [EditsNext]_file
    PROVE  EditsInv'
<1>1. CASE EditsNext
  <2>1. PICK o \in Owners, v \in NewValues \cup {NoValue} : WriteDnsRecord(o, v)
    BY <1>1 DEF EditsNext
  <2>2. content \in Seq(Lines) /\ Terminated(content)
    BY EditSparesOthers DEF EditsInv
  <2> QED
    BY <2>1, <2>2 DEF WriteDnsRecord, EditsInv, EditsAssumption
<1>2. CASE UNCHANGED file
  BY <1>2 DEF EditsInv, file
<1> QED
  BY <1>1, <1>2

LEMMA EditsInvariant ==
    ASSUME \A text \in Files : Terminated(text)
    PROVE  EditsSpec => []EditsInv
<1>1. EditsInit => EditsInv
  BY EditsStart, WordsAssumption, EditsAssumption
<1>2. EditsInv /\ [EditsNext]_file => EditsInv'
  BY EditsStep, WordsAssumption, EditsAssumption
<1> QED
  BY <1>1, <1>2, PTL DEF EditsSpec

\* Where the files of the repository end with a newline, every edit leaves its
\* owner with the value asked for and no other one.
THEOREM EveryEditIsExact ==
    ASSUME \A text \in Files : Terminated(text)
    PROVE  EditsSpec => []ExactEdit
<1>1. EditsSpec => []EditsInv
  BY EditsInvariant
<1>2. EditsInv => ExactEdit
  BY TerminatedEditIsExact, WordsAssumption DEF EditsInv, ExactEdit
<1> QED
  BY <1>1, <1>2, PTL

\* The lines of the others come through every edit in the order they had; a
\* file that is not terminated stands outside the claim.
THEOREM EveryEditKeepsOthers ==
    ASSUME \A text \in Files : Terminated(text)
    PROVE  EditsSpec => []OthersKept
<1>1. EditsSpec => []EditsInv
  BY EditsInvariant
<1>2. EditsInv => OthersKept
  BY EditKeepsTheOthers, WordsAssumption DEF EditsInv, OthersKept
<1> QED
  BY <1>1, <1>2, PTL

\* Every edit that git finds nothing in is told apart by the place of the record.
THEOREM EveryNoOpIsDetected ==
    ASSUME \A text \in Files : Terminated(text)
    PROVE  EditsSpec => []Detected
<1>1. EditsSpec => []EditsInv
  BY EditsInvariant
<1>2. EditsInv => Detected
  BY NoOpsAreDetected, WordsAssumption DEF EditsInv, Detected
<1> QED
  BY <1>1, <1>2, PTL

-----------------------------------------------------------------------------
\* Whatever name is posted, and whichever permission it is held against.
THEOREM EveryNameIsPlaced == AskedSpec => []NamesArePlaced
<1> DEFINE AskedInv == /\ posted \in Seq(Labels)
                       /\ domain \in Seq(Labels) /\ IsDomain(domain)
                       /\ level \in Levels
<1>1. AskedInit => AskedInv
  BY AskedAssumption DEF AskedInit
<1>2. AskedInv /\ [UNCHANGED asked]_asked => AskedInv'
  BY DEF asked
<1>3. AskedInv => NamesArePlaced
  BY RecordIsWhereLookedFor, GrantsKeepToTheirZone, LevelsNeverOverlap DEF NamesArePlaced
<1> QED
  BY <1>1, <1>2, <1>3, PTL DEF AskedSpec

=============================================================================
