---------------------------- MODULE ZoneFileProofs ----------------------------
(***************************************************************************)
(* Where the record of a name goes, for names of any length over any set   *)
(* of labels, and what the edit of a zone file does, for files of any      *)
(* length.                                                                 *)
(*                                                                         *)
(* The loop over the lines is a function on 0..Len(content): induction on  *)
(* its argument goes through the least number at which a claim would fail. *)
(***************************************************************************)
EXTENDS Names, ZoneFile, SequenceTheorems, WellFoundedInduction, TLAPS

(***************************************************************************)
(* Induction on the naturals, stated of sets: the claim to prove is given  *)
(* as the set of the numbers it holds of.                                  *)
(***************************************************************************)
Less == {pair \in Nat \X Nat : pair[1] < pair[2]}

\* Every inhabited set of naturals has a least element.
LEMMA LeastElement ==
    ASSUME NEW T \in SUBSET Nat, T # {}
    PROVE  \E n \in T : \A m \in T : n =< m
<1>1. IsWellFoundedOn(OpToRel(<, Nat), Nat)
  BY NatLessThanWellFounded
<1>2. IsWellFoundedOn(Less, Nat)
  BY Zenon, <1>1 DEF OpToRel, Less
<1>3. PICK n \in T : \A m \in T : ~ (<<m, n>> \in Less)
  BY <1>2, WFMin
<1>4. ASSUME NEW m \in T PROVE n =< m
  <2>1. m \in Nat /\ n \in Nat
    OBVIOUS
  <2>2. m < n => <<m, n>> \in Less
    BY <2>1 DEF Less
  <2> QED
    BY <1>3, <2>1, <2>2
<1> QED
  BY <1>4

\* Induction up to a bound, for a claim given as the set of the numbers it holds of.
LEMMA InductionUpTo ==
    ASSUME NEW n \in Nat, NEW S, 0 \in S,
           \A i \in 0..n : i < n /\ i \in S => i + 1 \in S
    PROVE  \A i \in 0..n : i \in S
<1> DEFINE F == {i \in 0..n : i \notin S}
<1>1. SUFFICES ASSUME F # {} PROVE FALSE
  OBVIOUS
<1>2. F \in SUBSET Nat
  OBVIOUS
<1>3. PICK least \in F : \A m \in F : least =< m
  <2> HIDE DEF F
  <2> QED
    BY <1>1, <1>2, LeastElement
<1>4. least \in 1..n
  OBVIOUS
<1>5. least - 1 \in S
  BY <1>3, <1>4
<1>6. least - 1 \in 0..n /\ least - 1 < n /\ least - 1 + 1 = least
  BY <1>4
<1> QED
  BY <1>5, <1>6

-----------------------------------------------------------------------------
(***************************************************************************)
(* Names                                                                   *)
(***************************************************************************)
LEMMA StripDotsIsAName ==
    ASSUME NEW posted \in Seq(Labels)
    PROVE  StripDots(posted) \in Seq(Labels)
<1> DEFINE Rest(n) == \A i \in (n + 1)..Len(posted) : posted[i] = Empty
           T == {n \in 0..Len(posted) : Rest(n)}
<1>1. Len(posted) \in Nat
  OBVIOUS
<1>2. T \in SUBSET Nat /\ Len(posted) \in T
  BY <1>1
<1>3. PICK n \in T : \A m \in T : n =< m
  <2> HIDE DEF T
  <2> QED
    BY <1>2, LeastElement
<1>4. n \in 0..Len(posted) /\ Rest(n)
  OBVIOUS
<1>5. n > 0 => posted[n] # Empty
  <2> SUFFICES ASSUME n > 0, posted[n] = Empty PROVE FALSE
    OBVIOUS
  <2>1. n - 1 \in 0..Len(posted)
    BY <1>1, <1>4
  <2>2. \A i \in ((n - 1) + 1)..Len(posted) : i = n \/ i \in (n + 1)..Len(posted)
    BY <1>1, <1>4
  <2>3. Rest(n - 1)
    BY <1>4, <2>2
  <2>4. n - 1 \in T
    BY <2>1, <2>3
  <2> HIDE DEF T
  <2> QED
    BY <1>3, <1>4, <2>4
<1> DEFINE last == CHOOSE k \in 0..Len(posted) :
                       /\ \A i \in (k + 1)..Len(posted) : posted[i] = Empty
                       /\ k > 0 => posted[k] # Empty
<1>6. last \in 0..Len(posted)
  BY <1>4, <1>5
<1>7. StripDots(posted) = SubSeq(posted, 1, last)
  BY DEF StripDots
<1> HIDE DEF last
<1>8. SubSeq(posted, 1, last) \in Seq(Labels)
  <2>1. last \in Int /\ \A i \in 1..last : posted[i] \in Labels
    BY <1>1, <1>6
  <2> QED
    BY <2>1, SubSeqProperties
<1> QED
  BY <1>7, <1>8

LEMMA CompliantNames ==
    ASSUME NEW name \in Seq(Labels), IsFqdnCompliant(name)
    PROVE  /\ Len(name) \in Nat /\ Len(name) >= 3
           /\ Tail(name) \in Seq(Labels)
           /\ Len(Tail(name)) = Len(name) - 1
           /\ \A i \in 1..(Len(name) - 1) : Tail(name)[i] = name[i + 1]
           /\ WithoutPrefix(name) = Tail(name)
<1>1. name # << >> /\ Len(name) \in Nat
  BY DEF IsFqdnCompliant
<1>2. /\ Tail(name) \in Seq(Labels)
      /\ Len(Tail(name)) = Len(name) - 1
      /\ \A i \in 1..(Len(name) - 1) : Tail(name)[i] = name[i + 1]
  BY <1>1, HeadTailProperties
<1> QED
  BY <1>1, <1>2 DEF IsFqdnCompliant, IsFqdn, WithoutPrefix

LEMMA ZoneLabels ==
    ASSUME NEW name \in Seq(Labels), Len(name) >= 2
    PROVE  /\ ZoneOf(name) \in Seq(Labels)
           /\ Len(ZoneOf(name)) = 2
           /\ ZoneOf(name)[1] = name[Len(name) - 1]
           /\ ZoneOf(name)[2] = name[Len(name)]
<1> DEFINE n == Len(name)
<1>1. n \in Nat /\ n >= 2
  OBVIOUS
<1>2. CASE n = 2
  BY <1>2 DEF ZoneOf
<1>3. CASE n > 2
  <2>1. ZoneOf(name) = SubSeq(name, n - 1, n)
    BY <1>3 DEF ZoneOf
  <2>2. n - 1 \in Int /\ n \in Int /\ \A i \in (n - 1)..n : name[i] \in Labels
    BY <1>3
  <2> HIDE DEF n
  <2>3. /\ SubSeq(name, n - 1, n) \in Seq(Labels)
        /\ Len(SubSeq(name, n - 1, n)) = IF n - 1 =< n THEN n - (n - 1) + 1 ELSE 0
        /\ \A i \in 1..(n - (n - 1) + 1) :
               SubSeq(name, n - 1, n)[i] = name[(n - 1) + i - 1]
    BY <2>2, SubSeqProperties
  <2>4. /\ 1 \in 1..(n - (n - 1) + 1) /\ 2 \in 1..(n - (n - 1) + 1)
        /\ (n - 1) + 1 - 1 = n - 1 /\ (n - 1) + 2 - 1 = n
        /\ (IF n - 1 =< n THEN n - (n - 1) + 1 ELSE 0) = 2
    BY <1>1
  <2>5. /\ SubSeq(name, n - 1, n)[1] = name[n - 1]
        /\ SubSeq(name, n - 1, n)[2] = name[n]
    BY <2>3, <2>4
  <2> QED
    BY <2>1, <2>3, <2>4, <2>5 DEF n
<1>4. n = 2 \/ n > 2
  <2> HIDE DEF n
  <2> QED
    BY <1>1
<1> QED
  BY Zenon, <1>2, <1>3, <1>4

\* The owner and the zone of an accepted name make up that name, so that the
\* record is found where a validator looks for it.
THEOREM RecordIsWhereLookedFor ==
    ASSUME NEW posted \in Seq(Labels)
    PROVE  RecordNamesTheRequest(posted)
<1> DEFINE name == StripDots(posted)
<1>1. name \in Seq(Labels)
  BY StripDotsIsAName
<1> HIDE DEF name
<1>2. ASSUME IsFqdnCompliant(name)
      PROVE  OwnerOf(name) \o ZoneOf(name) = name
  <2>1. Len(name) \in Nat /\ Len(name) >= 3
    BY <1>1, <1>2, CompliantNames
  <2> DEFINE k == Len(name) - 2
             n == Len(name)
  <2>2. OwnerOf(name) = SubSeq(name, 1, k) /\ ZoneOf(name) = SubSeq(name, k + 1, n)
    BY <2>1 DEF OwnerOf, ZoneOf
  <2>3. 1 \in 1..(Len(name) + 1) /\ k \in (1 - 1)..Len(name) /\ n \in k..Len(name)
    BY <2>1
  <2> HIDE DEF k
  <2>4. SubSeq(name, 1, k) \o SubSeq(name, k + 1, n) = SubSeq(name, 1, n)
    BY <1>1, <2>3, ConcatAdjacentSubSeq
  <2> QED
    BY <1>1, <2>2, <2>4, SubSeqFull
<1> QED
  BY <1>2 DEF RecordNamesTheRequest, name

\* Two accepted names never share a line of a zone file.
THEOREM RecordsAreDistinct ==
    ASSUME NEW one \in Seq(Labels), NEW two \in Seq(Labels),
           IsFqdnCompliant(StripDots(one)), IsFqdnCompliant(StripDots(two)),
           ZoneOf(StripDots(one)) = ZoneOf(StripDots(two)),
           OwnerOf(StripDots(one)) = OwnerOf(StripDots(two))
    PROVE  StripDots(one) = StripDots(two)
  BY RecordIsWhereLookedFor DEF RecordNamesTheRequest

\* A permission on a domain leads to no zone file but the one of that domain.
THEOREM GrantsKeepToTheirZone ==
    ASSUME NEW posted \in Seq(Labels), NEW domain \in Seq(Labels), IsDomain(domain),
           NEW level \in Levels
    PROVE  GrantStaysInItsZone(domain, level, posted)
<1> DEFINE name == StripDots(posted)
<1>1. name \in Seq(Labels)
  BY StripDotsIsAName
<1> HIDE DEF name
<1> SUFFICES ASSUME IsFqdnCompliant(name), Admits(domain, level, name)
             PROVE  ZoneOf(name) = ZoneOf(domain)
  BY DEF GrantStaysInItsZone, name
<1> DEFINE rest == Tail(name)
           n == Len(name)
           d == Len(domain)
<1>2. /\ n \in Nat /\ n >= 3
      /\ rest \in Seq(Labels) /\ Len(rest) = n - 1
      /\ \A i \in 1..(n - 1) : rest[i] = name[i + 1]
      /\ WithoutPrefix(name) = rest
  BY <1>1, CompliantNames
<1>3. d \in Nat /\ d >= 2
  BY DEF IsDomain, IsFqdn
<1> HIDE DEF rest
<1>4. d =< n - 1 /\ \A i \in 1..d : domain[i] = rest[(n - 1) - d + i]
  <2>1. CASE rest = domain
    BY <1>2, <1>3, <2>1
  <2>2. CASE Beneath(rest, domain)
    <3>1. d < n - 1 /\ SubSeq(rest, (n - 1) - d + 1, n - 1) = domain
      BY <1>2, <2>2 DEF Beneath
    <3>2. \A i \in ((n - 1) - d + 1)..(n - 1) : rest[i] \in Labels
      BY <1>2, <1>3, <3>1
    <3> DEFINE m == (n - 1) - d + 1
               e == n - 1
    <3>3. m \in Int /\ e \in Int /\ e - m + 1 = d
      BY <1>2, <1>3
    <3>4. \A i \in 1..(e - m + 1) : SubSeq(rest, m, e)[i] = rest[m + i - 1]
      <4>1. \A i \in m..e : rest[i] \in Labels
        BY <3>2
      <4> HIDE DEF m, e
      <4> QED
        BY <3>3, <4>1, SubSeqProperties
    <3>5. ASSUME NEW i \in 1..d
          PROVE  domain[i] = rest[(n - 1) - d + i]
      <4>1. i \in 1..(e - m + 1) /\ m + i - 1 = (n - 1) - d + i
        BY <1>2, <1>3
      <4>2. SubSeq(rest, m, e) = domain
        BY <3>1
      <4> HIDE DEF m, e
      <4> QED
        BY <3>4, <4>1, <4>2
    <3> QED
      BY <1>2, <1>3, <3>1, <3>5
  <2> QED
    BY <1>2, <2>1, <2>2 DEF Admits
<1>5. domain[d - 1] = name[n - 1] /\ domain[d] = name[n]
  <2>1. d - 1 \in 1..d /\ d \in 1..d
    BY <1>3
  <2>2. domain[d - 1] = rest[n - 2] /\ domain[d] = rest[n - 1]
    <3>1. (n - 1) - d + (d - 1) = n - 2 /\ (n - 1) - d + d = n - 1
      BY <1>2, <1>3
    <3> QED
      BY <1>4, <2>1, <3>1
  <2>3. n - 2 \in 1..(n - 1) /\ n - 1 \in 1..(n - 1)
    BY <1>2
  <2>4. (n - 2) + 1 = n - 1 /\ (n - 1) + 1 = n
    BY <1>2
  <2> QED
    BY <1>2, <2>2, <2>3, <2>4
<1>6. /\ ZoneOf(name) \in Seq(Labels) /\ Len(ZoneOf(name)) = 2
      /\ ZoneOf(name)[1] = name[n - 1] /\ ZoneOf(name)[2] = name[n]
  BY <1>1, <1>2, ZoneLabels
<1>7. /\ ZoneOf(domain) \in Seq(Labels) /\ Len(ZoneOf(domain)) = 2
      /\ ZoneOf(domain)[1] = domain[d - 1] /\ ZoneOf(domain)[2] = domain[d]
  BY <1>3, ZoneLabels
<1>8. \A i \in 1..Len(ZoneOf(name)) : ZoneOf(name)[i] = ZoneOf(domain)[i]
  BY <1>5, <1>6, <1>7
<1> QED
  BY <1>6, <1>7, <1>8, SeqEqual

\* No name is admitted by both levels of permission on one domain.
THEOREM LevelsNeverOverlap ==
    ASSUME NEW posted \in Seq(Labels), NEW domain \in Seq(Labels)
    PROVE  LevelsAreDisjoint(domain, posted)
<1> DEFINE name == StripDots(posted)
<1> HIDE DEF name
<1>1. ~ (Admits(domain, "domain", name) /\ Admits(domain, "subdomain", name))
  BY DEF Admits, Beneath
<1> QED
  BY <1>1 DEF LevelsAreDisjoint, name

-----------------------------------------------------------------------------
(***************************************************************************)
(* The loop over the lines                                                 *)
(***************************************************************************)
Loop(content, owner, n, kept) ==
    kept = [i \in 0..n |->
              IF i = 0 THEN << >>
              ELSE IF LineMatches(content[i], owner) THEN kept[i - 1]
              ELSE Append(kept[i - 1], content[i])]

LEMMA LoopExists ==
    ASSUME NEW content, NEW owner, NEW n \in Nat
    PROVE  \E kept : Loop(content, owner, n, kept)
<1> DEFINE S == {i \in 0..n : \E kept : Loop(content, owner, i, kept)}
<1>1. 0 \in S
  <2> DEFINE k0 == [i \in 0..0 |-> << >>]
  <2>1. Loop(content, owner, 0, k0)
    BY DEF Loop
  <2> QED
    BY <2>1
<1>2. ASSUME NEW m \in 0..n, m < n, m \in S
      PROVE  m + 1 \in S
  <2>1. PICK kept : Loop(content, owner, m, kept)
    BY <1>2
  <2> DEFINE step == IF LineMatches(content[m + 1], owner) THEN kept[m]
                     ELSE Append(kept[m], content[m + 1])
             longer == [i \in 0..(m + 1) |-> IF i = m + 1 THEN step ELSE kept[i]]
  <2>2. \A i \in 0..(m + 1) : longer[i] =
            IF i = 0 THEN << >>
            ELSE IF LineMatches(content[i], owner) THEN longer[i - 1]
            ELSE Append(longer[i - 1], content[i])
    <3> SUFFICES ASSUME NEW i \in 0..(m + 1)
                 PROVE  longer[i] =
                            IF i = 0 THEN << >>
                            ELSE IF LineMatches(content[i], owner) THEN longer[i - 1]
                            ELSE Append(longer[i - 1], content[i])
      OBVIOUS
    <3>1. CASE i = m + 1
      BY <3>1
    <3>2. CASE i # m + 1
      <4>1. i \in 0..m /\ (i # 0 => i - 1 \in 0..m /\ i - 1 # m + 1)
        BY <3>2
      <4>2. longer[i] = kept[i] /\ (i # 0 => longer[i - 1] = kept[i - 1])
        BY <4>1
      <4>3. kept[i] = IF i = 0 THEN << >>
                      ELSE IF LineMatches(content[i], owner) THEN kept[i - 1]
                      ELSE Append(kept[i - 1], content[i])
        BY <2>1, <4>1 DEF Loop
      <4> QED
        BY <4>2, <4>3
    <3> QED
      BY <3>1, <3>2
  <2>3. Loop(content, owner, m + 1, longer)
    <3> HIDE DEF step
    <3> QED
      BY <2>2 DEF Loop
  <2>4. \E kept2 : Loop(content, owner, m + 1, kept2)
    <3> HIDE DEF longer
    <3> QED
      BY <2>3
  <2>5. m + 1 \in 0..n
    BY <1>2
  <2> QED
    BY <2>4, <2>5
<1>3. \A i \in 0..n : i \in S
  <2> HIDE DEF S
  <2> QED
    BY <1>1, <1>2, InductionUpTo
<1> QED
  BY <1>3

LEMMA KeptUpToDef ==
    ASSUME NEW content \in Seq(Lines), NEW owner
    PROVE  Loop(content, owner, Len(content), KeptUpTo(content, owner))
<1>1. Len(content) \in Nat
  OBVIOUS
<1>2. \E kept : Loop(content, owner, Len(content), kept)
  BY <1>1, LoopExists
<1> QED
  BY <1>2 DEF Loop, KeptUpTo

-----------------------------------------------------------------------------
LinesIn(content) == {content[j] : j \in 1..Len(content)}

OtherLinesUpTo(content, owner, n) ==
    {content[j] : j \in {k \in 1..n : ~ LineMatches(content[k], owner)}}

LEMMA LinesInAppend ==
    ASSUME NEW content \in Seq(Lines), NEW line \in Lines
    PROVE  /\ Append(content, line) \in Seq(Lines)
           /\ LinesIn(Append(content, line)) = LinesIn(content) \cup {line}
<1> DEFINE longer == Append(content, line)
<1>1. /\ longer \in Seq(Lines)
      /\ Len(longer) = Len(content) + 1
      /\ \A j \in 1..Len(content) : longer[j] = content[j]
      /\ longer[Len(content) + 1] = line
  BY AppendProperties
<1>2. 1..Len(longer) = 1..Len(content) \cup {Len(content) + 1}
  BY <1>1
<1> HIDE DEF longer
<1>3. LinesIn(longer) = LinesIn(content) \cup {line}
  BY <1>1, <1>2 DEF LinesIn
<1> QED
  BY <1>1, <1>3 DEF longer

\* The loop keeps the lines of the others, and nothing else.
LEMMA KeptLines ==
    ASSUME NEW content \in Seq(Lines), NEW owner, NEW n \in 0..Len(content)
    PROVE  LET kept == KeptUpTo(content, owner)[n]
           IN  /\ kept \in Seq(Lines)
               /\ LinesIn(kept) = OtherLinesUpTo(content, owner, n)
<1> DEFINE K == KeptUpTo(content, owner)
           S == {i \in 0..Len(content) :
                    /\ K[i] \in Seq(Lines)
                    /\ LinesIn(K[i]) = OtherLinesUpTo(content, owner, i)}
<1>1. Len(content) \in Nat
  OBVIOUS
<1>2. \A i \in 0..Len(content) : K[i] =
          IF i = 0 THEN << >>
          ELSE IF LineMatches(content[i], owner) THEN K[i - 1]
          ELSE Append(K[i - 1], content[i])
  <2>1. Loop(content, owner, Len(content), K)
    BY KeptUpToDef
  <2> HIDE DEF K
  <2> QED
    BY <2>1 DEF Loop
<1> HIDE DEF K
<1>3. 0 \in S
  <2>1. K[0] = << >>
    BY <1>1, <1>2
  <2>2. K[0] \in Seq(Lines) /\ LinesIn(K[0]) = {}
    BY <2>1 DEF LinesIn
  <2>3. OtherLinesUpTo(content, owner, 0) = {}
    BY DEF OtherLinesUpTo
  <2>4. 0 \in 0..Len(content)
    BY <1>1
  <2> QED
    BY <2>2, <2>3, <2>4
<1>4. ASSUME NEW i \in 0..Len(content), i < Len(content), i \in S
      PROVE  i + 1 \in S
  <2>1. /\ i + 1 \in 0..Len(content) /\ i + 1 # 0 /\ (i + 1) - 1 = i
        /\ i + 1 \in 1..Len(content)
        /\ 1..(i + 1) = 1..i \cup {i + 1}
    BY <1>1, <1>4
  <2>2. content[i + 1] \in Lines
    BY <2>1
  <2>3. CASE LineMatches(content[i + 1], owner)
    <3>1. K[i + 1] = K[i]
      BY <1>2, <2>1, <2>3
    <3>2. OtherLinesUpTo(content, owner, i + 1) = OtherLinesUpTo(content, owner, i)
      BY <2>1, <2>3 DEF OtherLinesUpTo
    <3> QED
      BY <1>4, <2>1, <3>1, <3>2
  <2>4. CASE ~ LineMatches(content[i + 1], owner)
    <3>1. K[i + 1] = Append(K[i], content[i + 1])
      BY <1>2, <2>1, <2>4
    <3>2. OtherLinesUpTo(content, owner, i + 1)
              = OtherLinesUpTo(content, owner, i) \cup {content[i + 1]}
      BY <2>1, <2>4 DEF OtherLinesUpTo
    <3>3. /\ K[i + 1] \in Seq(Lines)
          /\ LinesIn(K[i + 1]) = LinesIn(K[i]) \cup {content[i + 1]}
      BY <1>4, <2>2, <3>1, LinesInAppend
    <3> QED
      BY <1>4, <2>1, <3>2, <3>3
  <2> QED
    BY <2>3, <2>4
<1>5. \A i \in 0..Len(content) : i \in S
  <2> HIDE DEF S
  <2> QED
    BY <1>1, <1>3, <1>4, InductionUpTo
<1> QED
  BY <1>5 DEF K

LEMMA RemoveEntriesLines ==
    ASSUME NEW content \in Seq(Lines), NEW owner
    PROVE  /\ RemoveEntries(content, owner) \in Seq(Lines)
           /\ LinesIn(RemoveEntries(content, owner))
                  = {line \in LinesIn(content) : ~ LineMatches(line, owner)}
<1>1. Len(content) \in 0..Len(content)
  OBVIOUS
<1>2. OtherLinesUpTo(content, owner, Len(content))
          = {line \in LinesIn(content) : ~ LineMatches(line, owner)}
  BY DEF OtherLinesUpTo, LinesIn
<1> QED
  BY <1>1, <1>2, KeptLines DEF RemoveEntries

-----------------------------------------------------------------------------
LEMMA LinesGiveTexts ==
    ASSUME NEW content, NEW owner
    PROVE  TextsOf(content, owner)
               = {line.text : line \in {l \in LinesIn(content) : LineMatches(l, owner)}}
  BY DEF TextsOf, LinesIn

LEMMA LinesGiveTermination ==
    ASSUME NEW content
    PROVE  Terminated(content) <=> \A line \in LinesIn(content) : line.ended
  BY DEF Terminated, LinesIn

LEMMA RecordIsLine ==
    ASSUME NEW owner \in Words, NEW value \in Words
    PROVE  /\ Record(owner, value) \in Lines
           /\ Record(owner, value).owner = owner
           /\ Record(owner, value).text = <<value>>
           /\ Record(owner, value).ended = TRUE
  BY DEF Record, Line, Lines

\* The lines of an edited file: those of the other owners, and the record.
LEMMA EditedLines ==
    ASSUME NEW content \in Seq(Lines), Terminated(content),
           NEW owner \in Words, NEW value \in Words \cup {NoValue}
    PROVE  LET edited == WriteRecordFile(content, owner, value)
           IN  /\ edited \in Seq(Lines)
               /\ LinesIn(edited) = {line \in LinesIn(content) : ~ LineMatches(line, owner)}
                      \cup (IF value = NoValue THEN {} ELSE {Record(owner, value)})
<1> DEFINE others == RemoveEntries(content, owner)
<1>1. /\ others \in Seq(Lines)
      /\ LinesIn(others) = {line \in LinesIn(content) : ~ LineMatches(line, owner)}
  BY RemoveEntriesLines
<1>2. Terminated(others)
  BY <1>1, LinesGiveTermination
<1> HIDE DEF others
<1>3. EndsWithNewline(others)
  <2>1. others # << >> => Len(others) \in 1..Len(others)
    BY <1>1
  <2> QED
    BY <1>2, <2>1 DEF EndsWithNewline, Terminated
<1>4. CASE value = NoValue
  BY <1>1, <1>4 DEF WriteRecordFile, others
<1>5. CASE value # NoValue
  <2>1. WriteRecordFile(content, owner, value) = Append(others, Record(owner, value))
    BY <1>3, <1>5 DEF WriteRecordFile, Joined, others
  <2>2. Record(owner, value) \in Lines
    BY <1>5, RecordIsLine
  <2> QED
    BY <1>1, <1>5, <2>1, <2>2, LinesInAppend
<1> QED
  BY <1>4, <1>5

\* The edit of a terminated file leaves its owner with the value asked for and
\* no other, however many lines the owner had.
THEOREM TerminatedEditIsExact ==
    ASSUME WordsAssumption,
           NEW content \in Seq(Lines), Terminated(content),
           NEW owner \in Words, NEW value \in Words \cup {NoValue}
    PROVE  EditIsExact(content, WriteRecordFile(content, owner, value), owner, value)
<1> DEFINE edited == WriteRecordFile(content, owner, value)
           mine == {line \in LinesIn(edited) : LineMatches(line, owner)}
<1>1. LinesIn(edited) = {line \in LinesIn(content) : ~ LineMatches(line, owner)}
          \cup (IF value = NoValue THEN {} ELSE {Record(owner, value)})
  BY EditedLines
<1>2. TextsOf(edited, owner) = {line.text : line \in mine}
  BY LinesGiveTexts
<1>3. CASE value = NoValue
  <2>1. mine = {}
    BY <1>1, <1>3
  <2> QED
    BY <1>2, <1>3, <2>1 DEF EditIsExact, Requested
<1>4. CASE value # NoValue
  <2>1. LineMatches(Record(owner, value), owner)
    BY <1>4, RecordIsLine, WordsAssumption DEF LineMatches
  <2>2. mine = {Record(owner, value)}
    BY <1>1, <1>4, <2>1
  <2>3. Record(owner, value).text = <<value>>
    BY <1>4, RecordIsLine
  <2>4. TextsOf(edited, owner) = {<<value>>}
    <3> HIDE DEF mine, edited
    <3> QED
      BY <1>2, <2>2, <2>3
  <2> QED
    BY <1>4, <2>4 DEF EditIsExact, Requested
<1> QED
  BY <1>3, <1>4

\* No other owner's texts change, and the file stays terminated.
THEOREM EditSparesOthers ==
    ASSUME NEW content \in Seq(Lines), Terminated(content),
           NEW owner \in Words, NEW value \in Words \cup {NoValue}
    PROVE  LET edited == WriteRecordFile(content, owner, value)
           IN  /\ edited \in Seq(Lines)
               /\ Terminated(edited)
               /\ \A other : other # owner => TextsOf(edited, other) = TextsOf(content, other)
<1> DEFINE edited == WriteRecordFile(content, owner, value)
           new == IF value = NoValue THEN {} ELSE {Record(owner, value)}
<1>1. /\ edited \in Seq(Lines)
      /\ LinesIn(edited) = {line \in LinesIn(content) : ~ LineMatches(line, owner)} \cup new
  BY EditedLines
<1>2. \A line \in new : line.ended /\ line.owner = owner
  BY RecordIsLine
<1> HIDE DEF edited, new
<1>3. Terminated(edited)
  BY <1>1, <1>2, LinesGiveTermination
<1>4. ASSUME NEW other, other # owner
      PROVE  TextsOf(edited, other) = TextsOf(content, other)
  <2>1. {l \in LinesIn(edited) : LineMatches(l, other)}
            = {l \in LinesIn(content) : LineMatches(l, other)}
    BY <1>1, <1>2, <1>4 DEF LineMatches
  <2> QED
    BY <2>1, LinesGiveTexts
<1> QED
  BY <1>1, <1>3, <1>4 DEF edited

=============================================================================
