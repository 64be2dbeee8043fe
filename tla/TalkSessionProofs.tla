------------------------- MODULE TalkSessionProofs -------------------------
(***************************************************************************)
(* What a seat may say in a phase, for any number of seats and any limits. *)
(***************************************************************************)
EXTENDS TalkSession, FiniteSetTheorems, SequenceTheorems, TLAPS

(* Lengths.                                                                *)

LEMMA TrimBounds ==
  ASSUME NEW n \in Nat, NEW l \in Int
  PROVE  /\ Trim(n, l) \in Nat \cup {Panic}
         /\ Trim(n, l) <= n
         /\ Trim(n, l) # Panic /\ ~Whole(n, l) => Trim(n, l) <= l
         /\ l >= 0 => Trim(n, l) \in Nat
         /\ Whole(n, l) \in BOOLEAN
  BY DEF Trim, Whole, Panic

\* s is a talk cut from c characters before a mention and m after it.
CutFrom(s, c, m, w) ==
  /\ s.whole = w
  /\ s.common \in Nat /\ s.common <= c
  /\ s.rest \in Nat \cup {None} /\ OrZero(s.rest) <= OrZero(m)
  /\ ~TooLong(s)

LEMMA CutBounds ==
  ASSUME NEW c \in Nat, NEW m \in Nat \cup {None}, NEW r \in Int, NEW w \in BOOLEAN,
         NEW s, s = Cut(c, m, r, w)
  PROVE  s.left = r /\ CutFrom(s, c, m, w)
  <1> DEFINE o == OrZero(m)
  <1>1. o \in Nat /\ None \notin Int
    BY LengthAssumption DEF OrZero
  <1>2. CASE PerTalk = None \/ c + o <= PerTalk
    <2>1. s = [common |-> c, rest |-> m, left |-> r, whole |-> w]
      BY <1>2 DEF Cut
    <2>2. ~TooLong(s)
      <3>1. s.common = c /\ OrZero(s.rest) = o
        BY <2>1
      <3>2. PerTalk # None => PerTalk \in Nat /\ c + o <= PerTalk
        BY <1>2, LengthAssumption
      <3> QED BY <1>1, <3>1, <3>2 DEF TooLong
    <2> QED BY <1>1, <1>2, <2>1, <2>2 DEF CutFrom
  <1>3. CASE PerTalk # None /\ c + o > PerTalk /\ c > PerTalk
    <2>1. PerTalk \in Nat
      BY <1>3, LengthAssumption
    <2>2. PICK k \in Nat : k = PerTalk
      BY <2>1
    <2>3. PICK h : h = Trim(c, k)
      OBVIOUS
    <2>4. s = [common |-> h, rest |-> None, left |-> r, whole |-> w]
      <3>1. s = [[common |-> c, rest |-> m, left |-> r, whole |-> w]
                  EXCEPT !.common = h, !.rest = None]
        BY <1>1, <1>3, <2>1, <2>2, <2>3 DEF Cut
      <3> QED BY <3>1
    <2>5. h \in Nat /\ h <= c /\ (counting # "nonspace" \/ k > 0 => h <= k)
      <3>1. h \in Nat /\ h <= c
        BY <2>3, TrimBounds
      <3>2. counting # "nonspace" \/ k > 0 => ~Whole(c, k)
        BY DEF Whole
      <3>3. ~Whole(c, k) => h <= k
        BY <2>3, <3>1, TrimBounds DEF Panic
      <3> QED BY <3>1, <3>2, <3>3
    <2>6. s.left = r /\ s.common = h /\ s.rest = None /\ s.whole = w
      BY <2>4
    <2>7. ~TooLong(s)
      BY <2>2, <2>5, <2>6 DEF TooLong, OrZero
    <2> QED BY <1>1, <2>5, <2>6, <2>7 DEF CutFrom, OrZero
  <1>4. CASE PerTalk # None /\ c + o > PerTalk /\ c <= PerTalk
    <2>1. PerTalk \in Nat /\ PerTalk - c \in Nat
      BY <1>4, LengthAssumption
    <2>2. PICK k \in Nat : k = PerTalk - c
      BY <2>1
    <2>3. PICK h : h = Trim(o, k)
      OBVIOUS
    <2>4. s = [common |-> c, rest |-> h, left |-> r, whole |-> w]
      BY <1>1, <1>4, <2>1, <2>2, <2>3 DEF Cut
    <2>5. /\ h \in Nat /\ h <= o /\ OrZero(h) = h
          /\ counting # "nonspace" \/ k > 0 => h <= k
      <3>1. h \in Nat /\ h <= o
        BY <1>1, <2>3, TrimBounds
      <3>2. counting # "nonspace" \/ k > 0 => ~Whole(o, k)
        BY DEF Whole
      <3>3. ~Whole(o, k) => h <= k
        BY <1>1, <2>3, <3>1, TrimBounds DEF Panic
      <3> QED BY <1>1, <3>1, <3>2, <3>3 DEF OrZero
    <2>6. s.left = r /\ s.common = c /\ s.rest = h /\ s.whole = w
      BY <2>4
    <2>7. ~TooLong(s)
      <3>1. counting # "nonspace" \/ c # PerTalk => c + h <= PerTalk
        BY <2>1, <2>2, <2>5
      <3> QED BY <2>1, <2>5, <2>6, <3>1 DEF TooLong
    <2> QED BY <1>1, <2>5, <2>6, <2>7 DEF CutFrom
  <1>5. \/ PerTalk = None \/ c + o <= PerTalk
        \/ PerTalk # None /\ c + o > PerTalk /\ c > PerTalk
        \/ PerTalk # None /\ c + o > PerTalk /\ c <= PerTalk
    BY <1>1, LengthAssumption
  <1> QED BY <1>2, <1>3, <1>4, <1>5

Remains == Int \cup {None}

\* What processText leaves of a text, and of the length of its seat.
LEMMA TextBounds ==
  ASSUME NEW t \in Speech, NEW remain \in Remains,
         NEW s, s = ProcessText(t, remain), ~Panics(s)
  PROVE  /\ s.left \in Int /\ s.whole \in BOOLEAN /\ Beyond(s) \in Nat
         /\ s.common \in Nat /\ OrZero(s.rest) \in Nat
         /\ ~TooLong(s)
         /\ remain # None => s.left <= remain /\ (s.whole => s.left <= 0)
         /\ ~s.whole /\ (remain = None \/ remain <= 0) => Beyond(s) = 0
         /\ ~s.whole /\ remain # None /\ remain > 0 =>
              /\ Beyond(s) <= remain
              /\ s.left > 0 => Beyond(s) + s.left <= remain
  <1>1. PICK r \in Int, b \in Nat, x \in Nat, y \in Nat, k \in Nat :
          /\ r = OrZero(remain) /\ b = OrZero(BaseLength)
          /\ x = t.before /\ y = OrZero(t.after) /\ k = MentionLength
    BY LengthAssumption, CountAssumption DEF Remains, OrZero
  <1>2. t.after \in Nat \cup {None} /\ None \notin Int
    BY LengthAssumption
  <1>3. PICK r1 \in Int : /\ r1 = r - (IF remain = None THEN 0 ELSE Above(x, b))
                          /\ r1 <= r
    BY DEF Above
  <1>4. PICK c, wc : c = Trim(x, b + r) /\ wc = Whole(x, b + r)
    OBVIOUS
  <1>5. PICK m, wm : m = Trim(y, k + r1) /\ wm = Whole(y, k + r1)
    OBVIOUS
  <1>c. /\ c \in Nat \cup {Panic} /\ wc \in BOOLEAN /\ c <= x
        /\ c # Panic /\ ~wc => c <= b + r
        /\ wc => b + r <= 0
    <2>1. PICK l \in Int : l = b + r
      OBVIOUS
    <2>2. c = Trim(x, l) /\ wc = Whole(x, l)
      BY <1>4, <2>1
    <2> QED BY <2>1, <2>2, TrimBounds DEF Whole
  <1>m. /\ m \in Nat \cup {Panic} /\ wm \in BOOLEAN /\ m <= y
        /\ m # Panic /\ ~wm => m <= k + r1
        /\ wm => k + r1 <= 0
    <2>1. PICK l \in Int : l = k + r1
      OBVIOUS
    <2>2. m = Trim(y, l) /\ wm = Whole(y, l)
      BY <1>5, <2>1
    <2> QED BY <2>1, <2>2, TrimBounds DEF Whole
  <1> DEFINE limited == LengthPerAgent # None \/ BaseLength # None
  <1>0. CASE ~limited
    <2>1. s = Cut(0, None, r, FALSE)
      BY <1>0, <1>1 DEF ProcessText
    <2>2. s.left = r /\ CutFrom(s, 0, None, FALSE)
      <3>1. PICK n \in Nat \cup {None} : n = None
        OBVIOUS
      <3>2. s = Cut(0, n, r, FALSE)
        BY <2>1, <3>1
      <3>3. s.left = r /\ CutFrom(s, 0, n, FALSE)
        BY <3>2, CutBounds
      <3> QED BY <3>1, <3>3
    <2>3. s.common = 0 /\ OrZero(s.rest) = 0
      BY <2>2, <1>2 DEF CutFrom, OrZero
    <2>4. Beyond(s) = 0
      BY <1>1, <2>3 DEF Beyond, Above
    <2>5. s.whole = FALSE
      BY <2>2 DEF CutFrom
    <2>6. ~TooLong(s)
      BY <2>2 DEF CutFrom
    <2>7. s.common \in Nat /\ OrZero(s.rest) \in Nat
      BY <2>3
    <2>8. s.left \in Int /\ (remain # None => s.left = remain)
      BY <1>1, <2>2 DEF OrZero
    <2>9. remain # None => s.left <= remain /\ (s.whole => s.left <= 0)
      BY <2>5, <2>8 DEF Remains
    <2>10. ~s.whole /\ (remain = None \/ remain <= 0) => Beyond(s) = 0
      BY <2>4
    <2>11. ASSUME remain # None, remain > 0
           PROVE  /\ Beyond(s) <= remain
                  /\ s.left > 0 => Beyond(s) + s.left <= remain
      <3>1. PICK l \in Int : l = remain
        BY <2>11 DEF Remains
      <3>2. s.left = l /\ l > 0
        BY <2>8, <2>11, <3>1
      <3>3. 0 <= l /\ 0 + l <= l
        BY <3>2
      <3> QED BY <2>4, <3>1, <3>2, <3>3
    <2>12. Beyond(s) \in Nat
      BY <2>4
    <2>13. s.whole \in BOOLEAN
      BY <2>5
    <2> QED BY <2>13, <2>6, <2>7, <2>8, <2>9, <2>10, <2>11, <2>12
  <1>6. CASE limited /\ c = Panic
    <2>1. s = [common |-> Panic, rest |-> None, left |-> r, whole |-> FALSE]
      BY <1>1, <1>4, <1>6 DEF ProcessText
    <2> QED BY <2>1 DEF Panics
  <1>7. CASE limited /\ c # Panic /\ t.after = None
    <2>1. s = Cut(c, None, r1, wc)
      BY <1>1, <1>3, <1>4, <1>7 DEF ProcessText
    <2>2. c \in Nat /\ wc \in BOOLEAN
      BY <1>c, <1>7
    <2>3. s.left = r1 /\ CutFrom(s, c, None, wc)
      <3>1. PICK n \in Nat \cup {None} : n = None
        OBVIOUS
      <3>2. s = Cut(c, n, r1, wc)
        BY <2>1, <3>1
      <3>3. s.left = r1 /\ CutFrom(s, c, n, wc)
        BY <2>2, <3>2, CutBounds
      <3> QED BY <3>1, <3>3
    <2>4. PICK sc \in Nat, sm \in Nat :
            sc = s.common /\ sm = OrZero(s.rest) /\ sc <= c /\ sm = 0
      BY <2>3 DEF CutFrom, OrZero
    <2>5. Beyond(s) = Above(sc, b) + Above(sm, k)
      BY <1>1, <2>4 DEF Beyond
    <2>6. ~s.whole => c <= b + r
      BY <1>c, <1>7, <2>3 DEF CutFrom
    <2>7. Beyond(s) \in Nat
      BY <2>5 DEF Above
    <2>8. ASSUME ~s.whole, remain # None
          PROVE  /\ remain <= 0 => Beyond(s) = 0
                 /\ remain > 0 => /\ Beyond(s) <= remain
                                  /\ r1 > 0 => Beyond(s) + r1 <= remain
      <3>1. r = remain /\ r1 = r - Above(x, b)
        BY <1>1, <1>3, <2>8 DEF OrZero
      <3>2. c \in Nat /\ c <= x /\ c <= b + r /\ r1 = r1 - Above(0, k)
        BY <1>c, <1>7, <2>6, <2>8 DEF Above
      <3> QED BY <2>4, <2>5, <3>1, <3>2 DEF Above
    <2>9. ASSUME ~s.whole, remain = None PROVE Beyond(s) = 0
      <3>1. r = 0 /\ r1 = 0
        BY <1>1, <1>3, <2>9 DEF OrZero
      <3> QED BY <1>c, <2>4, <2>5, <2>6, <2>9, <3>1 DEF Above
    <2>10. s.whole => r1 <= 0
      BY <1>c, <1>3, <2>3 DEF CutFrom
    <2> QED BY <1>1, <1>2, <1>3, <2>2, <2>3, <2>7, <2>8, <2>9, <2>10 DEF CutFrom, OrZero, Remains
  <1>8. CASE limited /\ c # Panic /\ t.after # None /\ m = Panic
    <2>1. s = [common |-> c, rest |-> Panic, left |-> r1, whole |-> FALSE]
      BY <1>1, <1>3, <1>4, <1>5, <1>8 DEF ProcessText
    <2> QED BY <2>1 DEF Panics
  <1>9. CASE limited /\ c # Panic /\ t.after # None /\ m # Panic
    <2>1. y = t.after
      BY <1>1, <1>9 DEF OrZero
    <2>2. PICK r2 \in Int : /\ r2 = r1 - (IF remain = None THEN 0 ELSE Above(m, k))
                            /\ r2 <= r1
      BY <1>m, <1>9 DEF Above
    <2>3. s = Cut(c, m, r2, wc \/ wm)
      BY <1>1, <1>3, <1>4, <1>5, <1>9, <2>1, <2>2 DEF ProcessText, MentionCost
    <2>4. s.left = r2 /\ CutFrom(s, c, m, wc \/ wm)
      BY <1>c, <1>m, <1>9, <2>3, CutBounds
    <2>5. PICK sc \in Nat, sm \in Nat :
            sc = s.common /\ sm = OrZero(s.rest) /\ sc <= c /\ sm <= m
      BY <1>m, <1>2, <1>9, <2>4 DEF CutFrom, OrZero
    <2>6. Beyond(s) = Above(sc, b) + Above(sm, k)
      BY <1>1, <2>5 DEF Beyond
    <2>7. ~s.whole => c <= b + r /\ m <= k + r1
      BY <1>c, <1>m, <1>9, <2>4 DEF CutFrom
    <2>8. Beyond(s) \in Nat
      BY <2>6 DEF Above
    <2>9. ASSUME ~s.whole, remain # None
          PROVE  /\ remain <= 0 => Beyond(s) = 0
                 /\ remain > 0 => /\ Beyond(s) <= remain
                                  /\ r2 > 0 => Beyond(s) + r2 <= remain
      <3>1. r = remain /\ r1 = r - Above(x, b) /\ r2 = r1 - Above(m, k)
        BY <1>1, <1>3, <2>9, <2>2 DEF OrZero
      <3> QED BY <1>c, <1>m, <1>9, <2>5, <2>6, <2>7, <2>9, <3>1 DEF Above
    <2>10. ASSUME ~s.whole, remain = None PROVE Beyond(s) = 0
      <3>1. r = 0 /\ r1 = 0
        BY <1>1, <1>3, <2>10 DEF OrZero
      <3> QED BY <1>c, <1>m, <1>9, <2>5, <2>6, <2>7, <2>10, <3>1 DEF Above
    <2>11. s.whole => r2 <= 0
      <3>1. s.whole = (wc \/ wm)
        BY <2>4 DEF CutFrom
      <3> QED BY <1>c, <1>m, <1>3, <2>2, <3>1
    <2> QED
      BY <1>1, <1>2, <1>3, <1>c, <1>m, <2>2, <2>4, <2>8, <2>9, <2>10, <2>11
      DEF CutFrom, OrZero, Remains
  <1> QED BY <1>0, <1>6, <1>7, <1>8, <1>9
-----------------------------------------------------------------------------
(* The phase.                                                              *)

\* TypeOK, and what TypeOK leaves out.
TypedInv ==
  /\ TypeOK
  /\ counting \in {"nonspace", "chars", "words"}
  /\ order \in [1..Cardinality(Seats) -> Seats]
  /\ talkChan \in Seq([seat : Seats, text : Texts])
  /\ said \in [Seats -> Nat] /\ excess \in [Seats -> Nat] /\ tooLong \in BOOLEAN
  /\ outrun \subseteq Seats

\* What is said and what may still be said is no more than per_agent, and one
\* utterance is left for the seat that is asked, even if it breaks meanwhile.
CountInv ==
  /\ \A a \in Seats : said[a] <= PerAgent /\ said[a] + count[a] <= PerAgent
  /\ pc = "asked" => said[Speaker] < PerAgent /\ count[Speaker] >= 0

\* A seat that has ended may not talk, and is not asked.
EndedInv ==
  /\ \A a \in ended : count[a] <= 0
  /\ pc = "asked" => Speaker \notin ended

\* What a seat has said beyond the free lengths it has paid for.
LengthInv ==
  /\ ~tooLong
  /\ LengthPerAgent # None => \A a \in Seats :
       /\ excess[a] <= LengthPerAgent
       /\ length[a] # None /\ length[a] > 0 => excess[a] + length[a] <= LengthPerAgent

\* A seat that outran its length may not talk, and is not asked.  One without
\* a length has been broken and has no utterances left.
OutrunInv ==
  LengthPerAgent # None =>
    /\ \A a \in Seats : length[a] = None => count[a] <= 0
    /\ \A a \in outrun : ~CanTalk(a)
    /\ pc = "asked" => Speaker \notin outrun

IInv == TypedInv /\ CountInv /\ EndedInv /\ LengthInv /\ OutrunInv

LEMMA SeatsFinite == Cardinality(Seats) \in Nat /\ Cardinality(Seats) >= 2
  BY SeatAssumption, FS_CardinalityType

LEMMA InitInv == Init => IInv
  <1> SUFFICES ASSUME Init PROVE IInv
    OBVIOUS
  <1>1. TypeOK
    <2>1. /\ PerAgent \in Nat /\ MaxSkip \in Nat /\ Breaks \in Nat /\ Sends \in Nat
          /\ ChanCap \in Nat /\ PerDay \in Nat /\ PerDay >= 1
      BY CountAssumption
    <2>2. at \in (1..PerDay) \X (1..Cardinality(Seats))
      BY <2>1, SeatsFinite DEF Init
    <2>3. count \in [Seats -> -1..PerAgent] /\ skip \in [Seats -> 0..MaxSkip]
      BY <2>1 DEF Init
    <2>4. length \in [Seats -> Int \cup {None}]
      BY LengthAssumption DEF Init
    <2>5. sends \in [Seats -> 0..Sends] /\ breaks \in 0..Breaks /\ Len(talkChan) <= ChanCap
      BY <2>1 DEF Init
    <2> QED BY <2>2, <2>3, <2>4, <2>5 DEF Init, TypeOK
  <1>2. TypedInv
    <2>1. order \in [1..Cardinality(Seats) -> Seats]
      BY DEF Init
    <2>2. counting \in {"nonspace", "chars", "words"}
      BY CountingAssumption DEF Init
    <2>3. talkChan \in Seq([seat : Seats, text : Texts])
      BY DEF Init
    <2>4. /\ said \in [Seats -> Nat] /\ excess \in [Seats -> Nat] /\ tooLong \in BOOLEAN
          /\ outrun \subseteq Seats
      BY DEF Init
    <2> QED BY <1>1, <2>1, <2>2, <2>3, <2>4 DEF TypedInv
  <1>3. CountInv /\ EndedInv
    BY CountAssumption DEF Init, CountInv, EndedInv
  <1>4. LengthInv
    BY LengthAssumption DEF Init, LengthInv
  <1>5. OutrunInv
    BY DEF Init, OutrunInv
  <1> QED BY <1>2, <1>3, <1>4, <1>5 DEF IInv

LEMMA Kinds ==
  ASSUME NEW t \in Texts
  PROVE  /\ t.kind = "say" <=> t \in Speech
         /\ t.kind = "say" => t \notin {Over, Skip, ForceSkip}
         /\ t.kind # "say" => t \in {Over, Skip, ForceSkip}
         /\ Over # Skip /\ Over # ForceSkip /\ Skip # ForceSkip
         /\ Over.kind # "say" /\ Skip.kind # "say" /\ ForceSkip.kind # "say"
  BY LengthAssumption DEF Texts, Over, Skip, ForceSkip

\* A talk that may be recorded keeps the counts and the lengths.
Sayable(a, t) ==
  t = Over \/ /\ a \notin ended /\ said[a] < PerAgent /\ count[a] >= 0
              /\ LengthPerAgent # None => a \notin outrun

RecordTyped ==
  /\ count' \in [Seats -> -1..PerAgent] /\ skip' \in [Seats -> 0..MaxSkip]
  /\ length' \in [Seats -> Int \cup {None}]
  /\ said' \in [Seats -> Nat] /\ excess' \in [Seats -> Nat]
  /\ tooLong' \in BOOLEAN /\ ended' \subseteq Seats

LEMMA RecordCounts ==
  ASSUME IInv, NEW a \in Seats, NEW t \in Texts, Record(a, t), Sayable(a, t)
  PROVE  /\ count' \in [Seats -> -1..PerAgent] /\ said' \in [Seats -> Nat]
         /\ ended' \subseteq Seats
         /\ \A b \in Seats : said'[b] <= PerAgent /\ said'[b] + count'[b] <= PerAgent
         /\ \A b \in ended' : count'[b] <= 0
         /\ \A b \in ended : said'[b] = said[b]
  <1>1. /\ count \in [Seats -> -1..PerAgent] /\ said \in [Seats -> Nat]
        /\ ended \subseteq Seats /\ PerAgent \in Nat
    BY CountAssumption DEF IInv, TypedInv, TypeOK
  <1>2. /\ \A b \in Seats : said[b] <= PerAgent /\ said[b] + count[b] <= PerAgent
        /\ \A b \in ended : count[b] <= 0
    BY DEF IInv, CountInv, EndedInv
  <1>3. CASE Replaced(a, t) = Over
    <2>1. /\ count' = [count EXCEPT ![a] = 0] /\ ended' = ended \cup {a}
          /\ said' = [said EXCEPT ![a] = said[a] + 0]
      BY <1>3 DEF Record, CountAfter, IsOver
    <2> QED BY <1>1, <1>2, <2>1
  <1>4. CASE Replaced(a, t) # Over
    <2>1. t # Over
      BY <1>4, Kinds DEF Replaced
    <2>2. a \notin ended /\ said[a] < PerAgent /\ count[a] >= 0
      BY <2>1 DEF Sayable
    <2>3. PICK n \in {0, 1} : n = (IF IsOver(a, t) THEN 0 ELSE 1)
      OBVIOUS
    <2>4. /\ count' = [count EXCEPT ![a] = count[a] - 1] /\ ended' = ended
          /\ said' = [said EXCEPT ![a] = said[a] + n]
      BY <1>4, <2>3 DEF Record, CountAfter
    <2> QED BY <1>1, <1>2, <2>2, <2>4
  <1> QED BY <1>3, <1>4

LEMMA RecordSkips ==
  ASSUME IInv, NEW a \in Seats, NEW t \in Texts, Record(a, t)
  PROVE  skip' \in [Seats -> 0..MaxSkip]
  <1>1. skip \in [Seats -> 0..MaxSkip] /\ MaxSkip \in Nat
    BY CountAssumption DEF IInv, TypedInv, TypeOK
  <1>2. SkipsLeft(a, t) \in 0..MaxSkip
    BY <1>1, Kinds DEF SkipsLeft, Replaced
  <1> QED BY <1>1, <1>2 DEF Record

LEMMA RecordLengths ==
  ASSUME IInv, NEW a \in Seats, NEW t \in Texts, Sound(a, t), Record(a, t)
  PROVE  /\ length' \in [Seats -> Int \cup {None}] /\ excess' \in [Seats -> Nat]
         /\ tooLong' \in BOOLEAN /\ LengthInv' /\ outrun' \subseteq Seats
  <1>1. /\ length \in [Seats -> Int \cup {None}] /\ excess \in [Seats -> Nat]
        /\ tooLong \in BOOLEAN /\ LengthInv /\ outrun \subseteq Seats
        /\ LengthPerAgent \in Nat \cup {None} /\ None \notin Int
    BY LengthAssumption DEF IInv, TypedInv, TypeOK
  <1>2. CASE t.kind # "say"
    <2>1. UNCHANGED <<length, excess, tooLong, outrun>>
      BY <1>2 DEF Record
    <2> QED BY <1>1, <2>1 DEF LengthInv
  <1>3. CASE t.kind = "say"
    <2>1. PICK s : s = ProcessText(t, length[a])
      OBVIOUS
    <2>2. t \in Speech /\ ~Panics(s) /\ length[a] \in Remains
      BY <1>1, <1>3, <2>1, Kinds DEF Sound, Remains
    <2>3. /\ s.left \in Int /\ s.whole \in BOOLEAN /\ Beyond(s) \in Nat
          /\ s.common \in Nat /\ OrZero(s.rest) \in Nat
          /\ ~TooLong(s)
          /\ length[a] # None => s.left <= length[a]
          /\ ~s.whole /\ (length[a] = None \/ length[a] <= 0) => Beyond(s) = 0
          /\ ~s.whole /\ length[a] # None /\ length[a] > 0 =>
               /\ Beyond(s) <= length[a]
               /\ s.left > 0 => Beyond(s) + s.left <= length[a]
      BY <2>1, <2>2, TextBounds
    <2>4. PICK n \in Nat : n = (IF s.whole THEN 0 ELSE Beyond(s))
      BY <2>3
    <2>5. PICK l \in Int \cup {None} : l = (IF length[a] = None THEN None ELSE s.left)
      BY <2>3
    <2>6. /\ length' = [length EXCEPT ![a] = l]
          /\ excess' = [excess EXCEPT ![a] = excess[a] + n]
      BY <1>3, <2>1, <2>4, <2>5 DEF Record
    <2>7. ~tooLong'
      <3>1. ~TooLong(ProcessText(t, length[a]))
        BY <2>1, <2>3
      <3>2. ~tooLong' \/ tooLong \/ TooLong(ProcessText(t, length[a]))
        BY <1>3, Zenon DEF Record
      <3>3. ~tooLong
        BY <1>1 DEF LengthInv
      <3> QED BY <3>1, <3>2, <3>3
    <2>8. ASSUME LengthPerAgent # None, NEW b \in Seats
          PROVE  /\ excess'[b] <= LengthPerAgent
                 /\ length'[b] # None /\ length'[b] > 0 =>
                      excess'[b] + length'[b] <= LengthPerAgent
      <3>1. /\ LengthPerAgent \in Nat /\ excess[b] \in Nat /\ excess[b] <= LengthPerAgent
            /\ length[b] # None /\ length[b] > 0 => excess[b] + length[b] <= LengthPerAgent
        BY <1>1, <2>8 DEF LengthInv
      <3>2. CASE b # a
        BY <1>1, <2>6, <3>1, <3>2
      <3>3. CASE b = a
        <4>1. excess'[b] = excess[b] + n /\ length'[b] = l
          BY <1>1, <2>6, <3>3
        <4>2. CASE length[b] = None
          BY <2>3, <2>4, <2>5, <3>1, <3>3, <4>1, <4>2
        <4>3. CASE length[b] # None /\ length[b] <= 0
          <5>1. n = 0 /\ l = s.left /\ l <= length[b] /\ length[b] \in Int /\ l \in Int
            BY <1>1, <2>3, <2>4, <2>5, <3>3, <4>3
          <5> QED BY <3>1, <4>1, <4>3, <5>1
        <4>4. CASE length[b] # None /\ length[b] > 0
          <5>1. /\ l = s.left /\ l <= length[b] /\ length[b] \in Int /\ l \in Int
                /\ n <= length[b] /\ (l > 0 => n + l <= length[b])
            BY <1>1, <2>3, <2>4, <2>5, <3>3, <4>4
          <5> QED BY <3>1, <4>1, <4>4, <5>1
        <4> QED BY <1>1, <4>2, <4>3, <4>4
      <3> QED BY <3>2, <3>3
    <2>9. /\ length' \in [Seats -> Int \cup {None}] /\ excess' \in [Seats -> Nat]
          /\ tooLong' \in BOOLEAN /\ outrun' \subseteq Seats
      <3>1. length' \in [Seats -> Int \cup {None}]
        BY <1>1, <2>6
      <3>2. excess' \in [Seats -> Nat]
        BY <1>1, <2>6
      <3>3. tooLong' \in BOOLEAN
        BY <1>3, Zenon DEF Record
      <3>4. outrun' \in {outrun, outrun \cup {a}}
        BY <1>3, Zenon DEF Record
      <3> QED BY <1>1, <3>1, <3>2, <3>3, <3>4
    <2> QED BY <2>7, <2>8, <2>9 DEF LengthInv
  <1> QED BY <1>2, <1>3

\* A talk that outran the length leaves its seat unable to talk, and none by a
\* seat that did so earlier is recorded, but an Over.
LEMMA RecordOutrun ==
  ASSUME IInv, NEW a \in Seats, NEW t \in Texts, Sound(a, t), Record(a, t), Sayable(a, t),
         LengthPerAgent # None
  PROVE  /\ \A b \in Seats : length'[b] = None => count'[b] <= 0
         /\ \A b \in outrun' : ~CanTalk(b)'
         /\ \A b \in outrun : said'[b] = said[b]
  <1>1. /\ length \in [Seats -> Int \cup {None}] /\ count \in [Seats -> -1..PerAgent]
        /\ said \in [Seats -> Nat] /\ outrun \subseteq Seats
        /\ PerAgent \in Nat /\ None \notin Int
    BY LengthAssumption, CountAssumption DEF IInv, TypedInv, TypeOK
  <1>2. /\ \A b \in Seats : length[b] = None => count[b] <= 0
        /\ \A b \in outrun : ~CanTalk(b)
    BY DEF IInv, OutrunInv
  <1>3. PICK n \in Int : /\ count' = [count EXCEPT ![a] = n]
                         /\ n = 0 \/ n = count[a] - 1
    <2>1. PICK n : n = CountAfter(a, t)
      OBVIOUS
    <2>2. n = 0 \/ n = count[a] - 1
      BY <2>1 DEF CountAfter
    <2>3. n \in Int /\ count' = [count EXCEPT ![a] = n]
      BY <1>1, <2>1, <2>2 DEF Record
    <2> QED BY <2>2, <2>3
  <1>4. PICK k \in {0, 1} : said' = [said EXCEPT ![a] = said[a] + k]
    BY DEF Record
  <1>5. CASE t.kind # "say"
    <2>1. UNCHANGED <<length, outrun>>
      BY <1>5 DEF Record
    <2>2. \A b \in Seats : length'[b] = None => count'[b] <= 0
      BY <1>1, <1>2, <1>3, <2>1
    <2>3. ASSUME NEW b \in outrun' PROVE ~CanTalk(b)'
      <3>1. b \in Seats /\ ~CanTalk(b)
        BY <1>1, <1>2, <2>1, <2>3
      <3>2. count'[b] > 0 => count[b] > 0
        BY <1>1, <1>3, <3>1
      <3>3. length'[b] = length[b]
        BY <2>1
      <3> QED BY <3>1, <3>2, <3>3 DEF CanTalk
    <2>4. ASSUME NEW b \in outrun PROVE said'[b] = said[b]
      <3>1. CASE b # a
        BY <1>1, <1>4, <2>4, <3>1
      <3>2. CASE b = a
        <4>1. t = Over
          BY <2>4, <3>2 DEF Sayable
        <4>2. IsOver(a, t)
          BY <4>1, Kinds DEF IsOver, Replaced
        <4>3. said' = [said EXCEPT ![a] = said[a] + 0]
          BY <4>2 DEF Record
        <4> QED BY <1>1, <4>3
      <3> QED BY <3>1, <3>2
    <2> QED BY <2>2, <2>3, <2>4
  <1>6. CASE t.kind = "say"
    <2>1. PICK s : s = ProcessText(t, length[a])
      OBVIOUS
    <2>2. t \in Speech /\ ~Panics(s) /\ length[a] \in Remains
      BY <1>1, <1>6, <2>1, Kinds DEF Sound, Remains
    <2>3. /\ s.left \in Int
          /\ length[a] # None => s.left <= length[a] /\ (s.whole => s.left <= 0)
      BY <2>1, <2>2, TextBounds
    <2>4. PICK l \in Int \cup {None} : l = (IF length[a] = None THEN None ELSE s.left)
      BY <2>3
    <2>5. length' = [length EXCEPT ![a] = l]
      BY <1>6, <2>1, <2>4 DEF Record
    <2>6. outrun' = IF s.whole THEN outrun \cup {a} ELSE outrun
      BY <1>6, <2>1 DEF Record
    <2>7. t # Over /\ a \notin outrun
      BY <1>6, Kinds DEF Sayable
    <2>8. \A b \in Seats : length'[b] = None => count'[b] <= 0
      <3> SUFFICES ASSUME NEW b \in Seats, length'[b] = None PROVE count'[b] <= 0
        OBVIOUS
      <3>1. length[b] = None
        BY <1>1, <2>3, <2>4, <2>5
      <3>2. count[b] <= 0 /\ count[b] \in Int
        BY <1>1, <1>2, <3>1
      <3> QED BY <1>1, <1>3, <3>2
    <2>9. ASSUME NEW b \in outrun' PROVE ~CanTalk(b)'
      <3>1. CASE b # a
        <4>1. b \in outrun /\ b \in Seats
          BY <1>1, <2>6, <2>9, <3>1
        <4>2. count'[b] = count[b] /\ length'[b] = length[b]
          BY <1>1, <1>3, <2>5, <3>1, <4>1
        <4> QED BY <1>2, <4>1, <4>2 DEF CanTalk
      <3>2. CASE b = a
        <4>1. s.whole
          BY <2>6, <2>7, <2>9, <3>2
        <4>2. CASE length[a] = None
          <5>1. length'[a] = None
            BY <1>1, <2>4, <2>5, <4>2
          <5>2. count'[a] <= 0 /\ count'[a] \in Int
            BY <1>1, <1>3, <2>8, <5>1
          <5> QED BY <3>2, <5>2 DEF CanTalk
        <4>3. CASE length[a] # None
          <5>1. length'[a] = s.left /\ s.left <= 0 /\ s.left \in Int
            BY <1>1, <2>3, <2>4, <2>5, <4>1, <4>3
          <5> QED BY <1>1, <3>2, <5>1 DEF CanTalk
        <4> QED BY <4>2, <4>3
      <3> QED BY <3>1, <3>2
    <2>10. ASSUME NEW b \in outrun PROVE said'[b] = said[b]
      BY <1>1, <1>4, <2>7, <2>10
    <2> QED BY <2>8, <2>9, <2>10
  <1> QED BY <1>5, <1>6
-----------------------------------------------------------------------------
LEMMA OrderFacts ==
  ASSUME TypedInv
  PROVE  /\ Len(order) = Cardinality(Seats) /\ Speaker \in Seats
         /\ at[1] \in 1..PerDay /\ at[2] \in 1..Cardinality(Seats) /\ at = <<at[1], at[2]>>
  <1>1. /\ at \in (1..PerDay) \X (1..Cardinality(Seats))
        /\ order \in [1..Cardinality(Seats) -> Seats]
    BY DEF TypedInv, TypeOK
  <1> QED BY <1>1, SeatsFinite DEF Speaker

LEMMA AdvanceTyped ==
  ASSUME TypedInv, NEW b \in BOOLEAN, Advance(b)
  PROVE  /\ at' \in (1..PerDay) \X (1..Cardinality(Seats))
         /\ pc' \in {"next", "done"} /\ active' \in BOOLEAN /\ order' = order
  <1>1. PICK i \in 1..PerDay, j \in 1..Cardinality(Seats) : at = <<i, j>>
    BY DEF TypedInv, TypeOK
  <1>2. Len(order) = Cardinality(Seats) /\ at[1] = i /\ at[2] = j
    BY <1>1, OrderFacts
  <1>3. CASE EndsTalk(b)
    BY <1>1, <1>3 DEF Advance
  <1>4. CASE ~EndsTalk(b)
    <2>1. pc' = "next" /\ at' = NextTurn
      BY <1>4 DEF Advance
    <2>2. CASE j < Cardinality(Seats)
      <3>1. at' = <<i, j + 1>>
        BY <1>2, <2>1, <2>2 DEF NextTurn
      <3> QED BY <2>1, <2>2, <3>1, SeatsFinite DEF Advance
    <2>3. CASE j >= Cardinality(Seats)
      <3>1. at' = <<i + 1, 1>> /\ EndsRound
        BY <1>2, <2>1, <2>3, SeatsFinite DEF NextTurn, EndsRound
      <3>2. i # PerDay
        BY <1>2, <1>4, <3>1 DEF EndsTalk
      <3>3. i + 1 \in 1..PerDay /\ 1 \in 1..Cardinality(Seats)
        BY <3>2, SeatsFinite, CountAssumption
      <3> QED BY <2>1, <3>1, <3>3 DEF Advance
    <2> QED BY <2>2, <2>3, SeatsFinite
  <1> QED BY <1>3, <1>4 DEF Advance

LEMMA PassByInv ==
  ASSUME IInv, PassBy
  PROVE  IInv'
  <1>1. UNCHANGED <<counting, quotaVars, seatVars, chatVars, history>> /\ Advance(active)
    BY DEF PassBy
  <1>2. active \in BOOLEAN /\ TypedInv
    BY DEF IInv, TypedInv, TypeOK
  <1>3. /\ at' \in (1..PerDay) \X (1..Cardinality(Seats))
        /\ pc' \in {"next", "done"} /\ active' \in BOOLEAN /\ order' = order
    BY <1>1, <1>2, AdvanceTyped
  <1> QED
    BY <1>1, <1>3 DEF IInv, TypedInv, TypeOK, CountInv, EndedInv, LengthInv, OutrunInv, CanTalk,
       quotaVars, seatVars, chatVars, history

LEMMA AskInv ==
  ASSUME IInv, Ask
  PROVE  IInv'
  <1>1. Speaker \in Seats /\ count[Speaker] > 0
    BY OrderFacts DEF Ask, CanTalk, IInv
  <1>2. count[Speaker] \in Int /\ said[Speaker] \in Nat /\ PerAgent \in Nat
    BY <1>1, CountAssumption DEF IInv, TypedInv, TypeOK
  <1>3. /\ said[Speaker] < PerAgent /\ Speaker \notin ended
        /\ LengthPerAgent # None => Speaker \notin outrun
    BY <1>1, <1>2 DEF IInv, CountInv, EndedInv, OutrunInv, Ask
  <1>4. UNCHANGED <<counting, turnVars, quotaVars, seatVars, chatVars, history>> /\ pc' = "asked"
    BY DEF Ask
  <1> QED
    BY <1>1, <1>2, <1>3, <1>4 DEF IInv, TypedInv, TypeOK, CountInv, EndedInv, LengthInv, OutrunInv, CanTalk,
       turnVars, quotaVars, seatVars, chatVars, history, Speaker

LEMMA CrashInv ==
  ASSUME IInv, Crash
  PROVE  IInv'
  BY DEF Crash, IInv, TypedInv, TypeOK, CountInv, EndedInv, LengthInv, OutrunInv, CanTalk,
     turnVars, quotaVars, seatVars, chatVars, history

LEMMA BreakInv ==
  ASSUME IInv, NEW a \in Seats, NEW e \in BOOLEAN, Break(a, e)
  PROVE  IInv'
  <1>1. /\ breaks \in 0..Breaks /\ breaks > 0 /\ breaks' = breaks - 1 /\ Breaks \in Nat
        /\ MaxSkip \in Nat /\ PerAgent \in Nat /\ None \notin Int
    BY CountAssumption, LengthAssumption DEF Break, IInv, TypedInv, TypeOK
  <1>2. /\ err' = [err EXCEPT ![a] = e] /\ count' = [count EXCEPT ![a] = 0]
        /\ skip' = [skip EXCEPT ![a] = 0] /\ length' = [length EXCEPT ![a] = None]
        /\ UNCHANGED <<pc, counting, turnVars, chatVars, history>>
    BY DEF Break, Forget
  <1>3. TypeOK'
    BY <1>1, <1>2 DEF IInv, TypedInv, TypeOK, turnVars, chatVars, history
  <1>4. TypedInv'
    BY <1>2, <1>3 DEF IInv, TypedInv, turnVars, chatVars, history
  <1>5. CountInv' /\ EndedInv'
    <2>1. Speaker \in Seats /\ Speaker' = Speaker
      BY <1>2, OrderFacts DEF IInv, Speaker, turnVars
    <2>2. /\ count \in [Seats -> -1..PerAgent] /\ said \in [Seats -> Nat]
          /\ ended \subseteq Seats /\ UNCHANGED <<pc, said, ended>>
      BY <1>2 DEF IInv, TypedInv, TypeOK, history
    <2>3. CountInv'
      BY <1>1, <1>2, <2>1, <2>2 DEF IInv, CountInv
    <2>4. EndedInv'
      BY <1>1, <1>2, <2>1, <2>2 DEF IInv, EndedInv
    <2> QED BY <2>3, <2>4
  <1>6. LengthInv'
    BY <1>1, <1>2 DEF IInv, TypedInv, TypeOK, LengthInv, history
  <1>7. OutrunInv'
    <2>1. Speaker' = Speaker /\ UNCHANGED <<pc, outrun>>
      BY <1>2 DEF Speaker, turnVars, history
    <2>2. /\ count \in [Seats -> -1..PerAgent] /\ outrun \subseteq Seats
          /\ length \in [Seats -> Int \cup {None}]
      BY DEF IInv, TypedInv, TypeOK
    <2>3. LengthPerAgent # None => \A b \in Seats : length'[b] = None => count'[b] <= 0
      BY <1>2, <2>2 DEF IInv, OutrunInv
    <2>4. ASSUME NEW b \in outrun, LengthPerAgent # None PROVE ~CanTalk(b)'
      <3>1. b \in Seats /\ ~CanTalk(b)
        BY <2>2, <2>4 DEF IInv, OutrunInv
      <3>2. CASE b = a
        BY <1>2, <2>2, <3>1, <3>2 DEF CanTalk
      <3>3. CASE b # a
        BY <1>2, <2>2, <3>1, <3>3 DEF CanTalk
      <3> QED BY <3>2, <3>3
    <2> QED BY <2>1, <2>3, <2>4 DEF IInv, OutrunInv
  <1> QED BY <1>4, <1>5, <1>6, <1>7 DEF IInv

\* Nothing is recorded of a seat that has ended or outrun its length.
Silent ==
  /\ \A b \in ended : said'[b] = said[b]
  /\ LengthPerAgent # None => \A b \in outrun : said'[b] = said[b]

\* What Record leaves to be shown of a step, where nobody is asked.
LEMMA RecordInv ==
  ASSUME IInv, NEW a \in Seats, NEW t \in Texts, Sound(a, t), Record(a, t), Sayable(a, t),
         pc' \in {"next", "chat", "done", "panic"}, counting' = counting, order' = order,
         at' \in (1..PerDay) \X (1..Cardinality(Seats)), active' \in BOOLEAN,
         UNCHANGED seatVars, sends' = sends, listening' = listening,
         talkChan' \in Seq([seat : Seats, text : Texts]), Len(talkChan') <= ChanCap,
         consuming' \in BOOLEAN, expired' \in BOOLEAN
  PROVE  IInv' /\ Silent
  <1>1. /\ count' \in [Seats -> -1..PerAgent] /\ said' \in [Seats -> Nat]
        /\ ended' \subseteq Seats
        /\ \A b \in Seats : said'[b] <= PerAgent /\ said'[b] + count'[b] <= PerAgent
        /\ \A b \in ended' : count'[b] <= 0
        /\ \A b \in ended : said'[b] = said[b]
    BY RecordCounts
  <1>2. skip' \in [Seats -> 0..MaxSkip]
    BY RecordSkips
  <1>3. /\ length' \in [Seats -> Int \cup {None}] /\ excess' \in [Seats -> Nat]
        /\ tooLong' \in BOOLEAN /\ LengthInv' /\ outrun' \subseteq Seats
    BY RecordLengths
  <1>4. TypeOK'
    BY <1>1, <1>2, <1>3 DEF IInv, TypedInv, TypeOK, seatVars
  <1>5. TypedInv'
    BY <1>1, <1>3, <1>4 DEF IInv, TypedInv
  <1>6. CountInv' /\ EndedInv'
    BY <1>1 DEF CountInv, EndedInv
  <1>7. /\ OutrunInv'
        /\ LengthPerAgent # None => \A b \in outrun : said'[b] = said[b]
    BY RecordOutrun DEF OutrunInv
  <1> QED BY <1>1, <1>3, <1>5, <1>6, <1>7 DEF IInv, Silent

LEMMA TurnInv ==
  ASSUME IInv, Turn
  PROVE  IInv' /\ Silent
  <1>1. Speaker \in Seats /\ TypedInv
    BY OrderFacts DEF IInv
  <1>2. PICK t \in Answers(Speaker) :
          \/ /\ Sound(Speaker, t) /\ Record(Speaker, t)
             /\ Advance(active \/ ~IsOver(Speaker, t))
             /\ UNCHANGED <<counting, seatVars, chatVars>>
          \/ ~Sound(Speaker, t) /\ Crash
    BY DEF Turn
  <1>3. t \in Texts
    BY DEF Answers, Texts
  <1>4. Sayable(Speaker, t)
    BY DEF Turn, Sayable, IInv, CountInv, EndedInv, OutrunInv
  <1>5. CASE Crash
    BY <1>5, CrashInv DEF Crash, history, Silent
  <1>6. CASE /\ Sound(Speaker, t) /\ Record(Speaker, t)
             /\ Advance(active \/ ~IsOver(Speaker, t))
             /\ UNCHANGED <<counting, seatVars, chatVars>>
    <2>1. PICK b \in BOOLEAN : Advance(b)
      BY <1>6
    <2>2. /\ at' \in (1..PerDay) \X (1..Cardinality(Seats))
          /\ pc' \in {"next", "done"} /\ active' \in BOOLEAN /\ order' = order
      BY <1>1, <2>1, AdvanceTyped
    <2>3. /\ UNCHANGED <<sends, listening, talkChan, consuming, expired>>
          /\ talkChan \in Seq([seat : Seats, text : Texts]) /\ Len(talkChan) <= ChanCap
          /\ consuming \in BOOLEAN /\ expired \in BOOLEAN
      BY <1>6 DEF chatVars, IInv, TypedInv, TypeOK
    <2>4. /\ talkChan' \in Seq([seat : Seats, text : Texts]) /\ Len(talkChan') <= ChanCap
          /\ consuming' \in BOOLEAN /\ expired' \in BOOLEAN
      BY <2>3
    <2> QED BY <1>1, <1>3, <1>4, <1>6, <2>2, <2>3, <2>4, RecordInv
  <1> QED BY <1>2, <1>5, <1>6

LEMMA ConsumeInv ==
  ASSUME IInv, Consume
  PROVE  IInv' /\ Silent
  <1>1. PICK s \in [seat : Seats, text : Texts] : s = Head(talkChan)
    <2>1. talkChan \in Seq([seat : Seats, text : Texts]) /\ talkChan # <<>>
      BY DEF Consume, IInv, TypedInv
    <2>2. Head(talkChan) \in [seat : Seats, text : Texts]
      BY <2>1, HeadTailProperties
    <2> QED BY <2>2
  <1>2. s.seat \in Seats /\ s.text \in Texts
    OBVIOUS
  <1>3. /\ talkChan' \in Seq([seat : Seats, text : Texts]) /\ Len(talkChan') <= ChanCap
    <2>1. /\ talkChan \in Seq([seat : Seats, text : Texts]) /\ talkChan # <<>>
          /\ Len(talkChan) <= ChanCap /\ ChanCap \in Nat /\ talkChan' = Tail(talkChan)
      BY CountAssumption DEF Consume, IInv, TypedInv, TypeOK
    <2> QED BY <2>1
  <1>4. consuming' \in BOOLEAN /\ expired' \in BOOLEAN
    BY Zenon DEF Consume
  <1>5. /\ UNCHANGED <<pc, counting, turnVars, seatVars, sends, listening>> /\ pc = "chat"
    BY DEF Consume
  <1>6. /\ at' \in (1..PerDay) \X (1..Cardinality(Seats)) /\ active' \in BOOLEAN
        /\ order' = order
    BY <1>5 DEF turnVars, IInv, TypedInv, TypeOK
  <1>7. CASE ~Valid(s)
    <2>1. UNCHANGED <<quotaVars, history>>
      BY <1>1, <1>7 DEF Consume
    <2> QED
      BY <1>3, <1>4, <1>5, <2>1 DEF IInv, TypedInv, TypeOK, CountInv, EndedInv, LengthInv, OutrunInv, CanTalk,
         turnVars, seatVars, quotaVars, history, Silent
  <1>8. CASE Valid(s)
    <2>1. Sound(s.seat, s.text) /\ Record(s.seat, s.text)
      BY <1>1, <1>8 DEF Consume
    <2>2. Sayable(s.seat, s.text)
      <3>1. CASE s.text = Over
        BY <3>1 DEF Sayable
      <3>2. CASE CanTalk(s.seat)
        <4>1. /\ count[s.seat] \in Int /\ said[s.seat] \in Nat /\ PerAgent \in Nat
              /\ said[s.seat] + count[s.seat] <= PerAgent
              /\ s.seat \in ended => count[s.seat] <= 0
              /\ LengthPerAgent # None => s.seat \notin outrun
          <5>1. /\ count[s.seat] \in Int /\ said[s.seat] \in Nat /\ PerAgent \in Nat
                /\ said[s.seat] + count[s.seat] <= PerAgent
            BY <1>2, CountAssumption DEF IInv, TypedInv, TypeOK, CountInv
          <5>2. s.seat \in ended => count[s.seat] <= 0
            BY DEF IInv, EndedInv
          <5>3. LengthPerAgent # None => s.seat \notin outrun
            BY <3>2 DEF IInv, OutrunInv
          <5> QED BY <5>1, <5>2, <5>3
        <4>2. count[s.seat] > 0
          BY <3>2 DEF CanTalk
        <4> QED BY <4>1, <4>2 DEF Sayable
      <3> QED BY <1>8, <3>1, <3>2 DEF Valid
    <2> QED BY <1>2, <1>3, <1>4, <1>5, <1>6, <2>1, <2>2, RecordInv
  <1> QED BY <1>7, <1>8
\* The steps of a group chat that record nothing.
LEMMA ChatInv ==
  ASSUME IInv, Chat, ~Consume
  PROVE  IInv'
  <1>1. CASE ConsumeAndCrash
    BY <1>1, CrashInv DEF ConsumeAndCrash
  <1>2. CASE \E a \in Seats : Listen(a)
    <2>1. PICK a \in Seats : Listen(a)
      BY <1>2
    <2>2. /\ sends \in [Seats -> 0..Sends] /\ sends[a] > 0
          /\ sends' = [sends EXCEPT ![a] = sends[a] - 1] /\ Sends \in Nat
          /\ Len(talkChan) < ChanCap /\ ChanCap \in Nat
      BY <2>1, CountAssumption DEF Listen, IInv, TypedInv, TypeOK
    <2>3. PICK t \in Texts : /\ talkChan' = Append(talkChan, [seat |-> a, text |-> t])
                             /\ listening' \in {listening, listening \ {a}}
      BY <2>1 DEF Listen
    <2>4. sends' \in [Seats -> 0..Sends]
      BY <2>2
    <2>5. talkChan' \in Seq([seat : Seats, text : Texts]) /\ Len(talkChan') <= ChanCap
      <3>1. talkChan \in Seq([seat : Seats, text : Texts])
        BY DEF IInv, TypedInv
      <3> QED BY <2>2, <2>3, <3>1
    <2>6. UNCHANGED <<pc, counting, turnVars, quotaVars, seatVars, consuming, expired, history>>
      BY <2>1 DEF Listen
    <2>7. listening' \subseteq Seats
      BY <2>3 DEF IInv, TypedInv, TypeOK
    <2>8. TypedInv'
      BY <2>4, <2>5, <2>6, <2>7
      DEF IInv, TypedInv, TypeOK, turnVars, quotaVars, seatVars, history
    <2>9. CountInv' /\ EndedInv' /\ LengthInv' /\ OutrunInv'
      BY <2>6 DEF IInv, CountInv, EndedInv, LengthInv, OutrunInv, CanTalk, turnVars, quotaVars, history, Speaker
    <2> QED BY <2>8, <2>9 DEF IInv
  <1>3. CASE \/ StopConsuming \/ Expire \/ EndChat
             \/ \E a \in Seats : StopListening(a)
    <2>1. /\ UNCHANGED <<counting, turnVars, quotaVars, seatVars, history, sends, talkChan>>
          /\ pc' \in {"chat", "done"} /\ pc = "chat"
          /\ listening' \subseteq listening
          /\ consuming' \in {consuming, FALSE} /\ expired' \in {expired, TRUE}
      BY <1>3 DEF StopConsuming, Expire, EndChat, StopListening, chatVars
    <2>2. consuming' \in BOOLEAN /\ expired' \in BOOLEAN /\ listening' \subseteq Seats
      BY <2>1 DEF IInv, TypedInv, TypeOK
    <2>3. TypedInv'
      BY <2>1, <2>2 DEF IInv, TypedInv, TypeOK, turnVars, quotaVars, seatVars, history
    <2>4. CountInv' /\ EndedInv' /\ LengthInv' /\ OutrunInv'
      BY <2>1 DEF IInv, CountInv, EndedInv, LengthInv, OutrunInv, CanTalk, turnVars, quotaVars, history
    <2> QED BY <2>3, <2>4 DEF IInv
  <1> QED BY <1>1, <1>2, <1>3 DEF Chat
-----------------------------------------------------------------------------
LEMMA StepInv == IInv /\ [Next]_vars => IInv'
  <1> SUFFICES ASSUME IInv, [Next]_vars
               PROVE  IInv'
    OBVIOUS
  <1>1. CASE UNCHANGED vars
    BY <1>1 DEF vars, turnVars, chatVars, seatVars, quotaVars, history,
       IInv, TypedInv, TypeOK, CountInv, EndedInv, LengthInv, OutrunInv, CanTalk, Speaker
  <1>2. CASE PassBy \/ Ask \/ Turn
    BY <1>2, PassByInv, AskInv, TurnInv
  <1>3. CASE Chat
    BY <1>3, ChatInv, ConsumeInv
  <1>4. CASE \E a \in Seats, e \in BOOLEAN : Break(a, e)
    BY <1>4, BreakInv
  <1> QED BY <1>1, <1>2, <1>3, <1>4 DEF Next

LEMMA SilentStep ==
  ASSUME IInv, Next
  PROVE  Silent
  <1>1. CASE Turn \/ Consume
    BY <1>1, TurnInv, ConsumeInv
  <1>2. CASE ~Turn /\ ~Consume
    <2>1. UNCHANGED said
      BY <1>2 DEF Next, PassBy, Ask, Chat, ConsumeAndCrash, Crash, StopConsuming, Expire,
         EndChat, Listen, StopListening, Break, history
    <2> QED BY <2>1 DEF Silent
  <1> QED BY <1>1, <1>2

\* The variables have their types: no count falls below -1, no channel holds
\* more than its capacity.
THEOREM TypeTheorem == Spec => []TypeOK
  <1>1. IInv => TypeOK
    BY DEF IInv, TypedInv
  <1> QED BY InitInv, StepInv, <1>1, PTL DEF Spec

\* No seat is recorded to say or skip more often than max_count.per_agent, in
\* either mode, whichever seats break (buildTalk, validateSubmission).
THEOREM CountTheorem == Spec => []SaidWithinCount
  <1>1. IInv => SaidWithinCount
    BY DEF IInv, CountInv, SaidWithinCount
  <1> QED BY InitInv, StepInv, <1>1, PTL DEF Spec

\* Every talk that trimming can bound is bounded: no seat says more than its
\* length for the day beyond the free lengths in talks begun with some of it
\* left at each of their cuts, and a talk is longer than per_talk only where
\* no room was left behind its first part (processText, TrimLength).
THEOREM LengthTheorem == Spec => []LengthHeld
  <1>1. IInv => LengthHeld
    BY DEF IInv, LengthInv, LengthHeld
  <1> QED BY InitInv, StepInv, <1>1, PTL DEF Spec

\* The talk that outruns the length, which nothing trims, is the seat's last.
THEOREM UntrimmedTheorem == Spec => UntrimmedIsLast
  <1>1. IInv /\ [Next]_vars =>
          [LengthPerAgent # None => \A a \in outrun : said'[a] = said[a]]_vars
    BY SilentStep DEF Silent
  <1> QED BY InitInv, StepInv, <1>1, PTL DEF Spec, UntrimmedIsLast

\* After its Over a seat is not recorded to say or skip anything more.
THEOREM OverTheorem == Spec => OverIsFinal
  <1>1. IInv /\ [Next]_vars => [\A a \in ended : said'[a] = said[a]]_vars
    BY SilentStep DEF Silent
  <1> QED BY InitInv, StepInv, <1>1, PTL DEF Spec, OverIsFinal
=============================================================================
