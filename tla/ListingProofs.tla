---------------------------- MODULE ListingProofs ----------------------------
(***************************************************************************)
(* Proofs about Listing, for any names, attributes, extended pairs and     *)
(* numbers of replies: what is read of a reply is what was written, and a  *)
(* reply that was cut anywhere is not read to its end.                     *)
(*                                                                         *)
(* The rounds of the loops that write and that read are steps, and a round *)
(* writes or reads an item: an entry up to its extended pairs, or a pair.  *)
(* The inductive invariant says that a reply is its items one after the    *)
(* other (Laid), and that the reader stands between two of them.           *)
(***************************************************************************)
EXTENDS Listing, SequenceTheorems, TLAPS

Words == Seq(Nat)

\* The words t are in w, after its first p.
At(w, p, t) == p + Len(t) <= Len(w) /\ \A i \in 1 .. Len(t) : w[p + i] = t[i]

-----------------------------------------------------------------------------
(***************************************************************************)
(* Words in their place.                                                   *)
(***************************************************************************)
\* What concatenation does, word by word.
LEMMA Joined ==
  ASSUME NEW s \in Words, NEW t \in Words
  PROVE  /\ s \o t \in Words /\ Len(s \o t) = Len(s) + Len(t)
         /\ Len(s) \in Nat /\ Len(t) \in Nat
         /\ \A i \in 1 .. Len(s) : (s \o t)[i] = s[i]
         /\ \A i \in 1 .. Len(t) : (s \o t)[Len(s) + i] = t[i]
<1>1. /\ s \o t \in Words /\ Len(s \o t) = Len(s) + Len(t)
      /\ \A i \in 1 .. Len(s) + Len(t) :
           (s \o t)[i] = IF i <= Len(s) THEN s[i] ELSE t[i - Len(s)]
  BY ConcatProperties DEF Words
<1>2. Len(s) \in Nat /\ Len(t) \in Nat
  BY LenProperties DEF Words
<1>3. ASSUME NEW i \in 1 .. Len(s) PROVE (s \o t)[i] = s[i]
  BY <1>1, <1>2
<1>4. ASSUME NEW i \in 1 .. Len(t) PROVE (s \o t)[Len(s) + i] = t[i]
  <2>1. Len(s) + i \in 1 .. Len(s) + Len(t) /\ ~ (Len(s) + i <= Len(s)) /\ Len(s) + i - Len(s) = i
    BY <1>2
  <2> QED BY <1>1, <2>1
<1> QED BY <1>1, <1>2, <1>3, <1>4

\* Concatenation is associative.
LEMMA JoinedThrice ==
  ASSUME NEW s \in Words, NEW t \in Words, NEW u \in Words
  PROVE  (s \o t) \o u = s \o (t \o u)
BY ConcatAssociative, SMTT(30) DEF Words

\* Two texts that follow each other, each in its place.
LEMMA AtSplit ==
  ASSUME NEW w \in Words, NEW p \in Nat, NEW s \in Words, NEW t \in Words, At(w, p, s \o t)
  PROVE  At(w, p, s) /\ At(w, p + Len(s), t)
<1>1. /\ Len(s \o t) = Len(s) + Len(t) /\ Len(s) \in Nat /\ Len(t) \in Nat /\ Len(w) \in Nat
      /\ \A i \in 1 .. Len(s) : (s \o t)[i] = s[i]
      /\ \A i \in 1 .. Len(t) : (s \o t)[Len(s) + i] = t[i]
  BY Joined, LenProperties DEF Words
<1>2. p + Len(s) + Len(t) <= Len(w) /\ \A i \in 1 .. Len(s) + Len(t) : w[p + i] = (s \o t)[i]
  BY <1>1 DEF At
<1>3. ASSUME NEW i \in 1 .. Len(s) PROVE w[p + i] = s[i]
  <2>1. i \in 1 .. Len(s) + Len(t)
    BY <1>1
  <2> QED BY <1>1, <1>2, <2>1
<1>4. ASSUME NEW i \in 1 .. Len(t) PROVE w[p + Len(s) + i] = t[i]
  <2>1. Len(s) + i \in 1 .. Len(s) + Len(t) /\ p + (Len(s) + i) = p + Len(s) + i
    BY <1>1
  <2>2. w[p + (Len(s) + i)] = (s \o t)[Len(s) + i]
    BY <1>2, <2>1
  <2> QED BY <1>1, <2>1, <2>2
<1>5. p + Len(s) <= Len(w)
  BY <1>1, <1>2
<1> QED BY <1>2, <1>3, <1>4, <1>5 DEF At

\* What is written last is at the end, and what was written stays.
LEMMA AtJoined ==
  ASSUME NEW w \in Words, NEW u \in Words
  PROVE  /\ At(w \o u, Len(w), u)
         /\ \A p \in Nat, t \in Words : At(w, p, t) => At(w \o u, p, t)
<1>1. /\ Len(w \o u) = Len(w) + Len(u) /\ Len(w) \in Nat /\ Len(u) \in Nat
      /\ \A i \in 1 .. Len(w) : (w \o u)[i] = w[i]
      /\ \A i \in 1 .. Len(u) : (w \o u)[Len(w) + i] = u[i]
  BY Joined
<1>2. At(w \o u, Len(w), u)
  BY <1>1 DEF At
<1>3. ASSUME NEW p \in Nat, NEW t \in Words, At(w, p, t) PROVE At(w \o u, p, t)
  <2>1. Len(t) \in Nat /\ p + Len(t) <= Len(w) /\ \A i \in 1 .. Len(t) : w[p + i] = t[i]
    BY <1>3, LenProperties DEF At, Words
  <2>2. ASSUME NEW i \in 1 .. Len(t) PROVE (w \o u)[p + i] = t[i]
    <3>1. p + i \in 1 .. Len(w)
      BY <1>1, <2>1
    <3> QED BY <1>1, <2>1, <3>1
  <2>3. p + Len(t) <= Len(w \o u)
    BY <1>1, <2>1
  <2> QED BY <2>2, <2>3 DEF At
<1> QED BY <1>2, <1>3

\* A word by itself.
LEMMA AtOne ==
  ASSUME NEW w \in Words, NEW p \in Nat, NEW x \in Nat, At(w, p, <<x>>)
  PROVE  w[p + 1] = x /\ p + 1 <= Len(w)
<1>1. Len(<<x>>) = 1 /\ <<x>>[1] = x
  OBVIOUS
<1> QED BY <1>1 DEF At

\* Two words.
LEMMA AtTwo ==
  ASSUME NEW w \in Words, NEW p \in Nat, NEW x \in Nat, NEW y \in Nat, At(w, p, <<x, y>>)
  PROVE  w[p + 1] = x /\ w[p + 2] = y /\ p + 2 <= Len(w)
<1>1. Len(<<x, y>>) = 2 /\ <<x, y>>[1] = x /\ <<x, y>>[2] = y
  OBVIOUS
<1> QED BY <1>1 DEF At

\* What a string is written as.
LEMMA StringWords ==
  ASSUME NEW s \in Words
  PROVE  String(s) \in Words /\ Len(String(s)) = Len(s) + 1 /\ Len(s) \in Nat
<1>1. Len(s) \in Nat
  BY LenProperties DEF Words
<1>2. <<Len(s)>> \in Words /\ Len(<<Len(s)>>) = 1
  BY <1>1 DEF Words
<1> QED BY <1>1, <1>2, Joined DEF String

\* The two words of a u64 give it back.
LEMMA U64Back ==
  ASSUME NEW n \in 0 .. Word * Word - 1
  PROVE  /\ n \in Nat /\ n \div Word \in Nat /\ n % Word \in Nat
         /\ (n \div Word) * Word + (n % Word) = n
<1>1. Word \in Nat /\ Word > 0
  BY ListingAssumption
<1>2. n \in Nat
  <2>1. Word * Word \in Nat
    BY <1>1
  <2> QED BY <2>1
<1> QED BY <1>1, <1>2
-----------------------------------------------------------------------------
(***************************************************************************)
(* Reading what was written.                                               *)
(***************************************************************************)
\* The reply being read is the start of the one that was sent.
Cut ==
  /\ sent \in Words /\ body \in Words /\ Len(body) <= Len(sent)
  /\ \A i \in 1 .. Len(body) : body[i] = sent[i]

\* A word read is one that was written, or the reader ran out.
LEMMA Peeks ==
  ASSUME Cut, NEW p \in Nat
  PROVE  /\ Len(body) \in Nat /\ Len(sent) \in Nat /\ Peek(p) \in Nat
         /\ p < Len(body) => Peek(p) = sent[p + 1]
<1>1. Len(body) \in Nat /\ Len(sent) \in Nat
  BY LenProperties DEF Cut, Words
<1>2. CASE p < Len(body)
  <2>1. p + 1 \in 1 .. Len(body)
    BY <1>1, <1>2
  <2>2. body[p + 1] \in Nat
    BY <2>1, ElementOfSeq DEF Cut, Words
  <2> QED BY <1>1, <1>2, <2>1, <2>2 DEF Peek, Cut
<1>3. CASE ~ (p < Len(body))
  BY <1>1, <1>3 DEF Peek
<1> QED BY <1>2, <1>3

\* A read never ends before the place it began at.
LEMMA Onward ==
  ASSUME Cut, NEW p \in Nat
  PROVE  /\ AfterString(p) \in Nat /\ AfterString(p) > p
         /\ Owner(p) \in Nat /\ Permissions(p) \in Nat /\ Times(p) \in Nat /\ Extended(p) \in Nat
         /\ AfterFlags(p) \in Nat /\ PairsAt(p) \in Nat
         /\ p < Owner(p) /\ Owner(p) <= Permissions(p) /\ Permissions(p) <= Times(p)
         /\ Times(p) <= Extended(p) /\ Extended(p) <= AfterFlags(p)
<1>1. Peek(p) \in Nat
  BY Peeks
<1>2. AfterString(p) \in Nat /\ AfterString(p) > p
  BY <1>1 DEF AfterString
<1>3. Owner(p) \in Nat /\ p < Owner(p)
  BY DEF Owner
<1>4. Permissions(p) \in Nat /\ Owner(p) <= Permissions(p)
  BY <1>3 DEF Permissions
<1>5. Times(p) \in Nat /\ Permissions(p) <= Times(p)
  BY <1>4 DEF Times
<1>6. Extended(p) \in Nat /\ Times(p) <= Extended(p)
  BY <1>5 DEF Extended
<1>7. AfterFlags(p) \in Nat /\ Extended(p) <= AfterFlags(p)
  BY <1>6 DEF AfterFlags
<1>8. PairsAt(p) \in Nat
  BY <1>6, Peeks DEF PairsAt
<1> QED BY <1>2, <1>3, <1>4, <1>5, <1>6, <1>7, <1>8

\* A string is read to its end, and is the one written.
LEMMA StringRead ==
  ASSUME Cut, NEW p \in Nat, NEW s \in Words, At(sent, p, String(s)), p < Len(body)
  PROVE  /\ AfterString(p) = p + Len(String(s))
         /\ Within(AfterString(p)) => SubSeq(body, p + 2, AfterString(p)) = s
<1>1. /\ String(s) \in Words /\ Len(String(s)) = Len(s) + 1 /\ Len(s) \in Nat
      /\ <<Len(s)>> \in Words /\ Len(<<Len(s)>>) = 1
  BY StringWords DEF Words
<1>2. At(sent, p, <<Len(s)>>) /\ At(sent, p + 1, s)
  BY <1>1, AtSplit DEF String, Cut
<1>3. sent[p + 1] = Len(s)
  BY <1>1, <1>2, AtOne DEF Cut
<1>4. AfterString(p) = p + 1 + Len(s)
  BY <1>3, Peeks DEF AfterString
<1>5. ASSUME Within(AfterString(p)) PROVE SubSeq(body, p + 2, AfterString(p)) = s
  <2>1. Len(body) \in Nat /\ p + 1 + Len(s) <= Len(body)
    BY <1>4, <1>5, Peeks DEF Within
  <2> DEFINE r == SubSeq(body, p + 2, p + 1 + Len(s))
  <2>3. /\ r \in Words /\ Len(r) = Len(s)
        /\ \A i \in 1 .. Len(s) : r[i] = body[p + 2 + i - 1]
    <3> DEFINE m == p + 2
               n == p + 1 + Len(s)
    <3>1. m \in Int /\ n \in Int /\ n - m + 1 = Len(s) /\ (m <= n <=> Len(s) # 0)
      BY <1>1
    <3>2. \A i \in m .. n : body[i] \in Nat
      <4> SUFFICES ASSUME NEW i \in m .. n PROVE body[i] \in Nat
        OBVIOUS
      <4>1. i \in 1 .. Len(body)
        BY <1>1, <2>1
      <4> QED BY <4>1, ElementOfSeq DEF Cut, Words
    <3> HIDE DEF m, n
    <3>3. /\ SubSeq(body, m, n) \in Words /\ Len(SubSeq(body, m, n)) = Len(s)
          /\ \A i \in 1 .. Len(s) : SubSeq(body, m, n)[i] = body[m + i - 1]
      BY <1>1, <3>1, <3>2, SubSeqProperties DEF Words
    <3> QED BY <3>3 DEF m, n
  <2>4. ASSUME NEW i \in 1 .. Len(s) PROVE r[i] = s[i]
    <3>1. p + 2 + i - 1 = p + 1 + i /\ p + 1 + i \in 1 .. Len(body)
      BY <1>1, <2>1
    <3>2. sent[p + 1 + i] = s[i]
      BY <1>2 DEF At
    <3> QED BY <2>3, <3>1, <3>2 DEF Cut
  <2>5. r = s
    <3> HIDE DEF r
    <3> QED BY <2>3, <2>4, SeqEqual DEF Words
  <2> QED BY <1>4, <2>5
<1> QED BY <1>1, <1>4, <1>5

\* How many words the attributes before each one take.
SizeWords(f) == IF Has(f, SIZE) THEN 2 ELSE 0
OwnerWords(f) == IF Has(f, UIDGID) THEN 2 ELSE 0
PermissionWords(f) == IF Has(f, PERMISSIONS) THEN 1 ELSE 0
TimeWords(f) == IF Has(f, ACMODTIME) THEN 2 ELSE 0
PairWords(f) == IF Has(f, EXTENDED) THEN 1 ELSE 0
BeforeTimes(f) == 1 + SizeWords(f) + OwnerWords(f) + PermissionWords(f)

\* What attributes are written as, and where each of them is.
LEMMA AttributesLaid ==
  ASSUME NEW f \in Nat, NEW e \in Entry, NEW n \in Nat
  PROVE  /\ Attributes(f, e, n) \in Words
         /\ Len(Attributes(f, e, n)) = BeforeTimes(f) + TimeWords(f) + PairWords(f)
         /\ \A w \in Words, p \in Nat : At(w, p, Attributes(f, e, n)) =>
              /\ w[p + 1] = f
              /\ Has(f, SIZE) => w[p + 2] = e.length \div Word /\ w[p + 3] = e.length % Word
              /\ Has(f, ACMODTIME) => w[p + BeforeTimes(f) + 2] = e.modified
              /\ Has(f, EXTENDED) => w[p + BeforeTimes(f) + TimeWords(f) + 1] = n
<1> DEFINE a1 == <<f>>
           a2 == IF Has(f, SIZE) THEN U64(e.length) ELSE <<>>
           a3 == IF Has(f, UIDGID) THEN <<1, 1>> ELSE <<>>
           a4 == IF Has(f, PERMISSIONS) THEN <<1>> ELSE <<>>
           accessed == IF f = OwnFlags THEN e.modified ELSE 0
           a5 == IF Has(f, ACMODTIME) THEN <<accessed, e.modified>> ELSE <<>>
           a6 == IF Has(f, EXTENDED) THEN <<n>> ELSE <<>>
           b2 == a1 \o a2
           b3 == b2 \o a3
           b4 == b3 \o a4
           b5 == b4 \o a5
<1>1. Attributes(f, e, n) = b5 \o a6
  BY DEF Attributes
<1>2. /\ e.length \in 0 .. Word * Word - 1 /\ e.modified \in 0 .. Word - 1
  BY ListingAssumption DEF Entry
<1>3. e.length \div Word \in Nat /\ e.length % Word \in Nat
  BY <1>2, U64Back
<1>4. e.modified \in Nat /\ accessed \in Nat
  BY <1>2, ListingAssumption
<1>5. <<>> \in Words /\ Len(<<>>) = 0
  BY DEF Words
<1>6. a1 \in Words /\ Len(a1) = 1
  BY DEF Words
<1>7. a2 \in Words /\ Len(a2) = SizeWords(f)
  BY <1>3, <1>5 DEF SizeWords, U64, Words
<1>8. a3 \in Words /\ Len(a3) = OwnerWords(f)
  BY <1>5 DEF OwnerWords, Words
<1>9. a4 \in Words /\ Len(a4) = PermissionWords(f)
  BY <1>5 DEF PermissionWords, Words
<1>10. a5 \in Words /\ Len(a5) = TimeWords(f)
  <2> HIDE DEF accessed
  <2> QED BY <1>4, <1>5 DEF TimeWords, Words
<1>11. a6 \in Words /\ Len(a6) = PairWords(f)
  BY <1>5 DEF PairWords, Words
<1>12. Has(f, SIZE) => a2 = <<e.length \div Word, e.length % Word>>
  BY DEF U64
<1>13. Has(f, ACMODTIME) => a5 = <<accessed, e.modified>>
  OBVIOUS
<1>14. Has(f, EXTENDED) => a6 = <<n>>
  OBVIOUS
<1>15. /\ SizeWords(f) \in Nat /\ OwnerWords(f) \in Nat /\ PermissionWords(f) \in Nat
       /\ TimeWords(f) \in Nat /\ PairWords(f) \in Nat /\ BeforeTimes(f) \in Nat
  BY DEF SizeWords, OwnerWords, PermissionWords, TimeWords, PairWords, BeforeTimes
<1> HIDE DEF a1, a2, a3, a4, a5, a6, accessed
<1>16. b2 \in Words /\ Len(b2) = 1 + SizeWords(f)
  <2>1. a1 \o a2 \in Words /\ Len(a1 \o a2) = Len(a1) + Len(a2)
    BY <1>6, <1>7, Joined
  <2> QED BY <1>6, <1>7, <2>1
<1>17. b3 \in Words /\ Len(b3) = 1 + SizeWords(f) + OwnerWords(f)
  <2> HIDE DEF b2
  <2> QED BY <1>8, <1>16, Joined
<1>18. b4 \in Words /\ Len(b4) = BeforeTimes(f)
  <2> HIDE DEF b3
  <2> QED BY <1>9, <1>17, Joined DEF BeforeTimes
<1>19. b5 \in Words /\ Len(b5) = BeforeTimes(f) + TimeWords(f)
  <2> HIDE DEF b4
  <2> QED BY <1>10, <1>18, Joined
<1>20. b5 \o a6 \in Words /\ Len(b5 \o a6) = BeforeTimes(f) + TimeWords(f) + PairWords(f)
  <2> HIDE DEF b5
  <2> QED BY <1>11, <1>19, Joined
<1>21. ASSUME NEW w \in Words, NEW p \in Nat, At(w, p, b5 \o a6)
       PROVE  /\ w[p + 1] = f
              /\ Has(f, SIZE) => w[p + 2] = e.length \div Word /\ w[p + 3] = e.length % Word
              /\ Has(f, ACMODTIME) => w[p + BeforeTimes(f) + 2] = e.modified
              /\ Has(f, EXTENDED) => w[p + BeforeTimes(f) + TimeWords(f) + 1] = n
  <2>1. At(w, p, b5) /\ At(w, p + Len(b5), a6)
    <3> HIDE DEF b5
    <3> QED BY <1>11, <1>19, <1>21, AtSplit
  <2>2. At(w, p, b4) /\ At(w, p + Len(b4), a5)
    <3> HIDE DEF b4
    <3> QED BY <1>10, <1>18, <2>1, AtSplit
  <2>3. At(w, p, b3)
    <3> HIDE DEF b3
    <3> QED BY <1>9, <1>17, <2>2, AtSplit
  <2>4. At(w, p, b2)
    <3> HIDE DEF b2
    <3> QED BY <1>8, <1>16, <2>3, AtSplit
  <2>5. At(w, p, a1) /\ At(w, p + 1, a2)
    BY <1>6, <1>7, <2>4, AtSplit
  <2>6. w[p + 1] = f
    BY <2>5, AtOne DEF a1
  <2>7. ASSUME Has(f, SIZE) PROVE w[p + 2] = e.length \div Word /\ w[p + 3] = e.length % Word
    <3>1. At(w, p + 1, <<e.length \div Word, e.length % Word>>) /\ p + 1 \in Nat
      BY <1>12, <2>5, <2>7
    <3>2. w[p + 1 + 1] = e.length \div Word /\ w[p + 1 + 2] = e.length % Word
      BY <1>3, <3>1, AtTwo
    <3>3. p + 1 + 1 = p + 2 /\ p + 1 + 2 = p + 3
      OBVIOUS
    <3> QED BY <3>2, <3>3
  <2>8. ASSUME Has(f, ACMODTIME) PROVE w[p + BeforeTimes(f) + 2] = e.modified
    <3>1. At(w, p + BeforeTimes(f), <<accessed, e.modified>>) /\ p + BeforeTimes(f) \in Nat
      BY <1>13, <1>15, <1>18, <2>2, <2>8
    <3> QED BY <1>4, <3>1, AtTwo
  <2>9. ASSUME Has(f, EXTENDED) PROVE w[p + BeforeTimes(f) + TimeWords(f) + 1] = n
    <3> DEFINE q == p + BeforeTimes(f) + TimeWords(f)
    <3>1. At(w, p + (BeforeTimes(f) + TimeWords(f)), <<n>>)
      BY <1>14, <1>19, <2>1, <2>9
    <3>2. q \in Nat /\ p + (BeforeTimes(f) + TimeWords(f)) = q
      BY <1>15
    <3> HIDE DEF q
    <3>3. At(w, q, <<n>>)
      BY <3>1, <3>2
    <3>4. w[q + 1] = n
      BY <3>2, <3>3, AtOne
    <3> QED BY <3>4 DEF q
  <2> QED BY <2>6, <2>7, <2>8, <2>9
<1> HIDE DEF b5
<1> QED BY <1>1, <1>20, <1>21

\* stamp, up to the extended pairs: the reader stands after the attributes,
\* and has the stamp and the number of pairs they say.
LEMMA AttributesRead ==
  ASSUME Cut, NEW e \in Entry, NEW n \in PairCounts(flags), flags \in Nat, NEW p \in Nat,
         At(sent, p, Attributes(flags, e, n)), Within(AfterFlags(p))
  PROVE  /\ AfterFlags(p) = p + Len(Attributes(flags, e, n))
         /\ StampAt(p) = StampOf(flags, e) /\ PairsAt(p) = n
<1>1. n \in Nat /\ (~ Has(flags, EXTENDED) => n = 0)
  BY ListingAssumption DEF PairCounts
<1>2. /\ Len(Attributes(flags, e, n)) = BeforeTimes(flags) + TimeWords(flags) + PairWords(flags)
      /\ sent[p + 1] = flags
      /\ Has(flags, SIZE) => sent[p + 2] = e.length \div Word /\ sent[p + 3] = e.length % Word
      /\ Has(flags, ACMODTIME) => sent[p + BeforeTimes(flags) + 2] = e.modified
      /\ Has(flags, EXTENDED) => sent[p + BeforeTimes(flags) + TimeWords(flags) + 1] = n
  BY <1>1, AttributesLaid DEF Cut
<1>3. /\ Len(body) \in Nat /\ AfterFlags(p) \in Nat /\ AfterFlags(p) <= Len(body)
      /\ p < AfterFlags(p) /\ Extended(p) \in Nat
  <2>1. /\ Owner(p) \in Nat /\ Permissions(p) \in Nat /\ Times(p) \in Nat /\ Extended(p) \in Nat
        /\ AfterFlags(p) \in Nat
        /\ p < Owner(p) /\ Owner(p) <= Permissions(p) /\ Permissions(p) <= Times(p)
        /\ Times(p) <= Extended(p) /\ Extended(p) <= AfterFlags(p)
    BY Onward
  <2>2. Len(body) \in Nat /\ AfterFlags(p) <= Len(body)
    BY Peeks DEF Within
  <2> QED BY <2>1, <2>2
<1>4. Peek(p) = flags
  <2>1. p < Len(body)
    BY <1>3
  <2> QED BY <1>2, <2>1, Peeks
<1>5. /\ Owner(p) = p + 1 + SizeWords(flags)
  BY <1>4 DEF Owner, SizeWords
<1>6. /\ Permissions(p) = p + 1 + SizeWords(flags) + OwnerWords(flags)
  BY <1>4, <1>5 DEF Permissions, OwnerWords, SizeWords
<1>7. /\ Times(p) = p + BeforeTimes(flags)
  BY <1>4, <1>6 DEF Times, BeforeTimes, OwnerWords, SizeWords, PermissionWords
<1>8. /\ BeforeTimes(flags) \in Nat /\ TimeWords(flags) \in Nat
      /\ BeforeTimes(flags) >= 1 + SizeWords(flags) /\ SizeWords(flags) \in Nat
  BY DEF BeforeTimes, TimeWords, OwnerWords, SizeWords, PermissionWords
<1>9. /\ Extended(p) = p + BeforeTimes(flags) + TimeWords(flags)
  BY <1>4, <1>7, <1>8 DEF Extended, TimeWords
<1>10. AfterFlags(p) = p + BeforeTimes(flags) + TimeWords(flags) + PairWords(flags)
  BY <1>4, <1>8, <1>9 DEF AfterFlags, PairWords
<1>11. AfterFlags(p) = p + Len(Attributes(flags, e, n))
  BY <1>2, <1>8, <1>10 DEF PairWords
<1>12. PairsAt(p) = n
  <2>1. CASE Has(flags, EXTENDED)
    <3>1. AfterFlags(p) = Extended(p) + 1
      BY <1>4, <2>1 DEF AfterFlags
    <3>2. Extended(p) < Len(body)
      BY <1>3, <3>1
    <3>3. Peek(Extended(p)) = sent[Extended(p) + 1]
      BY <1>3, <3>2, Peeks
    <3> QED BY <1>2, <1>4, <1>9, <2>1, <3>3 DEF PairsAt
  <2>2. CASE ~ Has(flags, EXTENDED)
    BY <1>1, <1>4, <2>2 DEF PairsAt
  <2> QED BY <2>1, <2>2
<1>13. StampAt(p) = StampOf(flags, e)
  <2>1. CASE Has(flags, SIZE) /\ Has(flags, ACMODTIME)
    <3>1. SizeWords(flags) = 2 /\ TimeWords(flags) = 2 /\ PairWords(flags) \in Nat
      BY <2>1 DEF SizeWords, TimeWords, PairWords
    <3>2. p + 1 < Len(body) /\ p + 2 < Len(body) /\ p + BeforeTimes(flags) + 1 < Len(body)
      BY <1>3, <1>8, <1>10, <3>1
    <3>. /\ p + 1 \in Nat /\ p + 2 \in Nat /\ p + BeforeTimes(flags) + 1 \in Nat
      BY <1>8
    <3>3. \A q \in Nat : q < Len(body) => Peek(q) = sent[q + 1]
      BY Peeks
    <3>4. /\ Peek(p + 1) = sent[p + 1 + 1] /\ Peek(p + 2) = sent[p + 2 + 1]
          /\ Peek(p + BeforeTimes(flags) + 1) = sent[p + BeforeTimes(flags) + 1 + 1]
      BY <3>2, <3>3
    <3>5. /\ p + 1 + 1 = p + 2 /\ p + 2 + 1 = p + 3
          /\ p + BeforeTimes(flags) + 1 + 1 = p + BeforeTimes(flags) + 2
      BY <1>8
    <3>6. /\ Peek(p + 1) = e.length \div Word /\ Peek(p + 2) = e.length % Word
          /\ Peek(Times(p) + 1) = e.modified
      BY <1>2, <1>7, <2>1, <3>4, <3>5
    <3>7. Peek(p + 1) * Word + Peek(p + 2) = e.length
      BY <3>6, U64Back, ListingAssumption DEF Entry
    <3> QED BY <1>4, <2>1, <3>6, <3>7 DEF StampAt, StampOf
  <2>2. CASE ~ (Has(flags, SIZE) /\ Has(flags, ACMODTIME))
    BY <1>4, <2>2 DEF StampAt, StampOf
  <2> QED BY <2>1, <2>2
<1> QED BY <1>11, <1>12, <1>13

\* One round of entries, up to the extended pairs.
LEMMA EntryHeadRead ==
  ASSUME Cut, NEW e \in Entry, NEW n \in PairCounts(flags), flags \in Nat, NEW p \in Nat,
         At(sent, p, String(e.name) \o String(e.name) \o Attributes(flags, e, n)),
         Within(AfterFlags(AfterString(AfterString(p))))
  PROVE  /\ AfterFlags(AfterString(AfterString(p)))
              = p + Len(String(e.name) \o String(e.name) \o Attributes(flags, e, n))
         /\ SubSeq(body, p + 2, AfterString(p)) = e.name
         /\ StampAt(AfterString(AfterString(p))) = StampOf(flags, e)
         /\ PairsAt(AfterString(AfterString(p))) = n
<1> DEFINE a == Attributes(flags, e, n)
           str == String(e.name)
           long == AfterString(p)
           attrs == AfterString(long)
<1>1. e.name \in Words /\ n \in Nat
  <2>1. Seq(0 .. Word - 1) \subseteq Words
    BY ListingAssumption, SeqMonotonic DEF Words
  <2> QED BY <2>1, ListingAssumption DEF Entry, PairCounts
<1>2. a \in Words /\ str \in Words /\ Len(str) \in Nat /\ Len(a) \in Nat
  BY <1>1, AttributesLaid, StringWords, LenProperties DEF Words
<1>3. str \o str \in Words /\ Len(str \o str) = Len(str) + Len(str)
  BY <1>2, Joined
<1> HIDE DEF a, str
<1>4. Len(str \o str \o a) = Len(str) + Len(str) + Len(a)
  BY <1>2, <1>3, Joined
<1>5. At(sent, p, str \o str) /\ At(sent, p + (Len(str) + Len(str)), a)
  BY <1>2, <1>3, AtSplit DEF Cut, a, str
<1>6. At(sent, p, str) /\ At(sent, p + Len(str), str)
  BY <1>2, <1>5, AtSplit DEF Cut
<1>7. /\ long \in Nat /\ long > p /\ attrs \in Nat /\ attrs > long /\ AfterFlags(attrs) \in Nat
      /\ AfterFlags(attrs) > attrs
  <2>1. \A q \in Nat : AfterString(q) \in Nat /\ AfterString(q) > q
    BY Onward
  <2>2. long \in Nat /\ long > p
    BY <2>1
  <2>3. attrs \in Nat /\ attrs > long
    BY <2>1, <2>2
  <2>4. /\ Owner(attrs) \in Nat /\ Permissions(attrs) \in Nat /\ Times(attrs) \in Nat
        /\ Extended(attrs) \in Nat /\ AfterFlags(attrs) \in Nat
        /\ attrs < Owner(attrs) /\ Owner(attrs) <= Permissions(attrs)
        /\ Permissions(attrs) <= Times(attrs) /\ Times(attrs) <= Extended(attrs)
        /\ Extended(attrs) <= AfterFlags(attrs)
    <3> HIDE DEF attrs
    <3> QED BY <2>3, Onward
  <2>5. AfterFlags(attrs) > attrs
    <3> HIDE DEF attrs
    <3> QED BY <2>3, <2>4
  <2> QED BY <2>2, <2>3, <2>4, <2>5
<1>8. Len(body) \in Nat /\ AfterFlags(attrs) <= Len(body)
  BY Peeks DEF Within
<1> HIDE DEF long, attrs
<1>9. p < Len(body) /\ long < Len(body)
  BY <1>7, <1>8
<1>10. long = p + Len(str) /\ SubSeq(body, p + 2, long) = e.name
  <2>1. At(sent, p, String(e.name))
    BY <1>6 DEF str
  <2>2. Within(AfterString(p))
    BY <1>7, <1>8, <1>9 DEF Within, long
  <2> QED BY <1>1, <1>9, <2>1, <2>2, StringRead DEF long, str
<1>11. attrs = p + (Len(str) + Len(str))
  <2>1. At(sent, long, String(e.name))
    BY <1>6, <1>10 DEF str
  <2>2. attrs = long + Len(String(e.name))
    BY <1>1, <1>7, <1>9, <2>1, StringRead DEF attrs
  <2> QED BY <1>2, <1>10, <2>2 DEF str
<1>12. At(sent, attrs, Attributes(flags, e, n)) /\ Within(AfterFlags(attrs))
  BY <1>5, <1>11 DEF a, long, attrs
<1>13. /\ AfterFlags(attrs) = attrs + Len(a)
       /\ StampAt(attrs) = StampOf(flags, e) /\ PairsAt(attrs) = n
  BY <1>7, <1>12, AttributesRead DEF a
<1>14. AfterFlags(attrs) = p + (Len(str) + Len(str) + Len(a))
  BY <1>2, <1>11, <1>13
<1> QED BY <1>4, <1>10, <1>13, <1>14 DEF long, attrs, a, str

\* One round of stamp: an extended pair.
LEMMA PairIsRead ==
  ASSUME Cut, NEW x \in Words, NEW y \in Words, NEW p \in Nat,
         At(sent, p, String(x) \o String(y)), Within(AfterPair(p))
  PROVE  AfterPair(p) = p + Len(String(x) \o String(y))
<1> DEFINE long == AfterString(p)
<1>1. /\ String(x) \in Words /\ String(y) \in Words
      /\ Len(String(x)) \in Nat /\ Len(String(y)) \in Nat
      /\ Len(String(x) \o String(y)) = Len(String(x)) + Len(String(y))
  BY StringWords, Joined
<1>2. At(sent, p, String(x)) /\ At(sent, p + Len(String(x)), String(y))
  BY <1>1, AtSplit DEF Cut
<1>3. long \in Nat /\ long > p
  BY Onward
<1>4. Len(body) \in Nat /\ AfterString(long) <= Len(body)
  BY Peeks DEF Within, AfterPair
<1> HIDE DEF long
<1>5. AfterString(long) \in Nat /\ AfterString(long) > long
  BY <1>3, Onward
<1>6. p < Len(body) /\ long < Len(body)
  BY <1>3, <1>4, <1>5
<1>7. long = p + Len(String(x))
  BY <1>2, <1>6, StringRead DEF long
<1>8. AfterString(long) = long + Len(String(y))
  BY <1>2, <1>3, <1>6, <1>7, StringRead
<1>9. AfterString(long) = p + (Len(String(x)) + Len(String(y)))
  BY <1>1, <1>7, <1>8
<1> QED BY <1>1, <1>9 DEF AfterPair, long
-----------------------------------------------------------------------------
(***************************************************************************)
(* A reply, item by item.                                                  *)
(***************************************************************************)
Stamps == [length : Nat, modified : Nat, known : BOOLEAN]
Listed == [name : Words, stamp : Stamps]

\* An entry up to its extended pairs, as it is written and as it is had.
EntryWords(as, f, e, n) ==
  IF as = "list" THEN String(e.name) \o String(e.name) \o Attributes(f, e, n)
                 ELSE Attributes(f, e, n)
Said(as, f, e) == [name |-> IF as = "list" THEN e.name ELSE <<>>, stamp |-> StampOf(f, e)]

HeadAt(as, f, w, p, q, l, n) ==
  /\ n \in PairCounts(f)
  /\ \E e \in Entry : /\ l = Said(as, f, e) /\ At(w, p, EntryWords(as, f, e, n))
                     /\ q = p + Len(EntryWords(as, f, e, n))

PairAt(w, p, q) ==
  \E x, y \in Extension :
    At(w, p, String(x) \o String(y)) /\ q = p + Len(String(x) \o String(y))

\* An item: of which entry it is, how many pairs of it follow, and where it ends.
Item == [nth : Nat, rest : Nat, end : Nat]
Nth(i) == i.nth
Rest(i) == i.rest
End(i) == i.end

\* Item j follows item i among the words w, the entries being s.
Follows(as, f, w, s, i, j) ==
  \/ Rest(i) = 0 /\ Nth(j) = Nth(i) + 1 /\ HeadAt(as, f, w, End(i), End(j), s[Nth(j)], Rest(j))
  \/ Rest(i) > 0 /\ Nth(j) = Nth(i) /\ Rest(j) = Rest(i) - 1 /\ PairAt(w, End(i), End(j))

\* The words w are the items 1 .. n, of entries that end with s; item 0
\* stands for what is before them.
Laid(as, f, w, s, n, item) ==
  /\ n \in Nat /\ item \in [0 .. n -> Item] /\ Rest(item[0]) = 0
  /\ \A j \in 1 .. n : Follows(as, f, w, s, item[j - 1], item[j])
  /\ \A j \in 0 .. n : Nth(item[j]) <= Nth(item[n])
  /\ End(item[n]) = Len(w) /\ Nth(item[n]) = Len(s)

\* An entry is words, and is had as a name and a stamp.
LEMMA HeadWords ==
  ASSUME NEW as, NEW f \in Nat, NEW e \in Entry, NEW n \in PairCounts(f)
  PROVE  /\ e.name \in Words /\ n \in Nat
         /\ EntryWords(as, f, e, n) \in Words /\ Len(EntryWords(as, f, e, n)) \in Nat
         /\ Attributes(f, e, n) \in Words /\ StampOf(f, e) \in Stamps /\ Said(as, f, e) \in Listed
<1>1. e.name \in Words /\ n \in Nat
  <2>1. Seq(0 .. Word - 1) \subseteq Words
    BY ListingAssumption, SeqMonotonic DEF Words
  <2> QED BY <2>1, ListingAssumption DEF Entry, PairCounts
<1>2. Attributes(f, e, n) \in Words /\ String(e.name) \in Words
  BY <1>1, AttributesLaid, StringWords
<1>3. EntryWords(as, f, e, n) \in Words
  BY <1>2, Joined DEF EntryWords
<1>4. e.length \in Nat /\ e.modified \in Nat
  <2>1. e.length \in 0 .. Word * Word - 1 /\ e.modified \in 0 .. Word - 1
    BY ListingAssumption DEF Entry
  <2>2. e.length \in Nat
    BY <2>1, U64Back
  <2>3. e.modified \in Nat
    BY <2>1, ListingAssumption
  <2> QED BY <2>2, <2>3
<1>5. StampOf(f, e) \in Stamps
  BY <1>4 DEF StampOf, Stamps, NoStamp
<1>6. Said(as, f, e) \in Listed
  <2>1. <<>> \in Words
    BY DEF Words
  <2> QED BY <1>1, <1>5, <2>1 DEF Said, Listed
<1> QED BY <1>1, <1>2, <1>3, <1>5, <1>6, LenProperties DEF Words

\* The strings of pairs are words.
LEMMA ExtensionWords == Extension \subseteq Words
BY ListingAssumption, SeqMonotonic DEF Words

\* What was written stays where it is as more is written.
LEMMA FollowsStill ==
  ASSUME NEW as, NEW f \in Nat, NEW w \in Words, NEW u \in Words, NEW s \in Seq(Listed),
         NEW t \in Seq(Listed), \A k \in 1 .. Len(s) : t[k] = s[k],
         NEW i \in Item, NEW j \in Item, Nth(j) <= Len(s), Follows(as, f, w, s, i, j)
  PROVE  Follows(as, f, w \o u, t, i, j)
<1>1. End(i) \in Nat /\ Nth(i) \in Nat /\ Len(s) \in Nat
  BY LenProperties DEF Item, Nth, Rest, End
<1>2. \A x \in Words : At(w, End(i), x) => At(w \o u, End(i), x)
  BY <1>1, AtJoined
<1>3. CASE Rest(i) = 0 /\ Nth(j) = Nth(i) + 1 /\ HeadAt(as, f, w, End(i), End(j), s[Nth(j)], Rest(j))
  <2>1. t[Nth(j)] = s[Nth(j)]
    <3>1. Nth(j) \in 1 .. Len(s)
      BY <1>1, <1>3
    <3> QED BY <3>1
  <2>2. PICK e \in Entry : /\ s[Nth(j)] = Said(as, f, e)
                           /\ At(w, End(i), EntryWords(as, f, e, Rest(j)))
                           /\ End(j) = End(i) + Len(EntryWords(as, f, e, Rest(j)))
    BY <1>3 DEF HeadAt
  <2>3. Rest(j) \in PairCounts(f)
    BY <1>3 DEF HeadAt
  <2>4. At(w \o u, End(i), EntryWords(as, f, e, Rest(j)))
    BY <1>2, <2>2, <2>3, HeadWords
  <2> QED BY <1>3, <2>1, <2>2, <2>3, <2>4 DEF Follows, HeadAt
<1>4. CASE Rest(i) > 0 /\ Nth(j) = Nth(i) /\ Rest(j) = Rest(i) - 1 /\ PairAt(w, End(i), End(j))
  <2>1. PICK x \in Extension, y \in Extension :
          At(w, End(i), String(x) \o String(y)) /\ End(j) = End(i) + Len(String(x) \o String(y))
    BY <1>4 DEF PairAt
  <2>2. String(x) \o String(y) \in Words
    BY ExtensionWords, StringWords, Joined
  <2>3. At(w \o u, End(i), String(x) \o String(y))
    BY <1>2, <2>1, <2>2
  <2> QED BY <1>4, <2>1, <2>3 DEF Follows, PairAt
<1> QED BY <1>3, <1>4 DEF Follows

\* The entries t begin with those of s.
Begins(s, t) == \A k \in 1 .. Len(s) : t[k] = s[k]

\* The items, and one more.
OneMore(n, item, i) == [j \in 0 .. n + 1 |-> IF j <= n THEN item[j] ELSE i]

\* What follows the last item is one item more of a reply.
LEMMA LaidOn ==
  ASSUME NEW as, NEW f \in Nat, NEW w \in Words, NEW u \in Words, NEW s \in Seq(Listed),
         NEW t \in Seq(Listed), Begins(s, t),
         NEW n, NEW item, Laid(as, f, w, s, n, item),
         NEW i \in Item, Follows(as, f, w \o u, t, item[n], i),
         End(i) = Len(w \o u), Nth(i) = Len(t)
  PROVE  Laid(as, f, w \o u, t, n + 1, OneMore(n, item, i))
<1> DEFINE more == OneMore(n, item, i)
<1>9. \A k \in 1 .. Len(s) : t[k] = s[k]
  BY DEF Begins
<1>1. n \in Nat /\ item \in [0 .. n -> Item] /\ Rest(item[0]) = 0
  BY DEF Laid
<1>2. more \in [0 .. n + 1 -> Item] /\ more[n + 1] = i /\ \A j \in 0 .. n : more[j] = item[j]
  BY <1>1 DEF OneMore
<1>3. \A j \in 0 .. n + 1 : j = n + 1 \/ j \in 0 .. n
  BY <1>1
<1>4. 0 \in 0 .. n /\ n \in 0 .. n /\ n + 1 \in Nat /\ n + 1 - 1 = n
  BY <1>1
<1> HIDE DEF more
<1>5. Nth(i) \in Nat /\ Nth(item[n]) \in Nat /\ Nth(item[n]) <= Nth(i)
  <2>1. item[n] \in Item
    BY <1>1, <1>4
  <2>2. Nth(i) \in Nat /\ Nth(item[n]) \in Nat
    BY <2>1 DEF Item, Nth, Rest, End
  <2>3. Nth(i) = Nth(item[n]) + 1 \/ Nth(i) = Nth(item[n])
    BY DEF Follows
  <2> QED BY <2>2, <2>3
<1>6. ASSUME NEW j \in 0 .. n + 1 PROVE Nth(more[j]) <= Nth(more[n + 1])
  <2>1. CASE j = n + 1
    BY <1>2, <1>5, <2>1
  <2>2. CASE j \in 0 .. n
    <3>1. more[j] = item[j] /\ Nth(item[j]) <= Nth(item[n]) /\ Nth(item[j]) \in Nat
      BY <1>1, <1>2, <2>2 DEF Laid, Item, Nth, Rest, End
    <3>2. Nth(item[j]) <= Nth(i)
      <4>1. Nth(item[j]) <= Nth(item[n]) /\ Nth(item[j]) \in Nat
        BY <3>1
      <4> QED BY <1>5, <4>1
    <3> QED BY <1>2, <3>1, <3>2
  <2> QED BY <1>3, <2>1, <2>2
<1>7. ASSUME NEW j \in 1 .. n + 1 PROVE Follows(as, f, w \o u, t, more[j - 1], more[j])
  <2>1. CASE j = n + 1
    <3>1. more[j - 1] = item[n] /\ more[j] = i
      BY <1>2, <1>4, <2>1
    <3> QED BY <3>1
  <2>2. CASE j # n + 1
    <3>1. j \in 1 .. n /\ j \in 0 .. n /\ j - 1 \in 0 .. n
      BY <1>1, <2>2
    <3>2. Follows(as, f, w, s, item[j - 1], item[j]) /\ Nth(item[j]) <= Len(s)
      BY <3>1 DEF Laid
    <3>3. item[j - 1] \in Item /\ item[j] \in Item
      BY <1>1, <3>1
    <3>4. Follows(as, f, w \o u, t, item[j - 1], item[j])
      BY <3>2, <3>3, <1>9, FollowsStill
    <3> QED BY <1>2, <3>1, <3>4
  <2> QED BY <2>1, <2>2
<1>8. Laid(as, f, w \o u, t, n + 1, more)
  BY <1>1, <1>2, <1>4, <1>6, <1>7 DEF Laid
<1> QED BY <1>2, <1>4, <1>8 DEF more

\* An item, and which entry it can be of.
LEMMA ItemOf ==
  ASSUME NEW as, NEW f, NEW w, NEW s, NEW n, NEW item, Laid(as, f, w, s, n, item),
         NEW j \in 0 .. n
  PROVE  item[j] \in Item /\ Nth(item[j]) <= Len(s) /\ Len(s) \in Nat
<1>1. n \in Nat /\ item \in [0 .. n -> Item] /\ Nth(item[n]) = Len(s) /\ n \in 0 .. n
  BY DEF Laid
<1>2. item[j] \in Item /\ item[n] \in Item
  BY <1>1
<1>3. Nth(item[j]) <= Nth(item[n])
  BY DEF Laid
<1> QED BY <1>1, <1>2, <1>3 DEF Item, Nth, Rest, End

\* Every item but the last is followed by one.
LEMMA NotLast ==
  ASSUME NEW as, NEW f, NEW w, NEW s, NEW n, NEW item, Laid(as, f, w, s, n, item),
         NEW j \in 0 .. n, j # n
  PROVE  j + 1 \in 0 .. n /\ Follows(as, f, w, s, item[j], item[j + 1])
<1>1. n \in Nat
  BY DEF Laid
<1>2. PICK k : k = j + 1
  OBVIOUS
<1>3. k \in 1 .. n /\ k \in 0 .. n /\ k - 1 = j
  BY <1>1, <1>2
<1>4. Follows(as, f, w, s, item[k - 1], item[k])
  BY <1>3 DEF Laid
<1> QED BY <1>2, <1>3, <1>4

\* The reader that has not had every entry and every pair is before an item ...
LEMMA BeforeItem ==
  ASSUME NEW as, NEW f, NEW w, NEW s, NEW n, NEW item, Laid(as, f, w, s, n, item),
         Rest(item[n]) = 0, NEW j \in 0 .. n, Rest(item[j]) > 0 \/ Nth(item[j]) < Len(s)
  PROVE  j + 1 \in 0 .. n /\ Follows(as, f, w, s, item[j], item[j + 1])
<1>1. Nth(item[n]) = Len(s) /\ Len(s) \in Nat
  BY ItemOf DEF Laid
<1>2. j # n
  BY <1>1
<1> QED BY <1>2, NotLast

\* ... and the one that has is at the end.
LEMMA AtTheEnd ==
  ASSUME NEW as, NEW f, NEW w, NEW s, NEW n, NEW item, Laid(as, f, w, s, n, item),
         NEW j \in 0 .. n, Rest(item[j]) = 0, Nth(item[j]) = Len(s)
  PROVE  j = n
<1> SUFFICES ASSUME j # n PROVE FALSE
  OBVIOUS
<1>1. PICK k : k = j + 1
  OBVIOUS
<1>2. k \in 0 .. n /\ Follows(as, f, w, s, item[j], item[k])
  BY <1>1, NotLast
<1>3. Nth(item[k]) = Nth(item[j]) + 1
  BY <1>2 DEF Follows
<1>4. Nth(item[k]) <= Len(s) /\ Len(s) \in Nat
  BY <1>2, ItemOf
<1> QED BY <1>3, <1>4
-----------------------------------------------------------------------------
(***************************************************************************)
(* The inductive invariant.                                                *)
(***************************************************************************)
ListingType ==
  /\ asked \in {"list", "stat"} /\ flags \in Nat /\ sent \in Words /\ due \in Nat /\ owed \in Nat
  /\ said \in Seq(Listed) /\ whole \in BOOLEAN /\ body \in Words /\ at \in Nat /\ left \in Nat
  /\ found \in Listed /\ pairs \in Nat /\ (pc # "done" => names \in Seq(Listed))
  /\ pc \in {"ask", "write", "entry", "stamp", "pair", "done", "error"}

\* A reply being written.
Written(n, item) ==
  /\ Laid(asked, flags, sent, said, n, item) /\ Rest(item[n]) = owed
  /\ Nth(item[0]) = Len(names) /\ End(item[0]) = IF asked = "list" THEN 2 ELSE 1

WriteInv ==
  pc = "write" =>
    /\ whole /\ \E n, item : Written(n, item)
    /\ asked = "list" => Len(sent) >= 2 /\ Len(names) + sent[2] = Len(said) + due
    /\ asked = "stat" => Len(said) = 1 /\ names = <<>> /\ due = 0

\* The reader between two items.
Place(item, j) ==
  /\ at = End(item[j]) /\ at <= Len(body)
  /\ pc = "entry" => /\ asked = "list" /\ Rest(item[j]) = 0 /\ Len(names) = Nth(item[j])
                     /\ left + Len(names) = Len(said)
  /\ pc = "stamp" => /\ asked = "stat" /\ Rest(item[j]) = 0 /\ Nth(item[j]) = 0
                     /\ names = <<>> /\ Len(said) = 1
  /\ pc = "pair" => /\ pairs = Rest(item[j]) /\ found = said[Nth(item[j])]
                    /\ Nth(item[j]) = Len(names) + 1
                    /\ asked = "list" => left + Len(names) = Len(said)
                    /\ asked = "stat" => Len(said) = 1

Between(n, item, j) ==
  /\ Laid(asked, flags, sent, said, n, item) /\ Rest(item[n]) = 0 /\ j \in 0 .. n /\ Place(item, j)

ReadInv ==
  pc \in {"entry", "stamp", "pair"} =>
    Cut /\ (whole <=> Len(body) = Len(sent)) /\ \E n, item, j : Between(n, item, j)

AskInv == pc = "ask" => whole /\ names = said /\ (asked = "stat" => said = <<>>)

ListInv ==
  /\ ListingType /\ WriteInv /\ ReadInv /\ AskInv
  /\ ReadIsPrefix /\ ListedIsSent /\ StatIsSent

\* A reply of no items yet: the words w, before the first of them.
NoItem(w, s) == [j \in 0 .. 0 |-> [nth |-> Len(s), rest |-> 0, end |-> Len(w)]]

\* A reply of which no item is written yet.
LEMMA LaidNone ==
  ASSUME NEW as, NEW f, NEW w \in Words, NEW s \in Seq(Listed)
  PROVE  /\ Laid(as, f, w, s, 0, NoItem(w, s))
         /\ Nth(NoItem(w, s)[0]) = Len(s) /\ Rest(NoItem(w, s)[0]) = 0
         /\ End(NoItem(w, s)[0]) = Len(w)
<1> DEFINE i == [nth |-> Len(s), rest |-> 0, end |-> Len(w)]
           item == NoItem(w, s)
<1>1. Len(s) \in Nat /\ Len(w) \in Nat
  BY LenProperties DEF Words
<1>2. i \in Item /\ Rest(i) = 0 /\ Nth(i) = Len(s) /\ End(i) = Len(w)
  BY <1>1 DEF Item, Nth, Rest, End
<1> HIDE DEF i
<1>3. item \in [0 .. 0 -> Item] /\ item[0] = i /\ \A j \in 0 .. 0 : item[j] = i
  BY <1>2 DEF NoItem, i
<1>4. \A j \in 1 .. 0 : FALSE
  OBVIOUS
<1>5. \A j \in 0 .. 0 : Nth(item[j]) <= Nth(item[0])
  BY <1>1, <1>2, <1>3
<1> HIDE DEF item
<1>6. Laid(as, f, w, s, 0, item)
  BY <1>2, <1>3, <1>4, <1>5 DEF Laid
<1> QED BY <1>2, <1>3, <1>6 DEF item

\* One more item is written.
LEMMA ItemWritten ==
  ASSUME flags \in Nat, sent \in Words, said \in Seq(Listed), UNCHANGED <<asked, flags, names>>,
         NEW u \in Words, sent' = sent \o u, said' \in Seq(Listed),
         \A k \in 1 .. Len(said) : said'[k] = said[k],
         NEW n, NEW item, Written(n, item), owed' \in Nat,
         NEW i, i = [nth |-> Len(said'), rest |-> owed', end |-> Len(sent \o u)],
         Follows(asked, flags, sent \o u, said', item[n], i)
  PROVE  \E k, more : Written(k, more)'
<1>1. Len(said') \in Nat /\ Len(sent \o u) \in Nat
  BY LenProperties, Joined DEF Words
<1>2. i \in Item /\ Nth(i) = Len(said') /\ End(i) = Len(sent \o u) /\ Rest(i) = owed'
  BY <1>1 DEF Item, Nth, Rest, End
<1>3. Laid(asked, flags, sent, said, n, item) /\ n \in Nat
  BY DEF Written, Laid
<1>8. PICK more : more = OneMore(n, item, i)
  OBVIOUS
<1>4. /\ Laid(asked, flags, sent \o u, said', n + 1, more)
      /\ more[0] = item[0] /\ more[n + 1] = i
  <2>1. /\ Laid(asked, flags, sent, said, n, item) /\ i \in Item
        /\ End(i) = Len(sent \o u) /\ Nth(i) = Len(said')
    BY <1>2, <1>3
  <2>2. Begins(said, said')
    BY DEF Begins
  <2>3. Laid(asked, flags, sent \o u, said', n + 1, OneMore(n, item, i))
    BY <2>1, <2>2, LaidOn
  <2>4. OneMore(n, item, i)[0] = item[0] /\ OneMore(n, item, i)[n + 1] = i
    <3>1. 0 \in 0 .. n + 1 /\ n + 1 \in 0 .. n + 1 /\ 0 <= n /\ ~ (n + 1 <= n)
      BY <1>3
    <3> QED BY <3>1 DEF OneMore
  <2> QED BY <1>8, <2>3, <2>4
<1>5. PICK k : k = n + 1
  OBVIOUS
<1>6. Laid(asked, flags, sent, said, k, more)'
  BY <1>4, <1>5
<1>7. Written(k, more)'
  BY <1>2, <1>4, <1>5, <1>6 DEF Written
<1> QED BY <1>7

-----------------------------------------------------------------------------
(***************************************************************************)
(* Each step keeps it.  Writing.                                           *)
(***************************************************************************)
\* A NAME reply begins, with its count.
LEMMA NameReplyKeeps ==
  ASSUME ListInv, NEW n \in 0 .. MaxEntries, NameReply(n)
  PROVE  ListInv'
<1> DEFINE w == <<0, n>>
<1>1. /\ UNCHANGED <<asked, flags, said, whole, body, at, left, found, pairs, names>>
      /\ asked = "list" /\ pc = "ask" /\ pc' = "write" /\ sent' = w /\ due' = n /\ owed' = 0
  BY DEF NameReply, reading
<1>2. /\ n \in Nat /\ w \in Words /\ Len(w) = 2 /\ w[2] = n
  BY ListingAssumption DEF Words
<1> HIDE DEF w
<1>3. whole /\ names = said /\ ListingType
  BY <1>1 DEF ListInv, AskInv
<1>4. ListingType'
  BY <1>1, <1>2, <1>3 DEF ListingType
<1>5. said \in Seq(Listed) /\ Len(said) \in Nat
  BY <1>3, LenProperties DEF ListingType
<1>12. PICK item : item = NoItem(w, said)
  OBVIOUS
<1>6. /\ Laid(asked, flags, w, said, 0, item)
      /\ Nth(item[0]) = Len(said) /\ Rest(item[0]) = 0 /\ End(item[0]) = Len(w)
  <2>1. w \in Words /\ said \in Seq(Listed)
    BY <1>2, <1>5
  <2> QED BY <1>12, <2>1, LaidNone
<1>7. Laid(asked, flags, sent, said, 0, item)'
  BY <1>1, <1>6
<1>8. Written(0, item)'
  <2>1. Rest(item[0]) = 0 /\ Nth(item[0]) = Len(names) /\ End(item[0]) = 2
    BY <1>2, <1>3, <1>6
  <2> QED BY <1>1, <1>7, <2>1 DEF Written
<1>9. WriteInv'
  <2>1. Len(sent') >= 2 /\ Len(names') + sent'[2] = Len(said') + due'
    BY <1>1, <1>2, <1>3, <1>5
  <2> QED BY <1>1, <1>3, <1>8, <2>1 DEF WriteInv
<1>10. ReadIsPrefix'
  BY <1>1, <1>3, <1>5 DEF ReadIsPrefix
<1>11. ReadInv' /\ AskInv' /\ ListedIsSent' /\ StatIsSent'
  BY <1>1 DEF ReadInv, AskInv, ListedIsSent, StatIsSent
<1> QED BY <1>4, <1>9, <1>10, <1>11 DEF ListInv

\* One round of name_reply: an entry is one item more.
LEMMA NameEntryKeeps ==
  ASSUME ListInv, NEW e \in Entry, NEW n \in PairCounts(flags), NameEntry(e, n)
  PROVE  ListInv'
<1> DEFINE str == String(e.name)
           a == Attributes(flags, e, n)
           l == [name |-> e.name, stamp |-> StampOf(flags, e)]
           u == EntryWords(asked, flags, e, n)
<1>1. /\ UNCHANGED <<asked, flags, whole, body, at, left, found, pairs, names, pc>>
      /\ pc = "write" /\ due > 0 /\ owed = 0 /\ due' = due - 1 /\ owed' = n
      /\ sent' = sent \o str \o str \o a /\ said' = Append(said, l)
  BY DEF NameEntry, reading
<1>2. ListingType /\ whole /\ asked = "list" /\ flags \in Nat /\ sent \in Words
  <2>1. ListingType /\ WriteInv
    BY DEF ListInv
  <2>2. whole /\ asked = "list"
    BY <1>1, <2>1 DEF WriteInv, ListingType
  <2> QED BY <2>1, <2>2 DEF ListingType
<1>3. /\ said \in Seq(Listed) /\ names \in Seq(Listed) /\ Len(said) \in Nat /\ Len(names) \in Nat
      /\ Len(sent) \in Nat /\ due \in Nat
  BY <1>1, <1>2, LenProperties DEF ListingType, Words
<1>4. PICK k, item : Written(k, item)
  BY <1>1 DEF ListInv, WriteInv
<1>5. /\ n \in Nat /\ e.name \in Words /\ a \in Words /\ u \in Words
      /\ Said(asked, flags, e) \in Listed /\ Said(asked, flags, e) = l
  BY <1>2, HeadWords DEF Said
<1>6. str \in Words /\ str \o str \in Words
  BY <1>5, StringWords, Joined
<1> HIDE DEF str, a
<1>7. sent' = sent \o u
  <2>1. PICK twice : twice = str \o str
    OBVIOUS
  <2>2. u = twice \o a
    BY <1>2, <2>1 DEF EntryWords, str, a
  <2>3. sent \o str \o str = sent \o twice
    BY <1>2, <1>6, <2>1, JoinedThrice
  <2>4. (sent \o twice) \o a = sent \o (twice \o a)
    <3>1. sent \in Words /\ twice \in Words /\ a \in Words
      BY <1>2, <1>5, <1>6, <2>1
    <3> QED BY <3>1, JoinedThrice
  <2> QED BY <1>1, <2>2, <2>3, <2>4
<1> HIDE DEF l, u
<1>8. /\ said' \in Seq(Listed) /\ Len(said') = Len(said) + 1 /\ said'[Len(said) + 1] = l
      /\ \A i \in 1 .. Len(said) : said'[i] = said[i]
  <2>1. said' = Append(said, l) /\ said \in Seq(Listed) /\ l \in Listed
    BY <1>1, <1>3, <1>5
  <2> QED BY <2>1, AppendProperties
<1>9. PICK i : i = [nth |-> Len(said'), rest |-> owed', end |-> Len(sent \o u)]
  OBVIOUS
<1>10. Follows(asked, flags, sent \o u, said', item[k], i)
  <2>1. Rest(item[k]) = 0 /\ Nth(item[k]) = Len(said) /\ End(item[k]) = Len(sent)
    BY <1>1, <1>4 DEF Written, Laid
  <2>2. At(sent \o u, Len(sent), u) /\ Len(sent \o u) = Len(sent) + Len(u)
    BY <1>2, <1>5, AtJoined, Joined
  <2>3. HeadAt(asked, flags, sent \o u, Len(sent), Len(sent \o u), l, n)
    BY <1>5, <2>2 DEF HeadAt, u
  <2>4. Nth(i) = Nth(item[k]) + 1 /\ End(i) = Len(sent \o u) /\ Rest(i) = n /\ said'[Nth(i)] = l
    <3>1. Nth(i) = Len(said') /\ End(i) = Len(sent \o u) /\ Rest(i) = n
      BY <1>1, <1>9 DEF Nth, Rest, End
    <3>2. Nth(i) = Nth(item[k]) + 1
      BY <1>8, <2>1, <3>1
    <3>3. said'[Nth(i)] = l
      BY <1>8, <3>1
    <3> QED BY <3>1, <3>2, <3>3
  <2> QED BY <2>1, <2>3, <2>4 DEF Follows
<1>11. \E m, more : Written(m, more)'
  BY <1>1, <1>2, <1>3, <1>4, <1>5, <1>7, <1>8, <1>9, <1>10, ItemWritten
<1>12. Len(sent) >= 2 /\ Len(names) + sent[2] = Len(said) + due
  BY <1>1, <1>2 DEF ListInv, WriteInv
<1>13. sent' \in Words /\ Len(sent') >= 2 /\ sent'[2] = sent[2]
  <2>1. /\ sent \o u \in Words /\ Len(sent \o u) = Len(sent) + Len(u) /\ Len(u) \in Nat
        /\ \A j \in 1 .. Len(sent) : (sent \o u)[j] = sent[j]
    BY <1>2, <1>5, Joined
  <2>2. 2 \in 1 .. Len(sent)
    BY <1>3, <1>12
  <2> QED BY <1>3, <1>7, <1>12, <2>1, <2>2
<1>14. Len(names) + sent[2] = Len(said) + 1 + (due - 1) /\ due - 1 \in Nat
  <2>1. Len(said) + 1 + (due - 1) = Len(said) + due /\ due - 1 \in Nat
    BY <1>1, <1>3
  <2> QED BY <1>12, <2>1
<1>15. WriteInv'
  BY <1>1, <1>2, <1>8, <1>11, <1>13, <1>14 DEF WriteInv
<1>16. ListingType'
  BY <1>1, <1>2, <1>5, <1>8, <1>13, <1>14 DEF ListingType
<1>17. ReadIsPrefix'
  <2>1. Len(names) <= Len(said) /\ \A d \in DOMAIN names : names[d] = said[d]
    BY <1>1 DEF ListInv, ReadIsPrefix
  <2>2. DOMAIN names = 1 .. Len(names) /\ \A d \in DOMAIN names : d \in 1 .. Len(said)
    BY <1>3, <2>1, LenProperties
  <2>3. Len(names') <= Len(said')
    <3>1. Len(said') = Len(said) + 1 /\ names' = names
      BY <1>1, <1>8
    <3> QED BY <1>3, <2>1, <3>1
  <2>4. \A d \in DOMAIN names' : names'[d] = said'[d]
    BY <1>1, <1>8, <2>1, <2>2
  <2> QED BY <2>3, <2>4 DEF ReadIsPrefix
<1>18. ReadInv' /\ AskInv' /\ ListedIsSent' /\ StatIsSent'
  BY <1>1 DEF ReadInv, AskInv, ListedIsSent, StatIsSent
<1> QED BY <1>15, <1>16, <1>17, <1>18 DEF ListInv

\* An extended pair is one item more.
LEMMA PairKeeps ==
  ASSUME ListInv, NEW x \in Extension, NEW y \in Extension, Pair(x, y)
  PROVE  ListInv'
<1> DEFINE u == String(x) \o String(y)
<1>1. /\ UNCHANGED <<asked, flags, due, said, whole, body, at, left, found, pairs, names, pc>>
      /\ pc = "write" /\ owed > 0 /\ owed' = owed - 1
      /\ sent' = sent \o String(x) \o String(y)
  BY DEF Pair, reading
<1>2. ListingType /\ whole /\ flags \in Nat /\ sent \in Words
  BY <1>1 DEF ListInv, WriteInv, ListingType
<1>3. /\ said \in Seq(Listed) /\ names \in Seq(Listed) /\ Len(said) \in Nat /\ Len(names) \in Nat
      /\ Len(sent) \in Nat /\ owed \in Nat
  BY <1>1, <1>2, LenProperties DEF ListingType, Words
<1>4. PICK k, item : Written(k, item)
  BY <1>1 DEF ListInv, WriteInv
<1>5. String(x) \in Words /\ String(y) \in Words /\ u \in Words
  BY ExtensionWords, StringWords, Joined
<1>6. sent' = sent \o u
  BY <1>1, <1>2, <1>5, JoinedThrice
<1> HIDE DEF u
<1>7. owed' \in Nat
  BY <1>1, <1>3
<1>8. PICK i : i = [nth |-> Len(said'), rest |-> owed', end |-> Len(sent \o u)]
  OBVIOUS
<1>9. Follows(asked, flags, sent \o u, said', item[k], i)
  <2>1. Rest(item[k]) = owed /\ Nth(item[k]) = Len(said) /\ End(item[k]) = Len(sent)
    BY <1>4 DEF Written, Laid
  <2>2. At(sent \o u, Len(sent), u) /\ Len(sent \o u) = Len(sent) + Len(u)
    BY <1>2, <1>5, AtJoined, Joined
  <2>3. PairAt(sent \o u, Len(sent), Len(sent \o u))
    BY <2>2 DEF PairAt, u
  <2>4. Nth(i) = Len(said') /\ End(i) = Len(sent \o u) /\ Rest(i) = owed'
    BY <1>8 DEF Nth, Rest, End
  <2>5. Nth(i) = Nth(item[k]) /\ Rest(i) = Rest(item[k]) - 1 /\ Rest(item[k]) > 0
    BY <1>1, <2>1, <2>4
  <2> QED BY <2>1, <2>3, <2>4, <2>5 DEF Follows
<1>10. \E m, more : Written(m, more)'
  BY <1>1, <1>2, <1>3, <1>4, <1>5, <1>6, <1>7, <1>8, <1>9, ItemWritten
<1>11. sent' \in Words /\ (Len(sent) >= 2 => Len(sent') >= 2 /\ sent'[2] = sent[2])
  <2>1. /\ sent \o u \in Words /\ Len(sent \o u) = Len(sent) + Len(u) /\ Len(u) \in Nat
        /\ \A j \in 1 .. Len(sent) : (sent \o u)[j] = sent[j]
    BY <1>2, <1>5, Joined
  <2>2. Len(sent) >= 2 => 2 \in 1 .. Len(sent)
    BY <1>3
  <2> QED BY <1>3, <1>6, <2>1, <2>2
<1>12. WriteInv'
  BY <1>1, <1>2, <1>10, <1>11 DEF ListInv, WriteInv
<1>13. ListingType'
  BY <1>1, <1>2, <1>7, <1>11 DEF ListingType
<1>14. ReadIsPrefix'
  BY <1>1 DEF ListInv, ReadIsPrefix
<1>15. ReadInv' /\ AskInv' /\ ListedIsSent' /\ StatIsSent'
  BY <1>1 DEF ReadInv, AskInv, ListedIsSent, StatIsSent
<1> QED BY <1>12, <1>13, <1>14, <1>15 DEF ListInv

\* The answer to a STAT is one item.
LEMMA AttrsReplyKeeps ==
  ASSUME ListInv, NEW e \in Entry, NEW n \in PairCounts(flags), AttrsReply(e, n)
  PROVE  ListInv'
<1> DEFINE u == EntryWords(asked, flags, e, n)
           l == [name |-> <<>>, stamp |-> StampOf(flags, e)]
           w == <<0>>
           none == <<>>
           one == <<l>>
<1>1. /\ UNCHANGED <<asked, flags, whole, body, at, left, found, pairs, names>>
      /\ asked = "stat" /\ pc = "ask" /\ pc' = "write" /\ due' = 0 /\ owed' = n
      /\ sent' = w \o Attributes(flags, e, n) /\ said' = one
  BY DEF AttrsReply, reading
<1>2. whole /\ names = <<>> /\ ListingType /\ flags \in Nat
  BY <1>1 DEF ListInv, AskInv, ListingType
<1>3. /\ n \in Nat /\ u \in Words /\ Said(asked, flags, e) \in Listed
      /\ Said(asked, flags, e) = l /\ u = Attributes(flags, e, n)
  BY <1>1, <1>2, HeadWords DEF Said, EntryWords
<1>4. /\ w \in Words /\ Len(w) = 1 /\ none \in Seq(Listed) /\ Len(none) = 0
      /\ one \in Seq(Listed) /\ Len(one) = 1 /\ one[1] = l
  BY <1>3 DEF Words
<1> HIDE DEF l, u, w, none, one
<1>19. PICK item : item = NoItem(w, none)
  OBVIOUS
<1>5. /\ Laid(asked, flags, w, none, 0, item)
      /\ Nth(item[0]) = Len(none) /\ Rest(item[0]) = 0 /\ End(item[0]) = Len(w)
  <2>1. w \in Words /\ none \in Seq(Listed)
    BY <1>4
  <2> QED BY <1>19, <2>1, LaidNone
<1>6. sent' = w \o u
  BY <1>1, <1>3
<1>7. At(w \o u, 1, u) /\ Len(w \o u) = 1 + Len(u) /\ Len(w \o u) \in Nat /\ w \o u \in Words
  <2>1. At(w \o u, Len(w), u) /\ Len(w \o u) = Len(w) + Len(u) /\ Len(u) \in Nat /\ w \o u \in Words
    BY <1>3, <1>4, AtJoined, Joined
  <2> QED BY <1>4, <2>1
<1>8. PICK i : i = [nth |-> 1, rest |-> n, end |-> Len(w \o u)]
  OBVIOUS
<1>9. i \in Item /\ Nth(i) = 1 /\ Rest(i) = n /\ End(i) = Len(w \o u)
  BY <1>3, <1>7, <1>8 DEF Item, Nth, Rest, End
<1>10. Follows(asked, flags, w \o u, one, item[0], i)
  <2>1. Rest(item[0]) = 0 /\ Nth(item[0]) = 0 /\ End(item[0]) = 1
    BY <1>4, <1>5
  <2>2. HeadAt(asked, flags, w \o u, 1, Len(w \o u), l, n)
    BY <1>3, <1>7 DEF HeadAt, u
  <2>3. Nth(i) = Nth(item[0]) + 1 /\ one[Nth(i)] = l
    <3>1. Nth(i) = 1 /\ one[1] = l
      BY <1>4, <1>9
    <3>2. Nth(item[0]) + 1 = 1
      BY <2>1
    <3> QED BY <3>1, <3>2
  <2>4. HeadAt(asked, flags, w \o u, End(item[0]), End(i), one[Nth(i)], Rest(i))
    BY <1>9, <2>1, <2>2, <2>3
  <2> QED BY <2>1, <2>3, <2>4 DEF Follows
<1>11. Begins(none, one)
  <2>1. \A k \in 1 .. 0 : FALSE
    OBVIOUS
  <2> QED BY <1>4, <2>1 DEF Begins
<1>20. PICK more : more = OneMore(0, item, i)
  OBVIOUS
<1>12. /\ Laid(asked, flags, w \o u, one, 1, more)
       /\ more[0] = item[0] /\ more[1] = i
  <2>1. PICK zero : zero = 0
    OBVIOUS
  <2>2. /\ Laid(asked, flags, w \o u, one, zero + 1, more)
        /\ more[0] = item[0] /\ more[zero + 1] = i
    <3>1. Laid(asked, flags, w, none, zero, item) /\ item[zero] = item[0]
      BY <1>5, <2>1
    <3>2. Follows(asked, flags, w \o u, one, item[zero], i)
      BY <1>10, <3>1
    <3>3. i \in Item /\ End(i) = Len(w \o u) /\ Nth(i) = Len(one)
      BY <1>4, <1>9
    <3>4. w \in Words /\ u \in Words /\ none \in Seq(Listed) /\ one \in Seq(Listed)
      BY <1>3, <1>4
    <3>5. more = OneMore(zero, item, i)
      BY <1>20, <2>1
    <3>6. Laid(asked, flags, w \o u, one, zero + 1, OneMore(zero, item, i))
      BY <1>2, <1>11, <3>1, <3>2, <3>3, <3>4, LaidOn
    <3>7. zero \in Nat
      BY <2>1
    <3>8. OneMore(zero, item, i)[0] = item[0] /\ OneMore(zero, item, i)[zero + 1] = i
      <4>1. /\ 0 \in 0 .. zero + 1 /\ zero + 1 \in 0 .. zero + 1
            /\ 0 <= zero /\ ~ (zero + 1 <= zero)
        BY <3>7
      <4> QED BY <4>1 DEF OneMore
    <3> QED BY <3>5, <3>6, <3>8
  <2>3. zero + 1 = 1
    BY <2>1
  <2> QED BY <2>2, <2>3
<1>13. Laid(asked, flags, sent, said, 1, more)'
  BY <1>1, <1>6, <1>12
<1>14. Written(1, more)'
  <2>1. Len(names') = 0
    BY <1>1, <1>2
  <2>2. Nth(item[0]) = 0 /\ End(item[0]) = 1
    BY <1>4, <1>5
  <2>3. Nth(more[0]) = 0 /\ End(more[0]) = 1 /\ Rest(more[1]) = n
    BY <1>9, <1>12, <2>2
  <2> QED BY <1>1, <1>13, <2>1, <2>3 DEF Written
<1>15. WriteInv'
  BY <1>1, <1>2, <1>4, <1>14 DEF WriteInv
<1>16. ListingType'
  BY <1>1, <1>2, <1>3, <1>4, <1>6, <1>7 DEF ListingType
<1>17. ReadIsPrefix'
  BY <1>1, <1>2, <1>4 DEF ReadIsPrefix
<1>18. ReadInv' /\ AskInv' /\ ListedIsSent' /\ StatIsSent'
  BY <1>1 DEF ReadInv, AskInv, ListedIsSent, StatIsSent
<1> QED BY <1>15, <1>16, <1>17, <1>18 DEF ListInv
-----------------------------------------------------------------------------
(***************************************************************************)
(* Reading.                                                                *)
(***************************************************************************)
\* recv: the reader is before the first item, or has given up.
LEMMA ComesKeeps ==
  ASSUME ListInv, NEW n \in 0 .. Len(sent), Comes(n)
  PROVE  ListInv'
<1>1. /\ UNCHANGED <<asked, flags, sent, due, owed, said, found, pairs, names>>
      /\ pc = "write" /\ due = 0 /\ owed = 0
      /\ body' = SubSeq(sent, 1, n) /\ whole' = (whole /\ n = Len(sent))
      /\ \/ asked = "list" /\ Counted(body')
         \/ asked = "stat" /\ Identified(body')
  BY DEF Comes, written
<1>2. /\ ListingType /\ whole /\ sent \in Words /\ names \in Seq(Listed) /\ said \in Seq(Listed)
      /\ asked \in {"list", "stat"}
  BY <1>1 DEF ListInv, WriteInv, ListingType
<1>3. PICK m, item : Written(m, item)
  BY <1>1 DEF ListInv, WriteInv
<1>4. /\ Len(sent) \in Nat /\ n \in Nat /\ n <= Len(sent)
      /\ Len(names) \in Nat /\ Len(said) \in Nat
  BY <1>2, LenProperties DEF Words
<1>5. /\ body' \in Words /\ Len(body') = n /\ \A i \in 1 .. n : body'[i] = sent[i]
  <2>1. \A i \in 1 .. n : sent[i] \in Nat
    BY <1>2, <1>4, ElementOfSeq DEF Words
  <2>2. n - 1 + 1 = n /\ (1 <= n <=> n # 0) /\ n \in Int /\ \A i \in 1 .. n : 1 + i - 1 = i
    BY <1>4
  <2>3. /\ SubSeq(sent, 1, n) \in Seq(Nat)
        /\ Len(SubSeq(sent, 1, n)) = IF 1 <= n THEN n - 1 + 1 ELSE 0
        /\ \A i \in 1 .. n - 1 + 1 : SubSeq(sent, 1, n)[i] = sent[1 + i - 1]
    BY <2>1, <2>2, SubSeqProperties
  <2> QED BY <1>1, <2>2, <2>3 DEF Words
<1>6. Cut' /\ (whole' <=> Len(body') = Len(sent')) /\ whole' \in BOOLEAN
  BY <1>1, <1>2, <1>4, <1>5 DEF Cut
<1>7. /\ Laid(asked, flags, sent, said, m, item) /\ Rest(item[m]) = 0 /\ m \in Nat /\ 0 \in 0 .. m
      /\ Rest(item[0]) = 0 /\ Nth(item[0]) = Len(names)
      /\ End(item[0]) = IF asked = "list" THEN 2 ELSE 1
  <2>1. /\ Laid(asked, flags, sent, said, m, item) /\ Rest(item[m]) = 0
        /\ Nth(item[0]) = Len(names) /\ End(item[0]) = IF asked = "list" THEN 2 ELSE 1
    BY <1>1, <1>3 DEF Written
  <2>2. m \in Nat /\ Rest(item[0]) = 0
    BY <2>1 DEF Laid
  <2>3. 0 \in 0 .. m
    BY <2>2
  <2> QED BY <2>1, <2>2, <2>3
<1>8. Laid(asked, flags, sent, said, m, item)'
  BY <1>1, <1>7
<1>9. ReadIsPrefix' /\ (pc' # "ask" => AskInv') /\ (pc' # "write" => WriteInv')
  BY <1>1 DEF ListInv, ReadIsPrefix, AskInv, WriteInv
<1>10. CASE asked = "list" /\ n >= 2
  <2>1. pc' = "entry" /\ left' = body'[2] /\ at' = 2
    BY <1>1, <1>5, <1>10 DEF Counted
  <2>2. left' = sent[2] /\ left' \in Nat
    <3>1. 2 \in 1 .. n /\ 2 \in 1 .. Len(sent)
      BY <1>4, <1>10
    <3> QED BY <1>2, <1>5, <2>1, <3>1, ElementOfSeq DEF Words
  <2>3. left' + Len(names) = Len(said)
    <3>1. Len(names) + sent[2] = Len(said) + due
      BY <1>1, <1>10 DEF ListInv, WriteInv
    <3> QED BY <1>1, <1>4, <2>2, <3>1
  <2>4. Place(item, 0)'
    BY <1>1, <1>5, <1>7, <1>10, <2>1, <2>3 DEF Place
  <2>5. Between(m, item, 0)'
    BY <1>7, <1>8, <2>4 DEF Between
  <2>6. ReadInv'
    BY <1>6, <2>5 DEF ReadInv
  <2>7. ListingType'
    BY <1>1, <1>2, <1>5, <1>6, <2>1, <2>2 DEF ListingType
  <2> QED BY <1>9, <2>1, <2>6, <2>7 DEF ListInv, ListedIsSent, StatIsSent
<1>11. CASE asked = "stat" /\ n >= 1
  <2>1. pc' = "stamp" /\ at' = 1 /\ left' = left
    BY <1>1, <1>5, <1>11 DEF Identified
  <2>2. Len(said) = 1 /\ names = <<>> /\ Len(names) = 0
    BY <1>1, <1>11 DEF ListInv, WriteInv
  <2>3. Place(item, 0)'
    BY <1>1, <1>5, <1>7, <1>11, <2>1, <2>2 DEF Place
  <2>4. Between(m, item, 0)'
    BY <1>7, <1>8, <2>3 DEF Between
  <2>5. ReadInv'
    BY <1>6, <2>4 DEF ReadInv
  <2>6. ListingType'
    BY <1>1, <1>2, <1>5, <1>6, <2>1 DEF ListingType
  <2> QED BY <1>9, <2>1, <2>5, <2>6 DEF ListInv, ListedIsSent, StatIsSent
<1>12. CASE (asked = "list" /\ ~ n >= 2) \/ (asked = "stat" /\ ~ n >= 1)
  <2>1. pc' = "error" /\ at' = 0 /\ left' \in Nat
    BY <1>1, <1>2, <1>5, <1>12 DEF Counted, Identified, ListingType
  <2>2. ListingType'
    BY <1>1, <1>2, <1>5, <1>6, <2>1 DEF ListingType
  <2> QED BY <1>9, <2>1, <2>2 DEF ListInv, ReadInv, ListedIsSent, StatIsSent
<1> QED BY <1>2, <1>10, <1>11, <1>12

\* A reader that gives up has had no listing.
LEMMA GivenUp ==
  ASSUME ListInv, pc # "done", pc' = "error",
         UNCHANGED <<asked, flags, written, whole, body, left, found, pairs, at, names>>
  PROVE  ListInv'
<1>1. UNCHANGED <<sent, due, owed, said>>
  BY DEF written
<1>2. ListingType' /\ ReadIsPrefix'
  BY <1>1 DEF ListInv, ListingType, ReadIsPrefix
<1> QED BY <1>2 DEF ListInv, WriteInv, ReadInv, AskInv, ListedIsSent, StatIsSent

\* A reader that goes on within a reply.
LEMMA GoesOn ==
  ASSUME ListInv, UNCHANGED <<asked, flags, written, whole, body, names>>,
         pc \in {"entry", "stamp", "pair"}, pc' \in {"entry", "stamp", "pair"},
         at' \in Nat, left' \in Nat, found' \in Listed, pairs' \in Nat,
         NEW n, NEW item, NEW j \in 0 .. n, Laid(asked, flags, sent, said, n, item),
         Rest(item[n]) = 0, Place(item, j)'
  PROVE  ListInv'
<1>1. UNCHANGED <<sent, due, owed, said>>
  BY DEF written
<1>2. ListingType' /\ ReadIsPrefix'
  BY <1>1 DEF ListInv, ListingType, ReadIsPrefix
<1>3. Laid(asked, flags, sent, said, n, item)'
  BY <1>1
<1>4. Between(n, item, j)'
  BY <1>3 DEF Between
<1>5. Cut' /\ (whole' <=> Len(body') = Len(sent'))
  BY <1>1 DEF ListInv, ReadInv, Cut
<1>6. ReadInv'
  BY <1>4, <1>5 DEF ReadInv
<1> QED BY <1>2, <1>6 DEF ListInv, WriteInv, AskInv, ListedIsSent, StatIsSent

\* One round of entries.
LEMMA EntryReadKeeps ==
  ASSUME ListInv, EntryRead
  PROVE  ListInv'
<1> DEFINE long == AfterString(at)
           attrs == AfterString(long)
           name == SubSeq(body, at + 2, long)
<1>1. /\ UNCHANGED <<asked, flags, written, whole, body, left, names>> /\ pc = "entry" /\ left > 0
  BY DEF EntryRead
<1>2. CASE pc' = "error" /\ UNCHANGED <<found, pairs, at>>
  BY <1>1, <1>2, GivenUp
<1>3. CASE /\ found' = [name |-> name, stamp |-> StampAt(attrs)] /\ pairs' = PairsAt(attrs)
           /\ at' = AfterFlags(attrs) /\ pc' = "pair" /\ Within(AfterFlags(attrs))
  <2>1. ListingType /\ Cut
    BY <1>1 DEF ListInv, ReadInv
  <2>2. PICK n, item, j : Between(n, item, j)
    BY <1>1 DEF ListInv, ReadInv
  <2>3. /\ Laid(asked, flags, sent, said, n, item) /\ Rest(item[n]) = 0 /\ j \in 0 .. n
        /\ at = End(item[j]) /\ asked = "list" /\ Rest(item[j]) = 0 /\ Len(names) = Nth(item[j])
        /\ left + Len(names) = Len(said)
    BY <1>1, <2>2 DEF Between, Place
  <2>4. Len(said) \in Nat /\ Len(names) \in Nat /\ left \in Nat /\ at \in Nat /\ flags \in Nat
    BY <1>1, <2>1, LenProperties DEF ListingType
  <2>5. Nth(item[j]) < Len(said)
    BY <1>1, <2>3, <2>4
  <2>6. PICK k : k = j + 1
    OBVIOUS
  <2>7. k \in 0 .. n /\ Follows(asked, flags, sent, said, item[j], item[k])
    BY <2>3, <2>5, <2>6, BeforeItem
  <2>8. /\ Nth(item[k]) = Len(names) + 1
        /\ HeadAt(asked, flags, sent, at, End(item[k]), said[Nth(item[k])], Rest(item[k]))
    <3>1. ~ (Rest(item[j]) > 0)
      BY <2>3
    <3>2. /\ Nth(item[k]) = Nth(item[j]) + 1
          /\ HeadAt(asked, flags, sent, End(item[j]), End(item[k]), said[Nth(item[k])], Rest(item[k]))
      BY <2>7, <3>1 DEF Follows
    <3> QED BY <2>3, <3>2
  <2>9. Rest(item[k]) \in PairCounts(flags)
    BY <2>8 DEF HeadAt
  <2>10. PICK e \in Entry : /\ said[Nth(item[k])] = Said(asked, flags, e)
                            /\ At(sent, at, EntryWords(asked, flags, e, Rest(item[k])))
                            /\ End(item[k]) = at + Len(EntryWords(asked, flags, e, Rest(item[k])))
    BY <2>8 DEF HeadAt
  <2>11. EntryWords(asked, flags, e, Rest(item[k]))
           = String(e.name) \o String(e.name) \o Attributes(flags, e, Rest(item[k]))
    BY <2>3 DEF EntryWords
  <2>12. /\ AfterFlags(attrs) = at + Len(EntryWords(asked, flags, e, Rest(item[k])))
         /\ name = e.name /\ StampAt(attrs) = StampOf(flags, e) /\ PairsAt(attrs) = Rest(item[k])
    <3>1. At(sent, at, String(e.name) \o String(e.name) \o Attributes(flags, e, Rest(item[k])))
      BY <2>10, <2>11
    <3>2. Within(AfterFlags(AfterString(AfterString(at))))
      BY <1>3
    <3>3. /\ AfterFlags(attrs) = at + Len(String(e.name) \o String(e.name)
                                            \o Attributes(flags, e, Rest(item[k])))
          /\ name = e.name /\ StampAt(attrs) = StampOf(flags, e) /\ PairsAt(attrs) = Rest(item[k])
      BY <2>1, <2>4, <2>9, <3>1, <3>2, EntryHeadRead
    <3> QED BY <2>11, <3>3
  <2>13. found' = said[Nth(item[k])] /\ pairs' = Rest(item[k]) /\ at' = End(item[k])
    BY <1>3, <2>3, <2>10, <2>12 DEF Said
  <2>14. found' \in Listed /\ pairs' \in Nat /\ at' \in Nat
    <3>1. Said(asked, flags, e) \in Listed /\ Rest(item[k]) \in Nat
      BY <2>4, <2>9, HeadWords
    <3>2. item[k] \in Item
      BY <2>3, <2>7, ItemOf
    <3> QED BY <2>10, <2>13, <3>1, <3>2 DEF Item, Nth, Rest, End
  <2>15. at' <= Len(body')
    BY <1>1, <1>3 DEF Within
  <2>16. Place(item, k)'
    <3>1. said' = said
      BY <1>1 DEF written
    <3> QED BY <1>1, <1>3, <2>3, <2>8, <2>13, <2>15, <3>1 DEF Place
  <2>17. left' \in Nat
    BY <1>1, <2>4
  <2> HIDE DEF long, attrs, name
  <2> QED BY <1>1, <1>3, <2>3, <2>7, <2>14, <2>16, <2>17, GoesOn
<1> QED BY <1>2, <1>3 DEF EntryRead, StampRead

\* stamp, for stat.
LEMMA StatReadKeeps ==
  ASSUME ListInv, StatRead
  PROVE  ListInv'
<1>1. /\ UNCHANGED <<asked, flags, written, whole, body, left, names>> /\ pc = "stamp"
  BY DEF StatRead
<1>2. CASE pc' = "error" /\ UNCHANGED <<found, pairs, at>>
  BY <1>1, <1>2, GivenUp
<1>3. CASE /\ found' = [name |-> <<>>, stamp |-> StampAt(at)] /\ pairs' = PairsAt(at)
           /\ at' = AfterFlags(at) /\ pc' = "pair" /\ Within(AfterFlags(at))
  <2>1. ListingType /\ Cut
    BY <1>1 DEF ListInv, ReadInv
  <2>2. PICK n, item, j : Between(n, item, j)
    BY <1>1 DEF ListInv, ReadInv
  <2>3. /\ Laid(asked, flags, sent, said, n, item) /\ Rest(item[n]) = 0 /\ j \in 0 .. n
        /\ at = End(item[j]) /\ asked = "stat" /\ Rest(item[j]) = 0 /\ Nth(item[j]) = 0
        /\ Len(said) = 1
    BY <1>1, <2>2 DEF Between, Place
  <2>17. Len(names) = 0
    BY <1>1, <2>2 DEF Between, Place
  <2>4. left \in Nat /\ at \in Nat /\ flags \in Nat
    BY <2>1 DEF ListingType
  <2>5. Nth(item[j]) < Len(said)
    BY <2>3
  <2>6. PICK k : k = j + 1
    OBVIOUS
  <2>7. k \in 0 .. n /\ Follows(asked, flags, sent, said, item[j], item[k])
    BY <2>3, <2>5, <2>6, BeforeItem
  <2>8. /\ Nth(item[k]) = 1
        /\ HeadAt(asked, flags, sent, at, End(item[k]), said[Nth(item[k])], Rest(item[k]))
    <3>1. ~ (Rest(item[j]) > 0)
      BY <2>3
    <3>2. /\ Nth(item[k]) = Nth(item[j]) + 1
          /\ HeadAt(asked, flags, sent, End(item[j]), End(item[k]), said[Nth(item[k])], Rest(item[k]))
      BY <2>7, <3>1 DEF Follows
    <3>3. Nth(item[j]) = 0 /\ End(item[j]) = at
      BY <2>3
    <3>4. Nth(item[k]) = 1
      BY <3>2, <3>3
    <3> QED BY <3>2, <3>3, <3>4
  <2>9. Rest(item[k]) \in PairCounts(flags)
    BY <2>8 DEF HeadAt
  <2>10. PICK e \in Entry : /\ said[Nth(item[k])] = Said(asked, flags, e)
                            /\ At(sent, at, EntryWords(asked, flags, e, Rest(item[k])))
                            /\ End(item[k]) = at + Len(EntryWords(asked, flags, e, Rest(item[k])))
    BY <2>8 DEF HeadAt
  <2>11. EntryWords(asked, flags, e, Rest(item[k])) = Attributes(flags, e, Rest(item[k]))
    BY <2>3 DEF EntryWords
  <2>12. /\ AfterFlags(at) = at + Len(EntryWords(asked, flags, e, Rest(item[k])))
         /\ StampAt(at) = StampOf(flags, e) /\ PairsAt(at) = Rest(item[k])
    <3>1. At(sent, at, Attributes(flags, e, Rest(item[k])))
      BY <2>10, <2>11
    <3> QED BY <1>3, <2>1, <2>4, <2>9, <2>11, <3>1, AttributesRead
  <2>13. found' = said[Nth(item[k])] /\ pairs' = Rest(item[k]) /\ at' = End(item[k])
    BY <1>3, <2>3, <2>10, <2>12 DEF Said
  <2>14. found' \in Listed /\ pairs' \in Nat /\ at' \in Nat
    <3>1. Said(asked, flags, e) \in Listed /\ Rest(item[k]) \in Nat
      BY <2>4, <2>9, HeadWords
    <3>2. item[k] \in Item
      BY <2>3, <2>7, ItemOf
    <3> QED BY <2>10, <2>13, <3>1, <3>2 DEF Item, Nth, Rest, End
  <2>15. at' <= Len(body')
    BY <1>1, <1>3 DEF Within
  <2>16. Place(item, k)'
    <3>1. said' = said
      BY <1>1 DEF written
    <3>2. Nth(item[k]) = Len(names') + 1 /\ Len(said') = 1 /\ asked' = "stat"
      <4>1. names' = names /\ asked' = asked
        BY <1>1
      <4>2. Len(names') + 1 = 1
        BY <2>17, <4>1
      <4>3. Nth(item[k]) = 1 /\ Len(said) = 1 /\ asked = "stat"
        BY <2>3, <2>8
      <4> QED BY <3>1, <4>1, <4>2, <4>3
    <3> QED BY <1>3, <2>13, <2>15, <3>1, <3>2 DEF Place
  <2> QED BY <1>1, <1>3, <2>3, <2>4, <2>7, <2>14, <2>16, GoesOn
<1> QED BY <1>2, <1>3 DEF StatRead, StampRead

\* One round of stamp.
LEMMA PairReadKeeps ==
  ASSUME ListInv, PairRead
  PROVE  ListInv'
<1>1. /\ UNCHANGED <<asked, flags, written, whole, body, left, found, names>>
      /\ pc = "pair" /\ pairs > 0
  BY DEF PairRead
<1>2. CASE pc' = "error" /\ UNCHANGED <<pairs, at>>
  BY <1>1, <1>2, GivenUp
<1>3. CASE Within(AfterPair(at)) /\ pairs' = pairs - 1 /\ at' = AfterPair(at) /\ UNCHANGED pc
  <2>1. ListingType /\ Cut
    BY <1>1 DEF ListInv, ReadInv
  <2>2. PICK n, item, j : Between(n, item, j)
    BY <1>1 DEF ListInv, ReadInv
  <2>3. /\ Laid(asked, flags, sent, said, n, item) /\ Rest(item[n]) = 0 /\ j \in 0 .. n
        /\ at = End(item[j]) /\ pairs = Rest(item[j]) /\ Place(item, j)
    BY <1>1, <2>2 DEF Between, Place
  <2>4. left \in Nat /\ at \in Nat /\ pairs \in Nat /\ found \in Listed
    BY <2>1 DEF ListingType
  <2>5. PICK k : k = j + 1
    OBVIOUS
  <2>6. k \in 0 .. n /\ Follows(asked, flags, sent, said, item[j], item[k])
    BY <1>1, <2>3, <2>5, BeforeItem
  <2>7. /\ Nth(item[k]) = Nth(item[j]) /\ Rest(item[k]) = pairs - 1
        /\ PairAt(sent, at, End(item[k]))
    <3>1. ~ (Rest(item[j]) = 0)
      <4>1. pairs # 0 /\ pairs = Rest(item[j])
        BY <1>1, <2>3, <2>4
      <4> QED BY <4>1
    <3> QED BY <2>3, <2>6, <3>1 DEF Follows
  <2>8. PICK x \in Extension, y \in Extension :
          /\ At(sent, at, String(x) \o String(y))
          /\ End(item[k]) = at + Len(String(x) \o String(y))
    BY <2>7 DEF PairAt
  <2>9. at' = End(item[k]) /\ pairs' = Rest(item[k])
    <3>1. x \in Words /\ y \in Words
      BY ExtensionWords
    <3> QED BY <1>3, <2>1, <2>4, <2>7, <2>8, <3>1, PairIsRead
  <2>10. at' \in Nat /\ pairs' \in Nat /\ left' \in Nat /\ found' \in Listed
    <3>1. item[k] \in Item
      BY <2>3, <2>6, ItemOf
    <3> QED BY <1>1, <2>4, <2>9, <3>1 DEF Item, Nth, Rest, End
  <2>11. at' <= Len(body')
    BY <1>1, <1>3 DEF Within
  <2>12. Place(item, k)'
    <3>1. said' = said
      BY <1>1 DEF written
    <3> QED BY <1>1, <1>3, <2>3, <2>7, <2>9, <2>11, <3>1 DEF Place
  <2> QED BY <1>1, <1>3, <2>3, <2>6, <2>10, <2>12, GoesOn
<1> QED BY <1>2, <1>3 DEF PairRead

\* A reader that has had every entry is at the end of a reply that was not cut.
LEMMA HadIsWhole ==
  ASSUME Cut, whole <=> Len(body) = Len(sent), NEW n, NEW item, NEW j, Between(n, item, j),
         Rest(item[j]) = 0, Nth(item[j]) = Len(said)
  PROVE  whole
<1>1. /\ Laid(asked, flags, sent, said, n, item) /\ Rest(item[n]) = 0 /\ j \in 0 .. n
      /\ at = End(item[j]) /\ at <= Len(body)
  BY DEF Between, Place
<1>2. j = n
  <2>1. Laid(asked, flags, sent, said, n, item) /\ j \in 0 .. n
    BY <1>1
  <2> QED BY <2>1, AtTheEnd
<1>3. at = Len(sent)
  BY <1>1, <1>2 DEF Laid
<1>4. Len(body) \in Nat /\ Len(sent) \in Nat /\ Len(body) <= Len(sent)
  BY LenProperties DEF Cut, Words
<1>5. Len(body) = Len(sent)
  <2>1. Len(sent) <= Len(body)
    BY <1>1, <1>3
  <2> QED BY <1>4, <2>1
<1> QED BY <1>5

\* The stamp is read to its end.
LEMMA StampDoneKeeps ==
  ASSUME ListInv, StampDone
  PROVE  ListInv'
<1>1. /\ UNCHANGED <<asked, flags, written, whole, body, at, found, pairs>>
      /\ pc = "pair" /\ pairs = 0 /\ names' = Append(names, found)
      /\ \/ asked = "list" /\ pc' = "entry" /\ left' = left - 1
         \/ asked = "stat" /\ pc' = "done" /\ left' = left
  BY DEF StampDone
<1>2. UNCHANGED <<sent, due, owed, said>>
  BY <1>1 DEF written
<1>3. ListingType /\ Cut /\ (whole <=> Len(body) = Len(sent))
  BY <1>1 DEF ListInv, ReadInv
<1>4. PICK n, item, j : Between(n, item, j)
  BY <1>1 DEF ListInv, ReadInv
<1>5. /\ Laid(asked, flags, sent, said, n, item) /\ Rest(item[n]) = 0 /\ j \in 0 .. n
      /\ at = End(item[j]) /\ at <= Len(body) /\ Rest(item[j]) = 0 /\ found = said[Nth(item[j])]
      /\ Nth(item[j]) = Len(names) + 1
      /\ asked = "list" => left + Len(names) = Len(said)
      /\ asked = "stat" => Len(said) = 1
  BY <1>1, <1>4 DEF Between, Place
<1>6. /\ names \in Seq(Listed) /\ said \in Seq(Listed) /\ found \in Listed /\ left \in Nat
      /\ Len(names) \in Nat /\ Len(said) \in Nat
  BY <1>1, <1>3, LenProperties DEF ListingType
<1>7. Nth(item[j]) <= Len(said)
  BY <1>5, ItemOf
<1>8. Len(names) + 1 <= Len(said) /\ found = said[Len(names) + 1]
  BY <1>5, <1>7
<1>9. /\ names' \in Seq(Listed) /\ Len(names') = Len(names) + 1 /\ names'[Len(names) + 1] = found
      /\ \A i \in 1 .. Len(names) : names'[i] = names[i]
  <2>1. names' = Append(names, found) /\ names \in Seq(Listed) /\ found \in Listed
    BY <1>1, <1>6
  <2> QED BY <2>1, AppendProperties
<1>10. \A i \in 1 .. Len(names) : names[i] = said[i]
  <2>1. DOMAIN names = 1 .. Len(names)
    BY <1>6, LenProperties
  <2> QED BY <1>1, <2>1 DEF ListInv, ReadIsPrefix
<1>11. \A i \in 1 .. Len(names) + 1 : names'[i] = said[i]
  <2> SUFFICES ASSUME NEW i \in 1 .. Len(names) + 1 PROVE names'[i] = said[i]
    OBVIOUS
  <2>1. i = Len(names) + 1 \/ i \in 1 .. Len(names)
    BY <1>6
  <2> QED BY <1>8, <1>9, <1>10, <2>1
<1>12. ReadIsPrefix'
  <2>1. DOMAIN names' = 1 .. Len(names) + 1
    BY <1>9, LenProperties
  <2> QED BY <1>2, <1>8, <1>9, <1>11, <2>1 DEF ReadIsPrefix
<1>13. CASE asked = "list"
  <2>1. pc' = "entry" /\ left' = left - 1 /\ asked' = "list"
    BY <1>1, <1>13
  <2>2. left' + Len(names') = Len(said) /\ left' \in Nat
    <3>1. left + Len(names) = Len(said) /\ left >= 1
      <4>1. left + Len(names) = Len(said)
        BY <1>5, <1>13
      <4> QED BY <1>6, <1>8, <4>1
    <3> QED BY <1>6, <1>9, <2>1, <3>1
  <2>3. Place(item, j)'
    BY <1>1, <1>2, <1>5, <1>9, <2>1, <2>2 DEF Place
  <2>4. Laid(asked, flags, sent, said, n, item)'
    BY <1>1, <1>2, <1>5
  <2>5. Between(n, item, j)'
    BY <1>5, <2>3, <2>4 DEF Between
  <2>6. Cut' /\ (whole' <=> Len(body') = Len(sent'))
    BY <1>1, <1>2, <1>3 DEF Cut
  <2>7. ReadInv'
    BY <2>5, <2>6 DEF ReadInv
  <2>8. ListingType'
    BY <1>1, <1>2, <1>3, <1>9, <2>1, <2>2 DEF ListingType
  <2> QED BY <1>12, <2>1, <2>7, <2>8 DEF ListInv, WriteInv, AskInv, ListedIsSent, StatIsSent
<1>14. CASE asked = "stat"
  <2>1. pc' = "done" /\ left' = left /\ asked' = "stat"
    BY <1>1, <1>14
  <2>2. Len(said) = 1 /\ Len(names) = 0 /\ Nth(item[j]) = Len(said)
    <3>1. Len(said) = 1
      BY <1>5, <1>14
    <3>2. Len(names) = 0
      BY <1>6, <1>8, <3>1
    <3>3. Nth(item[j]) = Len(names) + 1
      BY <1>5
    <3> QED BY <3>1, <3>2, <3>3
  <2>3. whole
    BY <1>3, <1>4, <1>5, <2>2, HadIsWhole
  <2>4. names' = said
    <3>1. Len(names') = Len(said) /\ \A i \in 1 .. Len(names') : names'[i] = said[i]
      BY <1>9, <1>11, <2>2
    <3> QED BY <1>6, <1>9, <3>1, SeqEqual
  <2>5. StatIsSent'
    BY <1>1, <1>2, <2>3, <2>4 DEF StatIsSent
  <2>6. ListingType'
    BY <1>1, <1>2, <1>3, <2>1 DEF ListingType
  <2> QED BY <1>12, <2>1, <2>5, <2>6 DEF ListInv, WriteInv, ReadInv, AskInv, ListedIsSent
<1> QED BY <1>1, <1>13, <1>14

\* The next READDIR, after a whole reply.
LEMMA ReadKeeps ==
  ASSUME ListInv, Read
  PROVE  ListInv'
<1>1. /\ UNCHANGED <<asked, flags, sent, due, owed, said, whole, body>>
      /\ UNCHANGED <<at, left, found, pairs, names>>
      /\ pc = "entry" /\ left = 0 /\ pc' = "ask"
  BY DEF Read, written, reading
<1>2. ListingType /\ Cut /\ (whole <=> Len(body) = Len(sent))
  BY <1>1 DEF ListInv, ReadInv
<1>3. PICK n, item, j : Between(n, item, j)
  BY <1>1 DEF ListInv, ReadInv
<1>4. /\ asked = "list" /\ Rest(item[j]) = 0 /\ Len(names) = Nth(item[j])
      /\ left + Len(names) = Len(said)
  BY <1>1, <1>3 DEF Between, Place
<1>5. /\ names \in Seq(Listed) /\ said \in Seq(Listed)
      /\ Len(names) \in Nat /\ Len(said) \in Nat /\ DOMAIN names = 1 .. Len(names)
  BY <1>1, <1>2, LenProperties DEF ListingType
<1>6. Len(names) = Len(said)
  <2>1. 0 + Len(names) = Len(said)
    BY <1>1, <1>4
  <2> QED BY <1>5, <2>1
<1>7. whole
  BY <1>2, <1>3, <1>4, <1>6, HadIsWhole
<1>8. names = said
  <2>1. \A i \in 1 .. Len(names) : names[i] = said[i]
    BY <1>1, <1>5 DEF ListInv, ReadIsPrefix
  <2> QED BY <1>5, <1>6, <2>1, SeqEqual
<1>9. AskInv'
  BY <1>1, <1>4, <1>7, <1>8 DEF AskInv
<1>10. ListingType' /\ ReadIsPrefix'
  BY <1>1, <1>2 DEF ListInv, ListingType, ReadIsPrefix
<1> QED BY <1>1, <1>9, <1>10 DEF ListInv, WriteInv, ReadInv, ListedIsSent, StatIsSent

\* EOF, or a status that there is no such file: nothing more is read.
LEMMA EndKeeps ==
  ASSUME ListInv, EndOfDirectory \/ StatNone
  PROVE  ListInv'
<1>1. /\ UNCHANGED <<asked, flags, sent, due, owed, said, whole, body, at, left, found, pairs>>
      /\ pc = "ask" /\ pc' = "done"
  BY DEF EndOfDirectory, StatNone, written, reading
<1>2. ListingType /\ whole /\ names = said
  BY <1>1 DEF ListInv, AskInv
<1>3. ListingType'
  BY <1>1, <1>2 DEF ListingType
<1>4. ListedIsSent' /\ StatIsSent'
  <2>1. CASE EndOfDirectory
    <3>1. names' = SelectSeq(names, LAMBDA l : Kept(l.name)) /\ asked = "list"
      BY <2>1 DEF EndOfDirectory
    <3>2. names' = Files(said)
      BY <1>2, <3>1 DEF Kept, Files
    <3>3. StatIsSent'
      BY <1>1, <3>1 DEF StatIsSent
    <3>4. ListedIsSent'
      BY <1>1, <1>2, <3>2 DEF ListedIsSent
    <3> QED BY <3>3, <3>4
  <2>2. CASE StatNone
    <3>1. names' = names /\ asked = "stat"
      BY <2>2 DEF StatNone
    <3> QED BY <1>1, <1>2, <3>1 DEF ListedIsSent, StatIsSent
  <2> QED BY <2>1, <2>2
<1> QED BY <1>1, <1>3, <1>4 DEF ListInv, WriteInv, ReadInv, AskInv, ReadIsPrefix

\* Nothing is read, and the listing or the stat fails.
LEMMA RefusedKeeps ==
  ASSUME ListInv, Refused
  PROVE  ListInv'
<1>1. /\ UNCHANGED <<asked, flags, written, whole, body, left, found, pairs, at, names>>
      /\ pc # "done" /\ pc' = "error"
  BY DEF Refused, reading
<1> QED BY <1>1, GivenUp

\* Nothing happens.
LEMMA SameKeeps == ListInv /\ UNCHANGED vars => ListInv'
<1> SUFFICES ASSUME ListInv, UNCHANGED vars PROVE ListInv'
  OBVIOUS
<1>1. /\ UNCHANGED <<asked, flags, sent, due, owed, said, whole, body>>
      /\ UNCHANGED <<at, left, found, pairs, names, pc>>
  BY DEF vars, written, reading
<1>2. ListingType' /\ AskInv' /\ ReadIsPrefix' /\ StatIsSent'
  BY <1>1 DEF ListInv, ListingType, AskInv, ReadIsPrefix, StatIsSent
<1>3. ListedIsSent'
  BY <1>1 DEF ListInv, ListedIsSent
<1>4. WriteInv'
  BY <1>1 DEF ListInv, WriteInv, Written
<1>5. ReadInv'
  <2>1. Cut' <=> Cut
    BY <1>1 DEF Cut
  <2>2. \A n, item, j : Between(n, item, j)' <=> Between(n, item, j)
    <3> TAKE n, item, j
    <3>1. Place(item, j)' <=> Place(item, j)
      BY <1>1 DEF Place
    <3>2. Laid(asked, flags, sent, said, n, item)' <=> Laid(asked, flags, sent, said, n, item)
      BY <1>1
    <3> QED BY <3>1, <3>2 DEF Between
  <2> QED BY <1>1, <2>1, <2>2 DEF ListInv, ReadInv
<1> QED BY <1>2, <1>3, <1>4, <1>5 DEF ListInv

\* Every step.
LEMMA ListNext == ListInv /\ [Next]_vars => ListInv'
<1> SUFFICES ASSUME ListInv, [Next]_vars PROVE ListInv'
  OBVIOUS
<1>1. CASE Writing
  BY <1>1, NameReplyKeeps, NameEntryKeeps, AttrsReplyKeeps, PairKeeps DEF Writing
<1>2. CASE Reading
  BY <1>2, ComesKeeps, EntryReadKeeps, StatReadKeeps, PairReadKeeps, StampDoneKeeps, ReadKeeps,
     EndKeeps, RefusedKeeps DEF Reading
<1>3. CASE UNCHANGED vars
  BY <1>3, SameKeeps
<1> QED BY <1>1, <1>2, <1>3 DEF Next

\* Before anything is asked.
LEMMA ListInit == Init => ListInv
<1> SUFFICES ASSUME Init PROVE ListInv
  OBVIOUS
<1>1. flags \in Nat
  <2>1. OwnFlags \in Nat
    BY DEF OwnFlags, SIZE, ACMODTIME
  <2>2. OtherFlags \subseteq 0 .. 31
    BY ListingAssumption
  <2>3. flags = OwnFlags \/ flags \in 0 .. 31
    BY <2>2 DEF Init
  <2> QED BY <2>1, <2>3
<1>2. <<>> \in Words /\ <<>> \in Seq(Listed) /\ NoStamp \in Stamps
  BY DEF Words, NoStamp, Stamps
<1>3. ListingType
  BY <1>1, <1>2 DEF Init, ListingType, Listed
<1>4. ReadIsPrefix
  <2>1. names = <<>> /\ said = <<>>
    BY DEF Init
  <2>2. Len(names) <= Len(said)
    BY <2>1
  <2>3. \A i \in DOMAIN names : names[i] = said[i]
    BY <2>1
  <2> QED BY <2>2, <2>3 DEF ReadIsPrefix
<1> QED BY <1>3, <1>4 DEF Init, ListInv, WriteInv, ReadInv, AskInv, ListedIsSent, StatIsSent

\* The invariant holds throughout.
LEMMA ListAlways == Spec => []ListInv
BY ListInit, ListNext, PTL DEF Spec
-----------------------------------------------------------------------------
\* list returns the server's files, each once, in order and with its stamp,
\* whatever attributes, extended pairs and number of replies they came in;
\* where any reply was cut it returns an error.
THEOREM ListingIsTrue == Spec => []ListedIsSent
BY ListAlways, PTL DEF ListInv

\* entries and stamp never lose their place: what they have read, at any
\* point of a reply, is what was written first.
THEOREM NeverAstray == Spec => []ReadIsPrefix
BY ListAlways, PTL DEF ListInv

\* stat returns the file's stamp; of a reply that was cut it returns none.
THEOREM StatIsTrue == Spec => []StatIsSent
BY ListAlways, PTL DEF ListInv
=============================================================================
