----------------------------- MODULE MessageProofs -----------------------------
(* Theorems about the composition of QMI messages and of SMS text, for texts of any  *)
(* length the buffers hold, and about what is read back from them.                   *)
EXTENDS Sequential, SequenceTheorems, NaturalsInduction, WellFoundedInduction, TLAPS

(* Messages whose fields hold values of a set.                                        *)
FieldOf(V) == [at : Nat, type : Int, len : Nat, value : V]
Message(V) == [fields : Seq(FieldOf(V)), end : Nat]

(* A set of naturals that is not empty has a least element.                           *)
LEMMA Least ==
  ASSUME NEW T \in SUBSET Nat, T # {}
  PROVE  \E x \in T : \A y \in T : x <= y
<1> DEFINE R == OpToRel(<, Nat)
<1>1. IsWellFoundedOn(R, Nat)
  BY NatLessThanWellFounded, Zenon
<1>2. \A x, y \in Nat : x < y => <<x, y>> \in R
  BY DEF OpToRel
<1> HIDE DEF R
<1>3. PICK x \in T : \A y \in T : ~(<<y, x>> \in R)
  BY <1>1, WFMin
<1>4. \A y \in T : ~(y < x)
  BY <1>2, <1>3
<1>5. QED
  BY <1>4

(* And one that holds 0 and with each number the next holds them all: with it a fact    *)
(* about every field of a message is proved from one field to the next.                *)
LEMMA Ladder ==
  ASSUME NEW T \in SUBSET Nat, 0 \in T, \A n \in T : n + 1 \in T
  PROVE  T = Nat
<1>1. SUFFICES ASSUME Nat \ T # {} PROVE FALSE
  OBVIOUS
<1>2. PICK x \in Nat \ T : \A y \in Nat \ T : x <= y
  BY <1>1, Least
<1>3. x # 0
  OBVIOUS
<1>4. x - 1 \in Nat /\ x - 1 \in T
  BY <1>2, <1>3
<1>5. QED
  BY <1>4

(* The fields of a tiled message are in the order they are written in, and none reaches  *)
(* into another or beyond the end.                                                      *)
LEMMA TiledOrder ==
  ASSUME NEW V, NEW msg \in Message(V), Tiled(msg)
  PROVE  /\ Len(msg.fields) \in Nat /\ DOMAIN msg.fields = 1..Len(msg.fields)
         /\ \A i \in 1..Len(msg.fields) :
              /\ msg.fields[i] \in FieldOf(V)
              /\ End(msg.fields[i]) = msg.fields[i].at + 3 + msg.fields[i].len
              /\ End(msg.fields[i]) <= msg.end
              /\ \A j \in 1..Len(msg.fields) : i < j => End(msg.fields[i]) <= msg.fields[j].at
<1> DEFINE n == Len(msg.fields)
           f(i) == msg.fields[i]
           T == {d \in Nat : \A i \in 1..n : i + d + 1 \in 1..n => End(f(i)) <= f(i + d + 1).at}
<1>1. /\ n \in Nat /\ DOMAIN msg.fields = 1..n
      /\ \A i \in 1..n : msg.fields[i] \in FieldOf(V)
  BY LenProperties, ElementOfSeq DEF Message
<1>2. \A i \in 1..n : /\ End(f(i)) = f(i).at + 3 + f(i).len
                      /\ f(i).at \in Nat /\ f(i).len \in Nat /\ End(f(i)) \in Nat
  BY <1>1 DEF End, QMI_TLV_HDR, UCHAR, USHORT, FieldOf
<1>3. /\ \A i \in 1..(n - 1) : f(i + 1).at = End(f(i))
      /\ n > 0 => msg.end = End(f(n))
  BY <1>1 DEF Tiled
<1> HIDE DEF n, f
<1>4. 0 \in T
  BY <1>1, <1>2, <1>3
<1>5. ASSUME NEW d \in T PROVE d + 1 \in T
  <2>1. SUFFICES ASSUME NEW i \in 1..n, i + (d + 1) + 1 \in 1..n
                 PROVE  End(f(i)) <= f(i + (d + 1) + 1).at
    OBVIOUS
  <2> DEFINE k == i + d + 1
  <2>2. k \in 1..n /\ k \in 1..(n - 1) /\ i + (d + 1) + 1 = k + 1 /\ k + 1 \in 1..n
    BY <1>1, <2>1
  <2>3. End(f(i)) <= f(k).at
    BY <2>2
  <2> HIDE DEF k
  <2>4. f(k + 1).at = End(f(k)) /\ f(k).at <= End(f(k))
    BY <1>2, <1>3, <2>2
  <2>5. End(f(i)) <= f(k + 1).at
    BY <1>2, <2>2, <2>3, <2>4
  <2>6. QED
    BY <2>2, <2>5
<1>6. T = Nat
  <2>1. T \in SUBSET Nat
    OBVIOUS
  <2> HIDE DEF T
  <2>2. QED
    BY <1>4, <1>5, <2>1, Ladder
<1>7. ASSUME NEW i \in 1..n, NEW j \in 1..n, i < j
      PROVE  End(f(i)) <= f(j).at
  <2>1. j - i - 1 \in T
    <3>1. j - i - 1 \in Nat
      BY <1>1, <1>7
    <3> HIDE DEF T
    <3>2. QED
      BY <1>6, <3>1
  <2>2. i + (j - i - 1) + 1 = j
    BY <1>1
  <2>3. QED
    BY <2>1, <2>2
<1>8. ASSUME NEW i \in 1..n PROVE End(f(i)) <= msg.end
  <2>1. n > 0 /\ n \in 1..n /\ msg.end = End(f(n))
    BY <1>1, <1>3
  <2>2. CASE i = n
    BY <1>2, <2>1, <2>2
  <2>3. CASE i < n
    BY <1>2, <1>7, <2>1, <2>3
  <2>4. QED
    BY <1>1, <2>2, <2>3
<1>9. QED
  BY <1>1, <1>2, <1>7, <1>8 DEF n, f

(* GetTLV goes through exactly the fields of a tiled message, in their order.           *)
THEOREM WalkSeesTheFields ==
  ASSUME NEW V, NEW msg \in Message(V), Tiled(msg)
  PROVE  Walk(msg) = msg.fields
<1> DEFINE n == Len(msg.fields)
           s == msg.fields
           body(h, at) == 
             IF msg.end - at < QMI_TLV_HDR THEN <<>>
             ELSE IF Begins(msg, at) = {} THEN <<Astray>>
             ELSE LET field == msg.fields[CHOOSE i \in Begins(msg, at) : TRUE]
                      next  == at + QMI_TLV_HDR + field.len
                  IN <<field>> \o (IF next > msg.end THEN <<Astray>> ELSE h[next])
           from == CHOOSE h : h = [at \in Nat |-> body(h, at)]
           g == [at \in Nat |-> IF msg.end - at < 3 THEN <<>>
                                ELSE IF Begins(msg, at) = {} THEN <<Astray>>
                                ELSE SubSeq(s, CHOOSE i \in Begins(msg, at) : TRUE, n)]
<1>1. /\ n \in Nat /\ DOMAIN s = 1..n /\ s \in Seq(FieldOf(V)) /\ msg.end \in Nat
      /\ QMI_TLV_HDR = 3 /\ QCQMUX_MSG_HDR = 4
  BY TiledOrder DEF Message, QMI_TLV_HDR, QCQMUX_MSG_HDR, UCHAR, USHORT
<1>2. \A i \in 1..n : /\ s[i] \in FieldOf(V) /\ s[i].at \in Nat /\ s[i].len \in Nat
                      /\ End(s[i]) = s[i].at + 3 + s[i].len
                      /\ End(s[i]) <= msg.end
                      /\ \A j \in 1..n : i < j => End(s[i]) <= s[j].at
  BY TiledOrder DEF FieldOf
<1>3. /\ msg.end = IF n = 0 THEN 4 ELSE End(s[n])
      /\ n > 0 => s[1].at = 4
      /\ \A i \in 1..(n - 1) : s[i + 1].at = End(s[i])
  BY <1>1 DEF Tiled
<1>4. Walk(msg) = from[4]
  BY <1>1 DEF Walk
<1> HIDE DEF n, s
(* Where a field begins no other does.                                               *)
<1>5. ASSUME NEW i \in 1..n
      PROVE  Begins(msg, s[i].at) = {i} /\ ~(msg.end - s[i].at < 3)
  <2>1. \A j \in 1..n : s[j].at = s[i].at => j = i
    BY <1>1, <1>2, SMTT(30)
  <2>2. Begins(msg, s[i].at) = {j \in 1..n : s[j].at = s[i].at}
    BY <1>1 DEF Begins, s
  <2>3. ~(msg.end - s[i].at < 3)
    BY <1>1, <1>2, SMTT(30)
  <2>4. QED
    BY <2>1, <2>2, <2>3
<1>6. ASSUME NEW i \in 1..n
      PROVE  /\ \A h : body(h, s[i].at) = <<s[i]>> \o h[End(s[i])]
             /\ SubSeq(s, i, n) = <<s[i]>> \o SubSeq(s, i + 1, n)
             /\ End(s[i]) \in Nat
             /\ IF i = n THEN msg.end - End(s[i]) < 3
                ELSE i + 1 \in 1..n /\ End(s[i]) = s[i + 1].at
  <2>1. (CHOOSE j \in Begins(msg, s[i].at) : TRUE) = i /\ Begins(msg, s[i].at) # {}
    BY <1>5
  <2>2. ~(s[i].at + 3 + s[i].len > msg.end) /\ s[i].at + 3 + s[i].len = End(s[i])
    BY <1>1, <1>2
  <2>3. ASSUME NEW h PROVE body(h, s[i].at) = <<s[i]>> \o h[End(s[i])]
    <3>1. QED
      BY <1>1, <1>5, <2>1, <2>2 DEF s
  <2>4. n \in i..n /\ i \in 1..Len(s) /\ n \in i..Len(s)
    BY <1>1 DEF n, s
  <2>5. SubSeq(s, i, n) = <<s[i]>> \o SubSeq(s, i + 1, n)
    BY <1>1, <2>4, SubSeqRecursiveFirst
  <2>6. /\ End(s[i]) \in Nat
        /\ IF i = n THEN msg.end - End(s[i]) < 3
           ELSE i + 1 \in 1..n /\ End(s[i]) = s[i + 1].at
    BY <1>1, <1>2, <1>3
  <2> HIDE DEF body
  <2>7. QED
    BY <2>3, <2>5, <2>6
<1>7. SubSeq(s, n + 1, n) = <<>>
  BY <1>1, SubSeqEmpty
(* The suffixes of the fields satisfy the recursion, so what is chosen does.          *)
<1>8. g = [at \in Nat |-> body(g, at)]
  <2>1. ASSUME NEW at \in Nat PROVE g[at] = body(g, at)
    <3>1. CASE msg.end - at < 3
      BY <1>1, <3>1
    <3>2. CASE ~(msg.end - at < 3) /\ Begins(msg, at) = {}
      BY <1>1, <3>2
    <3>3. CASE ~(msg.end - at < 3) /\ Begins(msg, at) # {}
      <4>1. PICK i \in 1..n : at = s[i].at
        BY <1>1, <3>3 DEF Begins, s
      <4>2. (CHOOSE j \in Begins(msg, at) : TRUE) = i
        BY <1>5, <4>1
      <4>3. g[at] = SubSeq(s, i, n)
        BY <3>3, <4>2
      <4>4. body(g, at) = <<s[i]>> \o g[End(s[i])]
        <5> HIDE DEF g, body
        <5>1. QED
          BY <1>6, <4>1
      <4>5. g[End(s[i])] = SubSeq(s, i + 1, n)
        <5>1. CASE i = n
          BY <1>6, <1>7, <5>1
        <5>2. CASE i # n
          <6>1. i + 1 \in 1..n /\ End(s[i]) = s[i + 1].at /\ s[i + 1].at \in Nat
            BY <1>2, <1>6, <5>2
          <6>2. (CHOOSE j \in Begins(msg, s[i + 1].at) : TRUE) = i + 1
                /\ Begins(msg, s[i + 1].at) # {} /\ ~(msg.end - s[i + 1].at < 3)
            BY <1>5, <6>1
          <6>3. QED
            BY <6>1, <6>2
        <5>3. QED
          BY <5>1, <5>2
      <4> HIDE DEF g, body
      <4>6. QED
        BY <1>6, <4>3, <4>4, <4>5
    <3>4. QED
      BY <3>1, <3>2, <3>3
  <2>2. g = [at \in Nat |-> g[at]]
    OBVIOUS
  <2> HIDE DEF g, body
  <2>3. [at \in Nat |-> g[at]] = [at \in Nat |-> body(g, at)]
    BY <2>1
  <2>4. QED
    BY <2>2, <2>3
<1>9. from = [at \in Nat |-> body(from, at)]
  <2> HIDE DEF g, body
  <2>1. QED
    BY <1>8, Zenon
<1> DEFINE T == {d \in Nat : \A i \in 1..n : i + d = n => from[s[i].at] = SubSeq(s, i, n)}
<1> HIDE DEF from, g
<1>10. ASSUME NEW i \in 1..n
       PROVE  from[s[i].at] = <<s[i]>> \o from[End(s[i])]
  <2> HIDE DEF body
  <2>1. s[i].at \in Nat
    BY <1>2
  <2>2. from[s[i].at] = body(from, s[i].at)
    BY <1>9, <2>1
  <2>3. QED
    BY <1>6, <2>2
<1>11. 0 \in T
  <2>1. ASSUME NEW i \in 1..n, i + 0 = n
        PROVE  from[s[i].at] = SubSeq(s, i, n)
    <3>1. i = n
      BY <1>1, <2>1
    <3>2. from[s[i].at] = <<s[i]>> \o from[End(s[i])]
      BY <1>10, SMTT(30)
    <3>3. End(s[i]) \in Nat /\ msg.end - End(s[i]) < 3
      BY <1>6, <3>1
    <3>4. from[End(s[i])] = <<>>
      BY <1>1, <1>9, <3>3
    <3>5. SubSeq(s, i, n) = <<s[i]>> \o <<>>
      BY <1>6, <1>7, <3>1
    <3>6. QED
      BY <3>2, <3>4, <3>5
  <2> HIDE DEF body
  <2>2. QED
    BY <2>1
<1>12. ASSUME NEW d \in T PROVE d + 1 \in T
  <2>1. SUFFICES ASSUME NEW i \in 1..n, i + (d + 1) = n
                 PROVE  from[s[i].at] = SubSeq(s, i, n)
    OBVIOUS
  <2>2. i + 1 \in 1..n /\ (i + 1) + d = n /\ i # n
    BY <1>1, <2>1
  <2>3. from[s[i + 1].at] = SubSeq(s, i + 1, n)
    BY <2>2
  <2> HIDE DEF body
  <2>4. End(s[i]) = s[i + 1].at
    BY <1>6, <2>2
  <2>5. from[s[i].at] = <<s[i]>> \o from[s[i + 1].at]
    BY <1>10, <2>4
  <2>6. SubSeq(s, i, n) = <<s[i]>> \o SubSeq(s, i + 1, n)
    BY <1>6
  <2>7. QED
    BY <2>3, <2>5, <2>6
<1>13. T = Nat
  <2>1. T \in SUBSET Nat
    OBVIOUS
  <2> HIDE DEF T
  <2>2. QED
    BY <1>11, <1>12, <2>1, Ladder
<1>14. CASE n = 0
  <2>1. from[4] = <<>>
    BY <1>1, <1>3, <1>9, <1>14
  <2>2. s = <<>>
    BY <1>1, <1>14, EmptySeq DEF n, s
  <2>3. QED
    BY <1>4, <2>1, <2>2 DEF s
<1>15. CASE n > 0
  <2>1. 1 \in 1..n /\ n - 1 \in Nat /\ 1 + (n - 1) = n
    BY <1>1, <1>15
  <2>2. n - 1 \in T
    BY <1>13, <2>1
  <2>3. from[s[1].at] = SubSeq(s, 1, n)
    BY <2>1, <2>2
  <2>4. SubSeq(s, 1, n) = s
    BY <1>1, SubSeqFull DEF n, s
  <2>5. QED
    BY <1>3, <1>4, <1>15, <2>3, <2>4 DEF s
<1>16. QED
  BY <1>1, <1>14, <1>15

-------------------------------------------------------------------------------
(* The types a field is found by: above them GetTLV takes a type for an index.          *)
Codes == {t \in Nat : t <= \h1000}

(* The values of the fields of a type, none or one in a message that is well put: its   *)
(* fields tile it, their types are among those of a set and no two are the same.        *)
Says(msg, type) ==
  {msg.fields[i].value : i \in {j \in DOMAIN msg.fields : msg.fields[j].type = type}}

WellPut(V, msg, T) ==
  /\ msg \in Message(V) /\ Tiled(msg)
  /\ T \subseteq Codes
  /\ \A i \in DOMAIN msg.fields : msg.fields[i].type \in T
  /\ \A i, j \in DOMAIN msg.fields : msg.fields[i].type = msg.fields[j].type => i = j

LEMMA Sizes ==
  /\ QMI_TLV_HDR = 3 /\ QCQMUX_MSG_HDR = 4 /\ QCQMUX_HDR = 3 /\ QCQMI_HDR = 6
  /\ UCHAR = 1 /\ USHORT = 2 /\ ULONG = 4 /\ WDM_DEFAULT_BUFSIZE = 256
BY DEF QMI_TLV_HDR, QCQMUX_MSG_HDR, QCQMUX_HDR, QCQMI_HDR, UCHAR, USHORT, ULONG,
       WDM_DEFAULT_BUFSIZE

(* A message without fields consists of its header.                                      *)
LEMMA EmptyIsWellPut ==
  ASSUME NEW V
  PROVE  /\ WellPut(V, NoFields, {}) /\ NoFields.end = 4
         /\ \A t : Says(NoFields, t) = {}
<1>1. NoFields = [fields |-> <<>>, end |-> 4]
  BY Sizes DEF NoFields
<1>2. NoFields \in Message(V)
  BY <1>1 DEF Message
<1>3. Tiled(NoFields)
  BY <1>1, Sizes DEF Tiled
<1>4. DOMAIN NoFields.fields = {}
  BY <1>1
<1>5. QED
  BY <1>1, <1>2, <1>3, <1>4 DEF WellPut, Says

(* A field put at the end of a message, whatever it holds, leaves it tiled.             *)
LEMMA PutIsTiled ==
  ASSUME NEW V, NEW msg \in Message(V), Tiled(msg), NEW type \in Codes, NEW len \in Nat,
         NEW value \in V, NEW n, n = Len(msg.fields),
         NEW new, new = Put(msg, type, len, value)
  PROVE  /\ new \in Message(V) /\ Tiled(new) /\ new.end = msg.end + 3 + len
         /\ n \in Nat /\ DOMAIN msg.fields = 1..n /\ DOMAIN new.fields = 1..(n + 1)
         /\ \A i \in 1..n : new.fields[i] = msg.fields[i]
         /\ new.fields[n + 1].type = type /\ new.fields[n + 1].value = value
<1> DEFINE f == Field(msg.end, type, len, value)
<1>1. QMI_TLV_HDR = 3 /\ QCQMUX_MSG_HDR = 4
  BY Sizes
<1>2. /\ f \in FieldOf(V) /\ f.at = msg.end /\ f.len = len
      /\ f.type = type /\ f.value = value
  BY DEF Field, Message, FieldOf, Codes
<1>3. new = [fields |-> Append(msg.fields, f), end |-> msg.end + 3 + len]
  BY <1>1 DEF Put
<1>4. msg.fields \in Seq(FieldOf(V)) /\ msg.end \in Nat /\ n \in Nat
  BY DEF Message
<1> HIDE DEF f
<1>5. /\ Append(msg.fields, f) \in Seq(FieldOf(V))
      /\ Len(Append(msg.fields, f)) = n + 1
      /\ \A i \in 1..n : Append(msg.fields, f)[i] = msg.fields[i]
      /\ Append(msg.fields, f)[n + 1] = f
  BY <1>2, <1>4, AppendProperties
<1>6. new \in Message(V)
  BY <1>3, <1>4, <1>5 DEF Message
<1>7. /\ Len(new.fields) = n + 1
      /\ new.fields[n + 1] = f
      /\ \A i \in 1..n : new.fields[i] = msg.fields[i]
      /\ new.end = msg.end + 3 + len
      /\ DOMAIN msg.fields = 1..n /\ DOMAIN new.fields = 1..(n + 1)
  BY <1>3, <1>4, <1>5, LenProperties
<1>8. new.end = End(new.fields[n + 1])
  BY <1>1, <1>2, <1>7 DEF End
<1>9. new.fields[1].at = QCQMUX_MSG_HDR
  <2>1. CASE n = 0
    BY <2>1, <1>2, <1>7 DEF Tiled
  <2>2. CASE n > 0
    BY <2>2, <1>4, <1>7, SMTT(30) DEF Tiled
  <2>3. QED
    BY <2>1, <2>2, <1>4
<1>10. ASSUME NEW i \in 1..n PROVE new.fields[i + 1].at = End(new.fields[i])
  <2>1. CASE i = n
    <3>1. msg.end = End(msg.fields[n])
      BY <2>1, <1>4, <1>10 DEF Tiled
    <3>2. new.fields[i] = msg.fields[n] /\ new.fields[i + 1] = f
      BY <2>1, <1>7, <1>10
    <3>3. QED
      BY <3>1, <3>2, <1>2
  <2>2. CASE i \in 1..(n - 1)
    <3>1. msg.fields[i + 1].at = End(msg.fields[i])
      BY <2>2 DEF Tiled
    <3>2. i \in 1..n /\ i + 1 \in 1..n
      BY <2>2, <1>4
    <3>3. new.fields[i] = msg.fields[i] /\ new.fields[i + 1] = msg.fields[i + 1]
      BY <3>2, <1>7
    <3>4. QED
      BY <3>1, <3>3
  <2>3. QED
    BY <2>1, <2>2, <1>4
<1>11. Tiled(new)
  BY <1>4, <1>7, <1>8, <1>9, <1>10 DEF Tiled
<1>12. QED
  BY <1>2, <1>4, <1>6, <1>7, <1>11

(* A field that is put leaves the message well put: it says what was put, of that type,   *)
(* and what it said before.                                                              *)
LEMMA PutKeeps ==
  ASSUME NEW V, NEW T, NEW msg, WellPut(V, msg, T), NEW type \in Codes, type \notin T,
         NEW len \in Nat, NEW value \in V, NEW new, new = Put(msg, type, len, value)
  PROVE  /\ WellPut(V, new, T \cup {type})
         /\ \A t : Says(new, t) = IF t = type THEN {value} ELSE Says(msg, t)
<1> DEFINE n == Len(msg.fields)
<1>1. msg \in Message(V) /\ Tiled(msg)
  BY DEF WellPut
<1>2. /\ new \in Message(V) /\ Tiled(new) /\ new.end = msg.end + 3 + len
      /\ n \in Nat /\ DOMAIN msg.fields = 1..n /\ DOMAIN new.fields = 1..(n + 1)
      /\ \A i \in 1..n : new.fields[i] = msg.fields[i]
      /\ new.fields[n + 1].type = type /\ new.fields[n + 1].value = value
  <2>1. n = Len(msg.fields)
    OBVIOUS
  <2> HIDE DEF n
  <2>2. QED
    BY <1>1, <2>1, PutIsTiled
<1> HIDE DEF n
<1>0. /\ \A i \in DOMAIN msg.fields : msg.fields[i].type \in T
      /\ \A i, j \in DOMAIN msg.fields : msg.fields[i].type = msg.fields[j].type => i = j
      /\ T \subseteq Codes
  BY DEF WellPut
<1>3. /\ \A i \in 1..n : msg.fields[i].type \in T
      /\ \A i, j \in 1..n : msg.fields[i].type = msg.fields[j].type => i = j
      /\ T \subseteq Codes
  BY <1>2, <1>0
<1>4. \A i \in 1..(n + 1) : i \in 1..n \/ i = n + 1
  BY <1>2
<1>5. \A i \in 1..n : new.fields[i].type \in T /\ new.fields[i].type = msg.fields[i].type
  BY <1>2, <1>3
<1>6. WellPut(V, new, T \cup {type})
  <2>1. \A i \in 1..(n + 1) : new.fields[i].type \in T \cup {type}
    BY <1>2, <1>4, <1>5
  <2>2. \A i, j \in 1..(n + 1) : new.fields[i].type = new.fields[j].type => i = j
    BY <1>2, <1>3, <1>4, <1>5
  <2>3. QED
    BY <1>2, <1>3, <2>1, <2>2 DEF WellPut
<1>7. ASSUME NEW t PROVE Says(new, t) = IF t = type THEN {value} ELSE Says(msg, t)
  <2>1. CASE t = type
    <3>1. {j \in 1..(n + 1) : new.fields[j].type = t} = {n + 1}
      BY <1>2, <1>4, <1>5, <2>1
    <3>2. QED
      BY <1>2, <2>1, <3>1 DEF Says
  <2>2. CASE t # type
    <3>1. {j \in 1..(n + 1) : new.fields[j].type = t} = {j \in 1..n : msg.fields[j].type = t}
      BY <1>2, <1>4, <1>5, <2>2
    <3>2. \A j \in 1..n : new.fields[j].value = msg.fields[j].value
      BY <1>2
    <3>3. QED
      BY <1>2, <2>2, <3>1, <3>2 DEF Says
  <2>3. QED
    BY <2>1, <2>2
<1>8. QED
  BY <1>2, <1>6, <1>7

(* A step of a composer: a field of a type that was not there yet is put, or none; the   *)
(* values are the one of that field, or none.                                            *)
MayPut(V, msg, T, type, len, values, new) ==
  /\ WellPut(V, msg, T) /\ type \in Codes /\ type \notin T
  /\ \/ values = {} /\ new = msg
     \/ \E value \in V : /\ values = {value} /\ len \in Nat
                         /\ new = Put(msg, type, len, value)

LEMMA MayPutKeeps ==
  ASSUME NEW V, NEW msg, NEW T, NEW type, NEW len, NEW values, NEW new,
         MayPut(V, msg, T, type, len, values, new)
  PROVE  WellPut(V, new, T \cup {type})
<1>1. WellPut(V, msg, T) /\ type \in Codes /\ type \notin T
  BY DEF MayPut
<1>2. CASE values = {} /\ new = msg
  BY <1>1, <1>2 DEF WellPut
<1>3. CASE \E value \in V : /\ values = {value} /\ len \in Nat
                            /\ new = Put(msg, type, len, value)
  <2>1. PICK value \in V : values = {value} /\ len \in Nat /\ new = Put(msg, type, len, value)
    BY <1>3
  <2>2. QED
    BY <1>1, <2>1, PutKeeps
<1>4. QED
  BY <1>2, <1>3 DEF MayPut

LEMMA MayPutSays ==
  ASSUME NEW V, NEW msg, NEW T, NEW type, NEW len, NEW values, NEW new,
         MayPut(V, msg, T, type, len, values, new)
  PROVE  \A t : Says(new, t) = IF t = type THEN values ELSE Says(msg, t)
<1>1. WellPut(V, msg, T) /\ type \in Codes /\ type \notin T
  BY DEF MayPut
<1>2. CASE values = {} /\ new = msg
  <2>1. Says(msg, type) = {}
    BY <1>1 DEF WellPut, Says
  <2>2. QED
    BY <1>2, <2>1
<1>3. CASE \E value \in V : /\ values = {value} /\ len \in Nat
                            /\ new = Put(msg, type, len, value)
  <2>1. PICK value \in V : values = {value} /\ len \in Nat /\ new = Put(msg, type, len, value)
    BY <1>3
  <2>2. WellPut(V, new, T \cup {type})
    BY <1>1, <2>1, PutKeeps
  <2>3. \A t : Says(new, t) = IF t = type THEN {value} ELSE Says(msg, t)
    BY <1>1, <2>1, <2>2, PutKeeps
  <2>4. QED
    BY <2>1, <2>3
<1>4. QED
  BY <1>2, <1>3 DEF MayPut

(* GetTLV finds each field of such a message, by its type and by its index, and nothing  *)
(* of a type it does not hold.                                                           *)
LEMMA GetTLVFinds ==
  ASSUME NEW V, NEW T, NEW msg, WellPut(V, msg, T)
  PROVE  /\ Reads(msg)
         /\ \A t \in Codes :
              /\ Says(msg, t) = {} => GetTLV(msg, t) = NotFound
              /\ \A v : Says(msg, t) = {v} =>
                          Found(GetTLV(msg, t)) /\ GetTLV(msg, t).value = v
<1> DEFINE n == Len(msg.fields)
           f(i) == msg.fields[i]
<1>1. msg \in Message(V) /\ Walk(msg) = msg.fields
  BY WalkSeesTheFields DEF WellPut
<1>2. n \in Nat /\ DOMAIN msg.fields = 1..n
  BY <1>1 DEF Message
<1>3. /\ \A i \in 1..n : f(i).type \in Codes
      /\ \A i, j \in 1..n : f(i).type = f(j).type => i = j
  BY <1>2 DEF WellPut
<1>4. ASSUME NEW i \in 1..n, NEW t, t = f(i).type PROVE GetTLV(msg, t) = f(i)
  <2>1. ~(t > \h1000) /\ \A j \in 1..n : f(j).type = t <=> j = i
    BY <1>3, <1>4 DEF Codes
  <2>2. GetTLV(msg, t) =
          IF \E j \in DOMAIN msg.fields : f(j).type = t
          THEN f(CHOOSE j \in DOMAIN msg.fields :
                   /\ f(j).type = t
                   /\ \A k \in DOMAIN msg.fields : f(k).type = t => j <= k)
          ELSE NotFound
    BY <1>1, <2>1 DEF GetTLV, FirstMatch
  <2>3. (CHOOSE j \in DOMAIN msg.fields :
           /\ f(j).type = t
           /\ \A k \in DOMAIN msg.fields : f(k).type = t => j <= k) = i
    BY <1>2, <2>1
  <2>4. \E j \in DOMAIN msg.fields : f(j).type = t
    BY <1>2, <2>1
  <2>5. QED
    BY <2>2, <2>3, <2>4, Zenon
<1>5. ASSUME NEW i \in 1..n PROVE GetTLV(msg, \h1000 + i) = f(i)
  <2>1. \h1000 + i > \h1000 /\ \A j \in 1..n : j + \h1000 = \h1000 + i <=> j = i
    BY <1>2
  <2>2. GetTLV(msg, \h1000 + i) =
          IF \E j \in DOMAIN msg.fields : j + \h1000 = \h1000 + i
          THEN f(CHOOSE j \in DOMAIN msg.fields :
                   /\ j + \h1000 = \h1000 + i
                   /\ \A k \in DOMAIN msg.fields : k + \h1000 = \h1000 + i => j <= k)
          ELSE NotFound
    BY <1>1, <2>1 DEF GetTLV, FirstMatch
  <2>3. (CHOOSE j \in DOMAIN msg.fields :
           /\ j + \h1000 = \h1000 + i
           /\ \A k \in DOMAIN msg.fields : k + \h1000 = \h1000 + i => j <= k) = i
    BY <1>2, <2>1
  <2>4. QED
    BY <1>2, <2>1, <2>2, <2>3
<1>6. ASSUME NEW t \in Codes, Says(msg, t) = {} PROVE GetTLV(msg, t) = NotFound
  <2>1. ~(t > \h1000)
    BY DEF Codes
  <2>2. ~ \E i \in DOMAIN msg.fields : msg.fields[i].type = t
    BY <1>6 DEF Says
  <2>3. QED
    BY <1>1, <2>1, <2>2 DEF GetTLV
<1>7. ASSUME NEW t \in Codes, NEW v, Says(msg, t) = {v}
      PROVE  Found(GetTLV(msg, t)) /\ GetTLV(msg, t).value = v
  <2>1. PICK i \in 1..n : f(i).type = t /\ f(i).value = v
    BY <1>2, <1>7 DEF Says
  <2>2. GetTLV(msg, t) = f(i)
    BY <1>4, <2>1
  <2>3. NotFound.type = -1
    BY DEF NotFound, Astray, Field
  <2>4. QED
    BY <1>3, <2>1, <2>2, <2>3 DEF Found, Codes
<1>8. Reads(msg)
  BY <1>1, <1>2, <1>4, <1>5 DEF Reads
<1>9. QED
  BY <1>6, <1>7, <1>8

(* Such a message is read as it was written, and if it fits the buffer it is sent whole.  *)
LEMMA WellPutIsGood ==
  ASSUME NEW V, NEW T, NEW msg, WellPut(V, msg, T), msg.end <= 247
  PROVE  Good(msg)
<1>1. Reads(msg)
  BY GetTLVFinds
<1>2. msg.end \in Nat
  BY DEF WellPut, Message
<1>3. /\ ComposeQMUXMsg(1, msg).mux = msg.end - 4
      /\ ComposeQMUXMsg(1, msg).copied = msg.end - 4 + 4 + 3 + 6 - 1 + 1
  BY <1>2, Sizes DEF ComposeQMUXMsg
<1>4. msg.end - 4 + 4 + 3 + 6 - 1 + 1 = 6 + 3 + msg.end /\ 6 + 3 + msg.end <= 256
  BY <1>2
<1>5. Sent(msg)
  BY <1>3, <1>4, Sizes DEF Sent
<1>6. QED
  BY <1>1, <1>5 DEF Good

(* A request that is a packed struct of one field, of the size of the two.                *)
IsOneField(V, type, len, value, new) ==
  /\ type \in Codes /\ len \in Nat /\ value \in V
  /\ new = OneField(type, len, value, 7 + len)

LEMMA OneFieldIsWellPut ==
  ASSUME NEW V, NEW type, NEW len, NEW value, NEW new,
         IsOneField(V, type, len, value, new)
  PROVE  /\ WellPut(V, new, {type})
         /\ new.end = 7 + len
         /\ \A t : Says(new, t) = IF t = type THEN {value} ELSE {}
<1> DEFINE none == {}
<1>1. type \in Codes /\ len \in Nat /\ value \in V /\ new = Put(NoFields, type, len, value)
  BY Sizes DEF IsOneField, OneField, Struct, Put, NoFields
<1>2. WellPut(V, NoFields, none) /\ NoFields.end = 4
  BY EmptyIsWellPut
<1>3. new.end = 7 + len
  BY <1>1, <1>2, Sizes DEF Put
<1>4. type \notin none /\ none \cup {type} = {type}
  OBVIOUS
<1> HIDE DEF none
<1>5. MayPut(V, NoFields, none, type, len, {value}, new)
  BY <1>1, <1>2, <1>4 DEF MayPut
<1>6. WellPut(V, new, none \cup {type})
  BY <1>5, MayPutKeeps
<1>7. \A t : Says(new, t) = IF t = type THEN {value} ELSE Says(NoFields, t)
  BY <1>5, MayPutSays
<1>8. \A t : Says(NoFields, t) = {}
  BY EmptyIsWellPut
<1>9. QED
  BY <1>3, <1>4, <1>6, <1>7, <1>8

(* What a field says of a text: nothing if it is not given.                              *)
Texts(text) == IF text = Null THEN {} ELSE {text}

Short(profile) ==
  profile.apn <= MaxText /\ profile.user <= MaxText /\ profile.password <= MaxText

(* START_NETWORK_INTERFACE, whichever texts are given, of whatever length, on CDMA or not:  *)
(* the fields are well put, and with short texts they fit.                                 *)
LEMMA StartIsWellPut ==
  ASSUME NEW profile \in Profile, NEW is_cdma \in BOOLEAN
  PROVE  \E T : /\ WellPut(Int, WdsStartNwInterfaceReq(profile, is_cdma), T)
                /\ Short(profile) => WdsStartNwInterfaceReq(profile, is_cdma).end <= 247
<1> DEFINE account == Account(profile, is_cdma)
           text == profile.apn
           name == account.user
           word == account.password
           kind == account.auth
           family == profile.curIpFamily
           context == profile.pdp
           none == Struct(<<>>, QMIWDS_START_NETWORK_INTERFACE_REQ_MSG)
           first == IF is_cdma THEN 2 ELSE 1
           tech == Put(none, \h30, UCHAR, first)
           apn  == PutIf(Given(text), tech, \h14, text, text)
           user == PutIf(Given(name), apn, \h17, name, name)
           pass == PutIf(Given(word), user, \h18, word, word)
           both == Given(name) /\ Given(word)
           auth == PutIf(both, pass, \h16, UCHAR, kind)
           fam  == Put(auth, \h19, UCHAR, family)
           asked == profile.pdp # 0 /\ ~is_cdma
           pdp  == PutIf(asked, fam, \h31, UCHAR, context)
           kinds == IF both THEN {kind} ELSE {}
           pdps == IF asked THEN {context} ELSE {}
           T1 == {} \cup {\h30}
           T2 == T1 \cup {\h14}
           T3 == T2 \cup {\h17}
           T4 == T3 \cup {\h18}
           T5 == T4 \cup {\h16}
           T6 == T5 \cup {\h19}
           T7 == T6 \cup {\h31}
<1>1. /\ text \in Text /\ profile.user \in Text /\ profile.password \in Text
      /\ profile.auth \in Int /\ context \in Int /\ family \in Int
      /\ Short(profile) => text <= 60
  BY DEF Profile, Short, MaxText
<1>2. /\ name \in Text /\ word \in Text /\ kind \in Int
      /\ Short(profile) => name <= 60 /\ word <= 60
  <2>1. CASE is_cdma /\ IsEmpty(profile.user) /\ IsEmpty(profile.password)
    <3>1. account = [user |-> CtnetUser, password |-> CtnetPassword, auth |-> Chap]
      BY <2>1, Zenon DEF Account, account
    <3> HIDE DEF account
    <3>2. QED
      BY <3>1 DEF Text, CtnetUser, CtnetPassword, Chap
  <2>2. CASE ~(is_cdma /\ IsEmpty(profile.user) /\ IsEmpty(profile.password))
    <3>1. account = [user |-> profile.user, password |-> profile.password,
                     auth |-> profile.auth]
      BY <2>2, Zenon DEF Account, account
    <3> HIDE DEF account
    <3>2. QED
      BY <1>1, <3>1 DEF Short, MaxText
  <2>3. QED
    BY <2>1, <2>2
<1>3. UCHAR \in Nat /\ UCHAR = 1 /\ first \in Int
  BY Sizes
<1>5. \h30 \in Codes /\ \h14 \in Codes /\ \h17 \in Codes /\ \h18 \in Codes
      /\ \h16 \in Codes /\ \h19 \in Codes /\ \h31 \in Codes
  BY DEF Codes
<1>6. none = NoFields
  BY DEF Struct, NoFields, QMIWDS_START_NETWORK_INTERFACE_REQ_MSG
<1>7. tech = Put(NoFields, \h30, UCHAR, first)
  BY <1>6
<1>8. \/ text # Null /\ apn = Put(tech, \h14, text, text)
      \/ text = Null /\ apn = tech
  BY Zenon DEF PutIf, Given
<1>9. \/ name # Null /\ user = Put(apn, \h17, name, name)
      \/ name = Null /\ user = apn
  BY Zenon DEF PutIf, Given
<1>10. \/ word # Null /\ pass = Put(user, \h18, word, word)
       \/ word = Null /\ pass = user
  BY Zenon DEF PutIf, Given
<1>11. \/ kinds = {kind} /\ auth = Put(pass, \h16, UCHAR, kind)
       \/ kinds = {} /\ auth = pass
  BY Zenon DEF PutIf
<1>12. fam = Put(auth, \h19, UCHAR, family)
  OBVIOUS
<1>13. \/ pdps = {context} /\ pdp = Put(fam, \h31, UCHAR, context)
       \/ pdps = {} /\ pdp = fam
  BY Zenon DEF PutIf
<1>14. pdp = WdsStartNwInterfaceReq(profile, is_cdma)
  BY Zenon DEF WdsStartNwInterfaceReq
<1>15. /\ \h14 \notin T1 /\ \h17 \notin T2 /\ \h18 \notin T3 /\ \h16 \notin T4
       /\ \h19 \notin T5 /\ \h31 \notin T6
  OBVIOUS
<1> HIDE DEF account, text, name, word, kind, family, context, none, first, tech, apn, user,
             pass, both, auth, fam, asked, pdp, kinds, pdps
<1>16. WellPut(Int, NoFields, {}) /\ NoFields.end = 4
  BY EmptyIsWellPut
<1>17. MayPut(Int, NoFields, {}, \h30, UCHAR, {first}, tech)
  BY <1>1, <1>2, <1>3, <1>5, <1>7, <1>16 DEF MayPut
<1>18. WellPut(Int, tech, T1)
  BY <1>17, MayPutKeeps
<1> HIDE DEF T1
<1>19. MayPut(Int, tech, T1, \h14, text, Texts(text), apn)
  BY <1>1, <1>2, <1>3, <1>5, <1>8, <1>18, <1>15 DEF MayPut, Text, Texts
<1>20. WellPut(Int, apn, T2)
  BY <1>19, MayPutKeeps
<1> HIDE DEF T2
<1>21. MayPut(Int, apn, T2, \h17, name, Texts(name), user)
  BY <1>1, <1>2, <1>3, <1>5, <1>9, <1>20, <1>15 DEF MayPut, Text, Texts
<1>22. WellPut(Int, user, T3)
  BY <1>21, MayPutKeeps
<1> HIDE DEF T3
<1>23. MayPut(Int, user, T3, \h18, word, Texts(word), pass)
  BY <1>1, <1>2, <1>3, <1>5, <1>10, <1>22, <1>15 DEF MayPut, Text, Texts
<1>24. WellPut(Int, pass, T4)
  BY <1>23, MayPutKeeps
<1> HIDE DEF T4
<1>25. MayPut(Int, pass, T4, \h16, UCHAR, kinds, auth)
  BY <1>1, <1>2, <1>3, <1>5, <1>11, <1>24, <1>15 DEF MayPut
<1>26. WellPut(Int, auth, T5)
  BY <1>25, MayPutKeeps
<1> HIDE DEF T5
<1>27. MayPut(Int, auth, T5, \h19, UCHAR, {family}, fam)
  BY <1>1, <1>2, <1>3, <1>5, <1>12, <1>26, <1>15 DEF MayPut
<1>28. WellPut(Int, fam, T6)
  BY <1>27, MayPutKeeps
<1> HIDE DEF T6
<1>29. MayPut(Int, fam, T6, \h31, UCHAR, pdps, pdp)
  BY <1>1, <1>2, <1>3, <1>5, <1>13, <1>28, <1>15 DEF MayPut
<1>30. WellPut(Int, pdp, T7)
  BY <1>29, MayPutKeeps
<1> HIDE DEF T7
<1>31. Short(profile) => pdp.end <= 247
  <2>1. /\ apn.end \in Nat /\ user.end \in Nat /\ pass.end \in Nat /\ auth.end \in Nat
        /\ fam.end \in Nat /\ pdp.end \in Nat
    BY <1>18, <1>20, <1>22, <1>24, <1>26, <1>28, <1>30 DEF WellPut, Message
  <2>2. tech.end = 8
    BY <1>3, <1>7, <1>16, Sizes DEF Put
  <2>3. text <= 60 => apn.end <= 8 + 63
    BY <1>1, <1>8, <2>2, Sizes DEF Put, Text, Null
  <2>4. name <= 60 => user.end <= apn.end + 63
    BY <1>2, <1>9, <2>1, Sizes, SMTT(30) DEF Put, Text, Null
  <2>5. word <= 60 => pass.end <= user.end + 63
    BY <1>2, <1>10, <2>1, Sizes, SMTT(30) DEF Put, Text, Null
  <2>6. auth.end <= pass.end + 4
    BY <1>3, <1>11, <2>1, Sizes DEF Put
  <2>7. fam.end = auth.end + 4
    BY <1>3, <1>12, <2>1, Sizes DEF Put
  <2>8. pdp.end <= fam.end + 4
    BY <1>3, <1>13, <2>1, Sizes DEF Put
  <2>9. QED
    BY <1>1, <1>2, <2>1, <2>3, <2>4, <2>5, <2>6, <2>7, <2>8
<1>32. QED
  BY <1>14, <1>30, <1>31, Zenon

(* MODIFY_PROFILE_SETTINGS: behind the struct that names the profile, whichever texts are  *)
(* given, the fields are well put; the message says each text that is given.              *)
LEMMA ModifyIsWellPut ==
  ASSUME NEW profile \in Profile, NEW new, new = WdsModifyProfileSettingsReq(profile)
  PROVE  /\ \E T : WellPut(Int, new, T)
         /\ Short(profile) => new.end <= 247
         /\ Says(new, \h14) = Texts(profile.apn)
         /\ Says(new, \h1B) = Texts(profile.user)
         /\ Says(new, \h1C) = Texts(profile.password)
<1> DEFINE struct == ProfileStruct(profile)
           text == profile.apn
           name == profile.user
           word == profile.password
           kind == profile.auth
           context == profile.pdp
           pdp  == Put(struct, \h11, UCHAR, 3)
           apn  == PutIf(Given(text), pdp, \h14, text, text)
           user == PutIf(Given(name), apn, \h1B, name, name)
           pass == PutIf(Given(word), user, \h1C, word, word)
           both == Given(name) /\ Given(word)
           auth == PutIf(both, pass, \h1D, UCHAR, kind)
<1> DEFINE T1 == {\h01}
           T2 == T1 \cup {\h11}
           T3 == T2 \cup {\h14}
           T4 == T3 \cup {\h1B}
           T5 == T4 \cup {\h1C}
           T6 == T5 \cup {\h1D}
           kinds == IF both THEN {kind} ELSE {}
<1>1. /\ text \in Text /\ name \in Text /\ word \in Text /\ kind \in Int /\ context \in Int
      /\ Short(profile) => text <= 60 /\ name <= 60 /\ word <= 60
  BY DEF Profile, Short, MaxText
<1>2. UCHAR \in Nat /\ UCHAR = 1 /\ 3 \in Int /\ both \in BOOLEAN
  BY Sizes DEF Given
<1>3. /\ \h01 \in Codes /\ \h11 \in Codes /\ \h14 \in Codes /\ \h1B \in Codes
      /\ \h1C \in Codes /\ \h1D \in Codes
  BY DEF Codes
<1>4. struct = OneField(\h01, 2, context, 9) /\ 9 = 7 + 2
  BY Sizes DEF ProfileStruct, RequestSize, QMIWDS_MODIFY_PROFILE_SETTINGS_REQ_MSG
<1>5. pdp = Put(struct, \h11, UCHAR, 3)
  OBVIOUS
<1>6. \/ text # Null /\ apn = Put(pdp, \h14, text, text)
      \/ text = Null /\ apn = pdp
  BY Zenon DEF PutIf, Given
<1>7. \/ name # Null /\ user = Put(apn, \h1B, name, name)
      \/ name = Null /\ user = apn
  BY Zenon DEF PutIf, Given
<1>8. \/ word # Null /\ pass = Put(user, \h1C, word, word)
      \/ word = Null /\ pass = user
  BY Zenon DEF PutIf, Given
<1>9. \/ kinds = {kind} /\ auth = Put(pass, \h1D, UCHAR, kind)
      \/ kinds = {} /\ auth = pass
  BY Zenon DEF PutIf
<1>10. new = auth
  BY Zenon DEF WdsModifyProfileSettingsReq
<1>11. /\ \h11 \notin T1 /\ \h14 \notin T2 /\ \h1B \notin T3 /\ \h1C \notin T4
       /\ \h1D \notin T5
  OBVIOUS
<1> HIDE DEF struct, text, name, word, kind, context, pdp, apn, user, pass, both, auth, kinds
<1>12. 2 \in Nat /\ 9 = 7 + 2 /\ context \in Int /\ \h01 \in Codes
  BY <1>1, <1>3
<1>13. /\ WellPut(Int, struct, T1) /\ struct.end = 9
       /\ \A t : Says(struct, t) = IF t = \h01 THEN {context} ELSE {}
  <2>1. IsOneField(Int, \h01, 2, context, struct)
    BY <1>4, <1>12 DEF IsOneField
  <2>2. struct.end = 7 + 2
    BY <2>1, OneFieldIsWellPut, ZenonT(40)
  <2>3. \A t : Says(struct, t) = IF t = \h01 THEN {context} ELSE {}
    BY <2>1, OneFieldIsWellPut
  <2> HIDE DEF T1
  <2>4. WellPut(Int, struct, {\h01})
    BY <2>1, OneFieldIsWellPut
  <2>5. QED
    BY <2>2, <2>3, <2>4 DEF T1
<1> HIDE DEF T1
<1>14. MayPut(Int, struct, T1, \h11, UCHAR, {3}, pdp)
  BY <1>1, <1>2, <1>3, <1>5, <1>11, <1>13 DEF MayPut
<1>15. WellPut(Int, pdp, T2)
  BY <1>14, MayPutKeeps
<1>16. \A t : Says(pdp, t) = IF t = \h11 THEN {3} ELSE Says(struct, t)
  BY <1>14, MayPutSays
<1> HIDE DEF T2
<1>17. MayPut(Int, pdp, T2, \h14, text, Texts(text), apn)
  BY <1>1, <1>2, <1>3, <1>6, <1>11, <1>15 DEF MayPut, Text, Texts
<1>18. WellPut(Int, apn, T3)
  BY <1>17, MayPutKeeps
<1>19. \A t : Says(apn, t) = IF t = \h14 THEN Texts(text) ELSE Says(pdp, t)
  BY <1>17, MayPutSays
<1> HIDE DEF T3
<1>20. MayPut(Int, apn, T3, \h1B, name, Texts(name), user)
  BY <1>1, <1>2, <1>3, <1>7, <1>11, <1>18 DEF MayPut, Text, Texts
<1>21. WellPut(Int, user, T4)
  BY <1>20, MayPutKeeps
<1>22. \A t : Says(user, t) = IF t = \h1B THEN Texts(name) ELSE Says(apn, t)
  BY <1>20, MayPutSays
<1> HIDE DEF T4
<1>23. MayPut(Int, user, T4, \h1C, word, Texts(word), pass)
  BY <1>1, <1>2, <1>3, <1>8, <1>11, <1>21 DEF MayPut, Text, Texts
<1>24. WellPut(Int, pass, T5)
  BY <1>23, MayPutKeeps
<1>25. \A t : Says(pass, t) = IF t = \h1C THEN Texts(word) ELSE Says(user, t)
  BY <1>23, MayPutSays
<1> HIDE DEF T5
<1>26. MayPut(Int, pass, T5, \h1D, UCHAR, kinds, auth)
  BY <1>1, <1>2, <1>3, <1>9, <1>11, <1>24 DEF MayPut
<1>27. WellPut(Int, auth, T6)
  BY <1>26, MayPutKeeps
<1>28. \A t : Says(auth, t) = IF t = \h1D THEN kinds ELSE Says(pass, t)
  BY <1>26, MayPutSays
<1> HIDE DEF T6
<1>29. Short(profile) => auth.end <= 247
  <2>1. apn.end \in Nat /\ user.end \in Nat /\ pass.end \in Nat /\ auth.end \in Nat
    BY <1>15, <1>18, <1>21, <1>24, <1>27 DEF WellPut, Message
  <2>2. pdp.end = 13
    BY <1>2, <1>5, <1>13, Sizes DEF Put
  <2>3. text <= 60 => apn.end <= 13 + 63
    BY <1>1, <1>6, <2>2, Sizes DEF Put, Text, Null
  <2>4. name <= 60 => user.end <= apn.end + 63
    BY <1>1, <1>7, <2>1, Sizes DEF Put, Text, Null
  <2>5. word <= 60 => pass.end <= user.end + 63
    BY <1>1, <1>8, <2>1, Sizes DEF Put, Text, Null
  <2>6. auth.end <= pass.end + 4
    BY <1>2, <1>9, <2>1, Sizes DEF Put
  <2>7. QED
    BY <1>1, <2>1, <2>3, <2>4, <2>5, <2>6
<1>30. /\ Says(auth, \h14) = Texts(text)
       /\ Says(auth, \h1B) = Texts(name)
       /\ Says(auth, \h1C) = Texts(word)
  BY <1>13, <1>16, <1>19, <1>22, <1>25, <1>28
<1>31. QED
  BY <1>10, <1>27, <1>29, <1>30 DEF text, name, word

(* START_NETWORK_INTERFACE is composed at offsets: of texts of whatever length, its         *)
(* fields follow one another without a gap, on CDMA or not.                               *)
THEOREM StartIsTiled ==
  ASSUME NEW profile \in Profile, NEW is_cdma \in BOOLEAN
  PROVE  Tiled(WdsStartNwInterfaceReq(profile, is_cdma))
<1> DEFINE start == WdsStartNwInterfaceReq(profile, is_cdma)
<1>1. PICK T : WellPut(Int, start, T)
  BY StartIsWellPut, Zenon
<1> HIDE DEF start
<1>2. Tiled(start)
  BY <1>1 DEF WellPut
<1>3. QED
  BY <1>2, Zenon DEF start

(* MODIFY_PROFILE_SETTINGS likewise, behind the struct that names the profile.            *)
THEOREM ModifyIsTiled ==
  ASSUME NEW profile \in Profile
  PROVE  Tiled(WdsModifyProfileSettingsReq(profile))
BY ModifyIsWellPut DEF WellPut

-------------------------------------------------------------------------------
(* The case that is looked at does not change, and its subject tells which it is.        *)
CaseIsKnown == case \in Cases \cup {NoCase}

LEMMA CaseStays == Spec => []CaseIsKnown
<1>1. Init => CaseIsKnown
  BY DEF Init, CaseIsKnown
<1>2. CaseIsKnown /\ [Next]_seqVars => CaseIsKnown'
  BY ZenonT(40) DEF CaseIsKnown, Cases, RequestCases, PinCases, SimCases, CdmaCases, AddressCases,
         SmsCases, NoCase, Next, seqVars
<1>3. QED
  BY <1>1, <1>2, PTL DEF Spec

LEMMA CaseHasSubject ==
  ASSUME CaseIsKnown
  PROVE  /\ case.subject = "request" => case \in RequestCases
         /\ case.subject = "pin" => case \in PinCases
         /\ case.subject = "sim" => case \in SimCases
         /\ case.subject \in {"mcc", "mnc"} => case \in CdmaCases
         /\ case.subject = "address" => case \in AddressCases
         /\ case.subject = "sms" => case \in SmsCases
<1>1. case = NoCase => case.subject = "none"
  BY DEF NoCase
<1>2. /\ case \in RequestCases => case.subject = "request"
      /\ case \in PinCases => case.subject = "pin"
      /\ case \in SimCases => case.subject = "sim"
      /\ case \in AddressCases => case.subject = "address"
      /\ case \in SmsCases => case.subject = "sms"
  BY DEF RequestCases, PinCases, SimCases, AddressCases, SmsCases
<1>3. case \in CdmaCases => case.subject = "mcc" \/ case.subject = "mnc"
  BY DEF CdmaCases
<1>4. QED
  BY <1>1, <1>2, <1>3 DEF CaseIsKnown, Cases

-------------------------------------------------------------------------------
(* The requests that are packed structs.                                                 *)
LEMMA OneFieldIsGood ==
  ASSUME NEW type \in Codes, NEW len \in Nat, len <= 240, NEW value \in Int, NEW size,
         size = 7 + len
  PROVE  Good(OneField(type, len, value, size))
<1> DEFINE new == OneField(type, len, value, size)
<1>1. IsOneField(Int, type, len, value, new)
  BY DEF IsOneField
<1> HIDE DEF new
<1>2. WellPut(Int, new, {type})
  BY <1>1, OneFieldIsWellPut
<1>3. new.end = 7 + len
  BY <1>1, OneFieldIsWellPut
<1>4. Good(new)
  BY <1>2, <1>3, WellPutIsGood
<1>5. QED
  BY <1>4 DEF new

LEMMA StructsAreGood ==
  ASSUME NEW n \in Int
  PROVE  /\ Good(WdsStopNwInterfaceReq(n)) /\ Good(WdsSetAutoConnect(n))
         /\ Good(SetOperatingMode(n)) /\ Good(WdsGetRuntimeSettingReq(n))
         /\ Good(WdsSetClientIPFamilyPref(n))
<1>0. \h01 \in Codes /\ \h10 \in Codes
  BY DEF Codes
<1> DEFINE four == OneField(\h01, 4, n, 11)
           one == OneField(\h01, 1, n, 8)
           mask == OneField(\h10, 4, n, 11)
<1>1. Good(OneField(\h01, 4, n, 11))
  <2>1. 4 \in Nat /\ 4 <= 240 /\ 11 = 7 + 4
    OBVIOUS
  <2>2. QED
    BY <1>0, <2>1, OneFieldIsGood
<1>2. Good(OneField(\h01, 1, n, 8))
  <2>1. 1 \in Nat /\ 1 <= 240 /\ 8 = 7 + 1
    OBVIOUS
  <2>2. QED
    BY <1>0, <2>1, OneFieldIsGood
<1>3. Good(OneField(\h10, 4, n, 11))
  <2>1. 4 \in Nat /\ 4 <= 240 /\ 11 = 7 + 4
    OBVIOUS
  <2>2. QED
    BY <1>0, <2>1, OneFieldIsGood
<1>4. /\ WdsStopNwInterfaceReq(n) = four
      /\ WdsSetAutoConnect(n) = one
      /\ SetOperatingMode(n) = one
      /\ WdsGetRuntimeSettingReq(n) = mask
      /\ WdsSetClientIPFamilyPref(n) = one
  BY Sizes DEF WdsStopNwInterfaceReq, WdsSetAutoConnect, SetOperatingMode,
     DmsSetOperatingModeReq, WdsGetRuntimeSettingReq, WdsSetClientIPFamilyPref,
     RequestSize, QMIWDS_STOP_NETWORK_INTERFACE_REQ_MSG,
     QMIWDS_SET_AUTO_CONNECT_REQ_MSG, QMIDMS_SET_OPERATING_MODE_REQ_MSG,
     QMIWDS_GET_RUNTIME_SETTINGS_REQ_MSG, QMIWDS_SET_CLIENT_IP_FAMILY_PREF_REQ_MSG
<1>5. QED
  BY <1>1, <1>2, <1>3, <1>4

LEMMA ProfileRequestIsGood ==
  ASSUME NEW profile \in Profile
  PROVE  Good(WdsGetProfileSettingsReqSend(profile))
<1>1. profile.pdp \in Int /\ \h01 \in Codes
  BY DEF Profile, Codes
<1>2. 2 \in Nat /\ 2 <= 240 /\ 9 = 7 + 2
  OBVIOUS
<1>3. WdsGetProfileSettingsReqSend(profile) = OneField(\h01, 2, profile.pdp, 9)
  BY Sizes DEF WdsGetProfileSettingsReqSend, RequestSize, QMIWDS_GET_PROFILE_SETTINGS_REQ_MSG
<1>4. QED
  BY <1>1, <1>2, <1>3, OneFieldIsGood

(* The structs of requests with several fields lie one behind the other.                  *)
LEMMA DataFormatIsGood ==
  ASSUME NEW link \in Int
  PROVE  Good(WdaSetDataFormat(link))
<1> DEFINE qos == Put(NoFields, \h10, 1, 0)
           format == Put(qos, \h11, 4, link)
           new == Put(format, \h13, 4, 0)
           none == {}
           T1 == none \cup {\h10}
           T2 == T1 \cup {\h11}
           T3 == T2 \cup {\h13}
<1>1. new = WdaSetDataFormat(link)
  BY Sizes DEF WdaSetDataFormat, Struct, Put, NoFields, TLV_QOS, TLV_DATA_FORMAT
<1>2. \h10 \in Codes /\ \h11 \in Codes /\ \h13 \in Codes
  BY DEF Codes
<1>3. \h10 \notin none /\ \h11 \notin T1 /\ \h13 \notin T2
  OBVIOUS
<1>4. WellPut(Int, NoFields, none) /\ NoFields.end = 4
  BY EmptyIsWellPut
<1>5. new.end = 22
  BY <1>4, Sizes DEF Put
<1>6. qos = Put(NoFields, \h10, 1, 0) /\ format = Put(qos, \h11, 4, link)
      /\ new = Put(format, \h13, 4, 0)
  OBVIOUS
<1> HIDE DEF qos, format, new, none
<1>7. MayPut(Int, NoFields, none, \h10, 1, {0}, qos)
  BY <1>2, <1>3, <1>4, <1>6 DEF MayPut
<1>8. WellPut(Int, qos, T1)
  BY <1>7, MayPutKeeps
<1> HIDE DEF T1
<1>9. MayPut(Int, qos, T1, \h11, 4, {link}, format)
  BY <1>2, <1>3, <1>8, <1>6 DEF MayPut
<1>10. WellPut(Int, format, T2)
  BY <1>9, MayPutKeeps
<1> HIDE DEF T2
<1>11. MayPut(Int, format, T2, \h13, 4, {0}, new)
  BY <1>2, <1>3, <1>10, <1>6 DEF MayPut
<1>12. WellPut(Int, new, T3)
  BY <1>11, MayPutKeeps
<1> HIDE DEF T3
<1>13. Good(new)
  BY <1>5, <1>12, WellPutIsGood
<1>14. QED
  BY <1>1, <1>13

LEMMA PinRequestIsGood ==
  ASSUME NEW pin \in 0..MaxText, NEW by_uim \in BOOLEAN
  PROVE  Good(EnterSimPin(by_uim, pin))
<1>1. pin \in Nat /\ pin <= 60
  BY DEF MaxText
<1>2. \h01 \in Codes /\ \h02 \in Codes
  BY DEF Codes
<1>3. Good(DmsUIMVerifyPinReqSend(pin))
  <2>1. 2 + pin \in Nat /\ 2 + pin <= 240 /\ 9 + pin = 7 + (2 + pin) /\ pin \in Int
    BY <1>1
  <2>2. Good(OneField(\h01, 2 + pin, pin, 9 + pin))
    BY <1>2, <2>1, OneFieldIsGood
  <2>3. QMIDMS_UIM_VERIFY_PIN_REQ_MSG + (pin - 1) = 9 + pin
    BY <1>1, Sizes DEF RequestSize, QMIDMS_UIM_VERIFY_PIN_REQ_MSG
  <2>4. QED
    BY <2>2, <2>3 DEF DmsUIMVerifyPinReqSend
<1>4. Good(UimVerifyPinReqSend(pin))
  <2> DEFINE session == Put(NoFields, \h01, 2, 0)
             len == 2 + pin
             new == Put(session, \h02, len, pin)
             none == {}
             T1 == none \cup {\h01}
             T2 == T1 \cup {\h02}
  <2>1. new = UimVerifyPinReqSend(pin)
    BY <1>1, Sizes DEF UimVerifyPinReqSend, Struct, Put, NoFields, RequestSize,
       QMIUIM_VERIFY_PIN_REQ_MSG
  <2>2. \h01 \notin none /\ \h02 \notin T1 /\ len \in Nat
    BY <1>1
  <2>3. WellPut(Int, NoFields, none) /\ NoFields.end = 4
    BY EmptyIsWellPut
  <2>4. new.end <= 247
    BY <1>1, <2>3, Sizes DEF Put
  <2>5. session = Put(NoFields, \h01, 2, 0) /\ new = Put(session, \h02, len, pin)
    OBVIOUS
  <2> HIDE DEF session, new, none, len
  <2>6. MayPut(Int, NoFields, none, \h01, 2, {0}, session)
    BY <1>2, <2>2, <2>3, <2>5 DEF MayPut
  <2>7. WellPut(Int, session, T1)
    BY <2>6, MayPutKeeps
  <2> HIDE DEF T1
  <2>8. MayPut(Int, session, T1, \h02, len, {pin}, new)
    BY <1>1, <1>2, <2>2, <2>7, <2>5 DEF MayPut
  <2>9. WellPut(Int, new, T2)
    BY <2>8, MayPutKeeps
  <2> HIDE DEF T2
  <2>10. Good(new)
    BY <2>4, <2>9, WellPutIsGood
  <2>11. QED
    BY <2>1, <2>10
<1>5. EnterSimPin(by_uim, pin) \in {DmsUIMVerifyPinReqSend(pin), UimVerifyPinReqSend(pin)}
  BY Zenon DEF EnterSimPin
<1>6. QED
  BY <1>3, <1>4, <1>5

(* What GetProfile takes from a field of text is the text, given or not.                  *)
LEMMA TextIsRead ==
  ASSUME NEW T, NEW msg, WellPut(Int, msg, T), NEW type \in Codes, NEW text,
         Says(msg, type) = Texts(text)
  PROVE  TextOf(msg, type) = text
<1>1. /\ Says(msg, type) = {} => GetTLV(msg, type) = NotFound
      /\ \A v : Says(msg, type) = {v} =>
                  Found(GetTLV(msg, type)) /\ GetTLV(msg, type).value = v
  BY GetTLVFinds
<1>2. CASE text = Null
  <2>1. GetTLV(msg, type) = NotFound
    BY <1>1, <1>2 DEF Texts
  <2>2. ~Found(GetTLV(msg, type))
    BY <2>1 DEF Found
  <2>3. QED
    BY <2>2, <1>2, Zenon DEF TextOf
<1>3. CASE text # Null
  <2>1. Found(GetTLV(msg, type)) /\ GetTLV(msg, type).value = text
    BY <1>1, <1>3 DEF Texts
  <2>2. QED
    BY <2>1, Zenon DEF TextOf
<1>4. QED
  BY <1>2, <1>3

LEMMA ProfileIsRead ==
  ASSUME NEW profile \in Profile, NEW new, new = WdsModifyProfileSettingsReq(profile)
  PROVE  /\ GetProfile(new).apn = profile.apn
         /\ GetProfile(new).user = profile.user
         /\ GetProfile(new).password = profile.password
<1>1. PICK T : WellPut(Int, new, T)
  BY ModifyIsWellPut
<1>2. /\ Says(new, \h14) = Texts(profile.apn)
      /\ Says(new, \h1B) = Texts(profile.user)
      /\ Says(new, \h1C) = Texts(profile.password)
  BY ModifyIsWellPut
<1>3. \h14 \in Codes /\ \h1B \in Codes /\ \h1C \in Codes
  BY DEF Codes
<1>4. TextOf(new, \h14) = profile.apn
  BY <1>1, <1>2, <1>3, TextIsRead
<1>5. TextOf(new, \h1B) = profile.user
  BY <1>1, <1>2, <1>3, TextIsRead
<1>6. TextOf(new, \h1C) = profile.password
  BY <1>1, <1>2, <1>3, TextIsRead
<1>7. QED
  BY <1>4, <1>5, <1>6 DEF GetProfile

(* What is stored of a profile: the request, or nothing for the first profile.            *)
LEMMA StoredIsGood ==
  ASSUME NEW profile \in Profile, Short(profile), NEW stored, stored = SetProfile(profile)
  PROVE  /\ Good(stored)
         /\ stored # Nothing =>
              /\ GetProfile(stored).apn = profile.apn
              /\ GetProfile(stored).user = profile.user
              /\ GetProfile(stored).password = profile.password
<1>1. CASE stored = Nothing
  <2>1. WellPut(Int, NoFields, {}) /\ NoFields.end = 4
    BY EmptyIsWellPut
  <2>2. NoFields.end <= 247
    BY <2>1
  <2>3. Good(NoFields)
    BY <2>1, <2>2, WellPutIsGood
  <2>4. QED
    BY <1>1, <2>3 DEF Nothing
<1>2. CASE stored # Nothing
  <2>1. stored = WdsModifyProfileSettingsReq(profile)
    BY <1>2, Zenon DEF SetProfile
  <2>2. PICK T : WellPut(Int, stored, T)
    BY <2>1, ModifyIsWellPut
  <2>3. stored.end <= 247
    BY <2>1, ModifyIsWellPut
  <2>4. Good(stored)
    BY <2>2, <2>3, WellPutIsGood
  <2>5. QED
    BY <2>1, <2>4, ProfileIsRead
<1>3. QED
  BY <1>1, <1>2

LEMMA RequestsOfCase ==
  ASSUME CaseIsKnown
  PROVE  RequestsAreWellFormed
<1>1. ASSUME case.subject = "request"
      PROVE  LET stored == SetProfile(case.profile) IN
             /\ Good(WdsStartNwInterfaceReq(case.profile, case.cdma))
             /\ Good(WdsGetProfileSettingsReqSend(case.profile))
             /\ Good(stored)
             /\ stored # Nothing =>
                  /\ GetProfile(stored).apn = case.profile.apn
                  /\ GetProfile(stored).user = case.profile.user
                  /\ GetProfile(stored).password = case.profile.password
             /\ Good(WdsSetClientIPFamilyPref(case.profile.curIpFamily))
             /\ \A n \in {0, 1} : /\ Good(WdsStopNwInterfaceReq(n))
                                  /\ Good(WdsSetAutoConnect(n))
                                  /\ Good(SetOperatingMode(n)) /\ Good(WdaSetDataFormat(n))
                                  /\ Good(WdsGetRuntimeSettingReq(n))
  <2> DEFINE profile == case.profile
             is_cdma == case.cdma
             stored == SetProfile(profile)
  <2>1. case \in RequestCases
    BY <1>1, CaseHasSubject
  <2>2. profile \in Profiles /\ is_cdma \in BOOLEAN
    BY <2>1 DEF RequestCases
  <2>3. profile \in Profile /\ Short(profile)
    <3> HIDE DEF profile
    <3>1. QED
      BY <2>2, ProfilesAssumption, Zenon DEF Short, ProfilesAssumption
  <2>4. profile.curIpFamily \in Int
    BY <2>3 DEF Profile
  <2> HIDE DEF profile, is_cdma
  <2>5. PICK T : /\ WellPut(Int, WdsStartNwInterfaceReq(profile, is_cdma), T)
                 /\ Short(profile) => WdsStartNwInterfaceReq(profile, is_cdma).end <= 247
    BY <2>2, <2>3, StartIsWellPut, Zenon
  <2>6. Good(WdsStartNwInterfaceReq(profile, is_cdma))
    <3> DEFINE start == WdsStartNwInterfaceReq(profile, is_cdma)
    <3>1. WellPut(Int, start, T) /\ start.end <= 247
      BY <2>3, <2>5, Zenon
    <3> HIDE DEF start
    <3>2. Good(start)
      BY <3>1, WellPutIsGood
    <3>3. QED
      BY <3>2, Zenon DEF start
  <2>7. Good(WdsGetProfileSettingsReqSend(profile))
    BY <2>3, ProfileRequestIsGood
  <2>8. /\ Good(stored)
        /\ stored # Nothing =>
             /\ GetProfile(stored).apn = profile.apn
             /\ GetProfile(stored).user = profile.user
             /\ GetProfile(stored).password = profile.password
    BY <2>3, StoredIsGood, Zenon
  <2>9. Good(WdsSetClientIPFamilyPref(profile.curIpFamily))
    BY <2>4, StructsAreGood
  <2>10. \A n \in {0, 1} : /\ Good(WdsStopNwInterfaceReq(n))
                           /\ Good(WdsSetAutoConnect(n))
                           /\ Good(SetOperatingMode(n)) /\ Good(WdaSetDataFormat(n))
                           /\ Good(WdsGetRuntimeSettingReq(n))
    <3>1. \A n \in {0, 1} : n \in Int
      OBVIOUS
    <3>2. QED
      BY <3>1, StructsAreGood, DataFormatIsGood
  <2>11. QED
    BY <2>6, <2>7, <2>8, <2>9, <2>10, Zenon DEF profile, is_cdma
<1>2. ASSUME case.subject = "pin" PROVE Good(EnterSimPin(case.by_uim, case.pin))
  <2>1. case \in PinCases
    BY <1>2, CaseHasSubject
  <2>2. case.pin \in PinLengths /\ case.by_uim \in BOOLEAN
    BY <2>1 DEF PinCases
  <2>3. PinLengths \subseteq 0..MaxText
    BY PinsAssumption DEF PinsAssumption
  <2>4. case.pin \in 0..MaxText
    BY <2>2, <2>3
  <2>5. QED
    BY <2>2, <2>4, PinRequestIsGood, Zenon
<1>3. QED
  BY <1>1, <1>2, Zenon DEF RequestsAreWellFormed

(* Every request of every profile and PIN of the code's sizes is read as it was written,  *)
(* sent whole, and the account of a profile comes back as it was stored.                  *)
THEOREM RequestsAreSound == Spec => []RequestsAreWellFormed
<1>1. CaseIsKnown => RequestsAreWellFormed
  BY RequestsOfCase
<1>2. QED
  BY <1>1, CaseStays, PTL

-------------------------------------------------------------------------------
(* An answer of one field holds what was put in it.                                      *)
LEMMA PutIsFound ==
  ASSUME NEW type \in Codes, NEW len \in Nat, NEW value, NEW msg,
         msg = Put(NoFields, type, len, value)
  PROVE  Found(GetTLV(msg, type)) /\ GetTLV(msg, type).value = value
<1> DEFINE V == {value}
           none == {}
           T == none \cup {type}
<1>1. value \in V /\ type \notin none
  OBVIOUS
<1>2. WellPut(V, NoFields, none)
  BY EmptyIsWellPut
<1> HIDE DEF V, none
<1>3. MayPut(V, NoFields, none, type, len, {value}, msg)
  BY <1>1, <1>2 DEF MayPut
<1>4. WellPut(V, msg, T)
  BY <1>3, MayPutKeeps
<1>5. Says(msg, type) = {value}
  BY <1>3, MayPutSays
<1> HIDE DEF T
<1>6. \A v : Says(msg, type) = {v} => Found(GetTLV(msg, type)) /\ GetTLV(msg, type).value = v
  BY <1>4, GetTLVFinds
<1>7. QED
  BY <1>5, <1>6

(* The state of the SIM, by the card's status and by the modem's: of a PIN that is the     *)
(* card's or that stands for it, both ways tell what OfPin does.                          *)
LEMMA ByCardStatus ==
  ASSUME NEW pin1, NEW upin, NEW univ \in BOOLEAN
  PROVE  FromCardStatus(CardMessage(pin1, upin, univ)) = OfPin(IF univ THEN upin ELSE pin1)
<1> DEFINE card == [state |-> 1, univ |-> univ, pin1 |-> pin1, upin |-> upin]
           msg == Put(NoFields, \h10, 20, card)
<1>1. \h10 \in Codes /\ 20 \in Nat
  BY DEF Codes
<1>2. card.state = 1 /\ PinOf(card) = IF univ THEN upin ELSE pin1
  BY DEF PinOf
<1>3. msg = CardMessage(pin1, upin, univ)
  BY Zenon DEF CardMessage
<1> HIDE DEF card
<1>4. Found(GetTLV(msg, \h10)) /\ GetTLV(msg, \h10).value = card
  BY <1>1, PutIsFound
<1> HIDE DEF msg
<1>5. FromCardStatus(msg) = OfPin(PinOf(card))
  BY <1>2, <1>4, Zenon DEF FromCardStatus
<1>6. QED
  BY <1>2, <1>3, <1>5, Zenon

LEMMA PinIsFound ==
  ASSUME NEW pin
  PROVE  /\ PinMessage(pin).how = "ok"
         /\ Found(GetTLV(PinMessage(pin).msg, \h11))
         /\ GetTLV(PinMessage(pin).msg, \h11).value = pin
<1> DEFINE msg == Put(NoFields, \h11, 3, pin)
<1>1. \h11 \in Codes /\ 3 \in Nat
  BY DEF Codes
<1>2. Found(GetTLV(msg, \h11)) /\ GetTLV(msg, \h11).value = pin
  BY <1>1, PutIsFound
<1>3. PinMessage(pin).how = "ok" /\ PinMessage(pin).msg = msg
  BY DEF PinMessage, Response
<1> HIDE DEF msg
<1>4. QED
  BY <1>2, <1>3

LEMMA UimStates ==
  ASSUME NEW response
  PROVE  /\ FromUimState(0, response) = "SIM_READY"
         /\ FromUimState(1, response) = GetPINStatus("SIM_ABSENT", response)
<1>1. 1 # 0
  OBVIOUS
<1>2. FromUimState(0, response) = "SIM_READY"
  BY SMT DEF FromUimState
<1>3. FromUimState(1, response) = GetPINStatus("SIM_ABSENT", response)
  BY <1>1, Zenon DEF FromUimState
<1>4. QED
  BY <1>2, <1>3

LEMMA ByUimState ==
  ASSUME NEW pin \in {"not verified", "verified", "disabled", "blocked", "blocked for ever"}
  PROVE  FromUimState(IF Usable(pin) THEN 0 ELSE 1, PinMessage(pin)) = OfPin(pin)
<1> DEFINE response == PinMessage(pin)
<1>1. /\ FromUimState(0, response) = "SIM_READY"
      /\ FromUimState(1, response) = GetPINStatus("SIM_ABSENT", response)
  BY UimStates, Zenon
<1>2. /\ response.how = "ok"
      /\ Found(GetTLV(response.msg, \h11)) /\ GetTLV(response.msg, \h11).value = pin
  BY PinIsFound, Zenon
<1> HIDE DEF response
<1>5. GetPINStatus("SIM_ABSENT", response) =
        IF pin \in {"not verified", "blocked", "blocked for ever"} THEN OfPin(pin)
        ELSE "SIM_ABSENT"
  BY <1>2, Zenon DEF GetPINStatus
<1>6. CASE Usable(pin)
  <2>1. OfPin(pin) = "SIM_READY"
    BY <1>6 DEF OfPin, Usable
  <2>2. QED
    BY <1>1, <1>6, <2>1, Zenon DEF response
<1>7. CASE ~Usable(pin)
  <2>1. pin \in {"not verified", "blocked", "blocked for ever"}
    BY <1>7 DEF Usable
  <2>2. FromUimState(1, response) = OfPin(pin)
    BY <1>1, <1>5, <2>1, Zenon
  <2>3. QED
    BY <1>7, <2>2, Zenon DEF response
<1>8. QED
  BY <1>6, <1>7

LEMMA SimOfCase ==
  ASSUME CaseIsKnown
  PROVE  SimWaysAgree
<1> SUFFICES ASSUME case.subject = "sim"
             PROVE  FromCardStatus(IF case.univ
                                   THEN CardMessage(case.other, case.pin, TRUE)
                                   ELSE CardMessage(case.pin, case.other, FALSE))
                    = FromUimState(IF Usable(case.pin) THEN 0 ELSE 1, PinMessage(case.pin))
  BY Zenon DEF SimWaysAgree
<1> DEFINE pin == case.pin
           other == case.other
           univ == case.univ
<1>1. case \in SimCases
  BY CaseHasSubject
<1>2. /\ pin \in {"not verified", "verified", "disabled", "blocked", "blocked for ever"}
      /\ univ \in BOOLEAN
  BY <1>1 DEF SimCases, Pins
<1> HIDE DEF pin, other, univ
<1>3. FromUimState(IF Usable(pin) THEN 0 ELSE 1, PinMessage(pin)) = OfPin(pin)
  BY <1>2, ByUimState
<1>4. FromCardStatus(CardMessage(other, pin, TRUE)) = OfPin(pin)
  BY ByCardStatus, ZenonT(40)
<1>5. FromCardStatus(CardMessage(pin, other, FALSE)) = OfPin(pin)
  BY ByCardStatus, Zenon
<1>6. QED
  BY <1>2, <1>3, <1>4, <1>5, Zenon DEF pin, other, univ

(* requestSIMStatus finds the same state of the SIM through either service of the modem.   *)
THEOREM SimWaysAgreeAlways == Spec => []SimWaysAgree
<1>1. CaseIsKnown => SimWaysAgree
  BY SimOfCase
<1>2. QED
  BY <1>1, CaseStays, PTL

-------------------------------------------------------------------------------
(* The packed codes of a CDMA modem.                                                     *)

(* A step of the conversion takes the last packed digit off and yields it.              *)
LEMMA RestDropsADigit ==
  ASSUME NEW n \in Nat, NEW d \in 0..9
  PROVE  /\ Digit(10 * n + Packed(d) + 1) = d
         /\ Rest(10 * n + Packed(d) + 1) = n
BY DEF Digit, Rest, Packed

(* A country code is stored as the number with its digits.                             *)
THEOREM CountryIsDecoded ==
  ASSUME NEW d1 \in 0..9, NEW d2 \in 0..9, NEW d3 \in 0..9
  PROVE  ConvertMcc(100 * Packed(d1) + 10 * Packed(d2) + Packed(d3))
           = 100 * d1 + 10 * d2 + d3
<1> DEFINE mcc == 100 * Packed(d1) + 10 * Packed(d2) + Packed(d3)
           n1 == Packed(d1) + 1
           n2 == 10 * n1 + Packed(d2) + 1
<1>1. /\ Packed(d1) \in 0..9 /\ Packed(d2) \in 0..9 /\ Packed(d3) \in 0..9
      /\ n1 \in Nat /\ n2 \in Nat
  BY DEF Packed
<1>2. mcc # 1023 /\ mcc + 111 = 10 * n2 + Packed(d3) + 1
  BY <1>1
<1>3. Digit(mcc + 111) = d3 /\ Rest(mcc + 111) = n2
  BY <1>1, <1>2, RestDropsADigit
<1>4. Digit(n2) = d2 /\ Rest(n2) = n1
  BY <1>1, RestDropsADigit
<1>5. (IF n1 = 10 THEN 0 ELSE n1) = d1 /\ d1 < 10
  BY DEF Packed
<1> HIDE DEF mcc, n1, n2
<1>6. ConvertMcc(mcc) = 100 * d1 + 10 * d2 + d3
  BY <1>2, <1>3, <1>4, <1>5, ZenonT(40) DEF ConvertMcc
<1>7. QED
  BY <1>6 DEF mcc

LEMMA NetworkIsDecoded ==
  ASSUME NEW d1 \in 0..9, NEW d2 \in 0..9
  PROVE  ConvertMnc(10 * Packed(d1) + Packed(d2)) = 10 * d1 + d2
<1> DEFINE mnc == 10 * Packed(d1) + Packed(d2)
           n1 == Packed(d1) + 1
<1>1. Packed(d1) \in 0..9 /\ Packed(d2) \in 0..9 /\ n1 \in Nat
  BY DEF Packed
<1>2. mnc # 127 /\ mnc + 11 = 10 * n1 + Packed(d2) + 1
  BY <1>1
<1>3. Digit(mnc + 11) = d2 /\ Rest(mnc + 11) = n1
  BY <1>1, <1>2, RestDropsADigit
<1>4. (IF n1 = 10 THEN 0 ELSE n1) = d1 /\ d1 < 10
  BY DEF Packed
<1> HIDE DEF mnc, n1
<1>5. ConvertMnc(mnc) = 10 * d1 + d2
  BY <1>2, <1>3, <1>4, Zenon DEF ConvertMnc
<1>6. QED
  BY <1>5 DEF mnc

(* An answer that holds the codes yields them, unless the country is 0.                    *)
LEMMA HomeIsRead ==
  ASSUME NEW serving, NEW mcc, NEW mnc
  PROVE  HomeNetwork(serving, HomeMessage(mcc, mnc)) =
           IF mcc # 0 THEN [mcc |-> ConvertMcc(mcc), mnc |-> ConvertMnc(mnc)] ELSE serving
<1> DEFINE codes == [mcc |-> mcc, mnc |-> mnc]
           msg == Put(NoFields, \h01, 6, codes)
           response == Response(msg)
<1>1. \h01 \in Codes /\ 6 \in Nat
  BY DEF Codes
<1>2. codes.mcc = mcc /\ codes.mnc = mnc
  OBVIOUS
<1>3. response = HomeMessage(mcc, mnc) /\ response.how = "ok" /\ response.msg = msg
  BY DEF HomeMessage, Response
<1> HIDE DEF codes
<1>4. Found(GetTLV(msg, \h01)) /\ GetTLV(msg, \h01).value = codes
  BY <1>1, PutIsFound
<1> HIDE DEF msg, response
<1>5. GetHomeNetwork(response) = codes
  BY <1>3, <1>4, Zenon DEF GetHomeNetwork
<1>6. QED
  BY <1>2, <1>3, <1>5, Zenon DEF HomeNetwork

LEMMA CodesOfCase ==
  ASSUME CaseIsKnown
  PROVE  CdmaCodesAreDecoded
<1> DEFINE d == case.digits
           country == 100 * Packed(d[1]) + 10 * Packed(d[2]) + Packed(d[3])
           network == 10 * Packed(d[1]) + Packed(d[2])
<1>1. ASSUME case.subject \in {"mcc", "mnc"}
      PROVE  d[1] \in 0..9 /\ d[2] \in 0..9 /\ (case.subject = "mcc" => d[3] \in 0..9)
  <2>1. case \in CdmaCases
    BY <1>1, CaseHasSubject
  <2>2. QED
    BY <1>1, <2>1 DEF CdmaCases
<1>2. ASSUME case.subject = "mcc"
      PROVE  HomeNetwork(Serving, HomeMessage(country, 0)).mcc =
               IF country = 0 THEN Serving.mcc ELSE 100 * d[1] + 10 * d[2] + d[3]
  <2>1. d[1] \in 0..9 /\ d[2] \in 0..9 /\ d[3] \in 0..9
    BY <1>1, <1>2
  <2> HIDE DEF d
  <2>2. ConvertMcc(country) = 100 * d[1] + 10 * d[2] + d[3]
    BY <2>1, CountryIsDecoded
  <2> HIDE DEF country
  <2>3. HomeNetwork(Serving, HomeMessage(country, 0)) =
          IF country # 0 THEN [mcc |-> ConvertMcc(country), mnc |-> ConvertMnc(0)]
          ELSE Serving
    BY HomeIsRead
  <2>4. QED
    BY <2>2, <2>3
<1>3. ASSUME case.subject = "mnc"
      PROVE  HomeNetwork(Serving, HomeMessage(1, network)).mnc = 10 * d[1] + d[2]
  <2>1. d[1] \in 0..9 /\ d[2] \in 0..9
    BY <1>1, <1>3
  <2> HIDE DEF d
  <2>2. ConvertMnc(network) = 10 * d[1] + d[2]
    BY <2>1, NetworkIsDecoded
  <2> HIDE DEF network
  <2>3. HomeNetwork(Serving, HomeMessage(1, network)) =
          IF 1 # 0 THEN [mcc |-> ConvertMcc(1), mnc |-> ConvertMnc(network)] ELSE Serving
    BY HomeIsRead
  <2>4. QED
    BY <2>2, <2>3
<1>4. QED
  BY <1>2, <1>3, Zenon DEF CdmaCodesAreDecoded

(* requestGetHomeNetwork's codes are those the modem packed, but for the country 111, and  *)
(* every network's is.                                                                    *)
THEOREM CodesAreDecoded == Spec => []CdmaCodesAreDecoded
<1>1. CaseIsKnown => CdmaCodesAreDecoded
  BY CodesOfCase
<1>2. QED
  BY <1>1, CaseStays, PTL

-------------------------------------------------------------------------------
(* The addresses of a data call.                                                        *)
Answerable == {\h1E, \h20, \h15, \h25, \h26, MtuType}

(* What the answer that names some of them says of a type.                               *)
Named(types, t) == IF t \in types THEN {ValueOf(t)} ELSE {}

LEMMA AddressesAreSaid ==
  ASSUME NEW types \in SUBSET Answerable, NEW new, new = AddressMessage(types)
  PROVE  /\ \E T : WellPut(Int, new, T)
         /\ \A t : Says(new, t) = Named(types, t)
<1> DEFINE none == {}
           mtu == PutIf(\h29 \in types, NoFields, \h29, 4, ValueOf(\h29))
           gateway6 == PutIf(\h26 \in types, mtu, \h26, 4, ValueOf(\h26))
           address == PutIf(\h1E \in types, gateway6, \h1E, 4, ValueOf(\h1E))
           dns == PutIf(\h15 \in types, address, \h15, 4, ValueOf(\h15))
           address6 == PutIf(\h25 \in types, dns, \h25, 4, ValueOf(\h25))
           gateway == PutIf(\h20 \in types, address6, \h20, 4, ValueOf(\h20))
           T1 == none \cup {\h29}
           T2 == T1 \cup {\h26}
           T3 == T2 \cup {\h1E}
           T4 == T3 \cup {\h15}
           T5 == T4 \cup {\h25}
           T6 == T5 \cup {\h20}
<1>1. \h29 \in Codes /\ \h26 \in Codes /\ \h1E \in Codes /\ \h15 \in Codes /\ \h25 \in Codes /\ \h20 \in Codes
  BY DEF Codes
<1>2. /\ ValueOf(\h29) \in Int
      /\ ValueOf(\h26) \in Int
      /\ ValueOf(\h1E) \in Int
      /\ ValueOf(\h15) \in Int
      /\ ValueOf(\h25) \in Int
      /\ ValueOf(\h20) \in Int
  BY DEF ValueOf
<1>3. /\ \h29 \notin none
      /\ \h26 \notin T1
      /\ \h1E \notin T2
      /\ \h15 \notin T3
      /\ \h25 \notin T4
      /\ \h20 \notin T5
  OBVIOUS
<1>4. \/ Named(types, \h29) = {ValueOf(\h29)} /\ mtu = Put(NoFields, \h29, 4, ValueOf(\h29))
      \/ Named(types, \h29) = {} /\ mtu = NoFields
  BY Zenon DEF PutIf, Named
<1>5. \/ Named(types, \h26) = {ValueOf(\h26)} /\ gateway6 = Put(mtu, \h26, 4, ValueOf(\h26))
      \/ Named(types, \h26) = {} /\ gateway6 = mtu
  BY Zenon DEF PutIf, Named
<1>6. \/ Named(types, \h1E) = {ValueOf(\h1E)} /\ address = Put(gateway6, \h1E, 4, ValueOf(\h1E))
      \/ Named(types, \h1E) = {} /\ address = gateway6
  BY Zenon DEF PutIf, Named
<1>7. \/ Named(types, \h15) = {ValueOf(\h15)} /\ dns = Put(address, \h15, 4, ValueOf(\h15))
      \/ Named(types, \h15) = {} /\ dns = address
  BY Zenon DEF PutIf, Named
<1>8. \/ Named(types, \h25) = {ValueOf(\h25)} /\ address6 = Put(dns, \h25, 4, ValueOf(\h25))
      \/ Named(types, \h25) = {} /\ address6 = dns
  BY Zenon DEF PutIf, Named
<1>9. \/ Named(types, \h20) = {ValueOf(\h20)} /\ gateway = Put(address6, \h20, 4, ValueOf(\h20))
      \/ Named(types, \h20) = {} /\ gateway = address6
  BY Zenon DEF PutIf, Named
<1>10. new = gateway
  BY Zenon DEF AddressMessage, MtuType
<1> HIDE DEF none, mtu, gateway6, address, dns, address6, gateway
<1>11. WellPut(Int, NoFields, none) /\ 4 \in Nat
  BY EmptyIsWellPut DEF none
<1>12. \A t : Says(NoFields, t) = {}
  BY EmptyIsWellPut
<1>13. MayPut(Int, NoFields, none, \h29, 4, Named(types, \h29), mtu)
  BY <1>1, <1>2, <1>3, <1>4, <1>11, <1>11 DEF MayPut
<1>14. WellPut(Int, mtu, T1)
  BY <1>13, MayPutKeeps
<1>15. \A t : Says(mtu, t) = IF t = \h29 THEN Named(types, \h29) ELSE Says(NoFields, t)
  BY <1>13, MayPutSays
<1> HIDE DEF T1
<1>16. MayPut(Int, mtu, T1, \h26, 4, Named(types, \h26), gateway6)
  BY <1>1, <1>2, <1>3, <1>5, <1>11, <1>14 DEF MayPut
<1>17. WellPut(Int, gateway6, T2)
  BY <1>16, MayPutKeeps
<1>18. \A t : Says(gateway6, t) = IF t = \h26 THEN Named(types, \h26) ELSE Says(mtu, t)
  BY <1>16, MayPutSays
<1> HIDE DEF T2
<1>19. MayPut(Int, gateway6, T2, \h1E, 4, Named(types, \h1E), address)
  BY <1>1, <1>2, <1>3, <1>6, <1>11, <1>17 DEF MayPut
<1>20. WellPut(Int, address, T3)
  BY <1>19, MayPutKeeps
<1>21. \A t : Says(address, t) = IF t = \h1E THEN Named(types, \h1E) ELSE Says(gateway6, t)
  BY <1>19, MayPutSays
<1> HIDE DEF T3
<1>22. MayPut(Int, address, T3, \h15, 4, Named(types, \h15), dns)
  BY <1>1, <1>2, <1>3, <1>7, <1>11, <1>20 DEF MayPut
<1>23. WellPut(Int, dns, T4)
  BY <1>22, MayPutKeeps
<1>24. \A t : Says(dns, t) = IF t = \h15 THEN Named(types, \h15) ELSE Says(address, t)
  BY <1>22, MayPutSays
<1> HIDE DEF T4
<1>25. MayPut(Int, dns, T4, \h25, 4, Named(types, \h25), address6)
  BY <1>1, <1>2, <1>3, <1>8, <1>11, <1>23 DEF MayPut
<1>26. WellPut(Int, address6, T5)
  BY <1>25, MayPutKeeps
<1>27. \A t : Says(address6, t) = IF t = \h25 THEN Named(types, \h25) ELSE Says(dns, t)
  BY <1>25, MayPutSays
<1> HIDE DEF T5
<1>28. MayPut(Int, address6, T5, \h20, 4, Named(types, \h20), gateway)
  BY <1>1, <1>2, <1>3, <1>9, <1>11, <1>26 DEF MayPut
<1>29. WellPut(Int, gateway, T6)
  BY <1>28, MayPutKeeps
<1>30. \A t : Says(gateway, t) = IF t = \h20 THEN Named(types, \h20) ELSE Says(address6, t)
  BY <1>28, MayPutSays
<1> HIDE DEF T6
<1>31. \A t : Says(gateway, t) = IF t \in Answerable THEN Named(types, t) ELSE {}
  BY <1>12, <1>15, <1>18, <1>21, <1>24, <1>27, <1>30 DEF Answerable, MtuType
<1>32. \A t : t \notin Answerable => Named(types, t) = {}
  BY DEF Named
<1>33. QED
  BY <1>10, <1>29, <1>31, <1>32

LEMMA AddressIsFound ==
  ASSUME NEW types \in SUBSET Answerable, NEW new, new = AddressMessage(types),
         NEW t \in Codes
  PROVE  /\ Found(GetTLV(new, t)) <=> t \in types
         /\ t \in types => GetTLV(new, t).value = ValueOf(t)
<1>1. PICK T : WellPut(Int, new, T)
  BY AddressesAreSaid
<1>2. Says(new, t) = Named(types, t)
  BY AddressesAreSaid
<1>3. /\ Says(new, t) = {} => GetTLV(new, t) = NotFound
      /\ \A v : Says(new, t) = {v} => Found(GetTLV(new, t)) /\ GetTLV(new, t).value = v
  BY <1>1, GetTLVFinds
<1>4. CASE t \in types
  BY <1>2, <1>3, <1>4 DEF Named
<1>5. CASE t \notin types
  <2>1. GetTLV(new, t) = NotFound
    BY <1>2, <1>3, <1>5 DEF Named
  <2>2. QED
    BY <1>5, <2>1 DEF Found
<1>6. QED
  BY <1>4, <1>5

(* Each type is stored in a place of its own, not that of the MTU.                        *)
LEMMA StoredApart ==
  /\ DOMAIN Stored \subseteq Codes /\ MtuType \in Codes
  /\ Answerable \ {MtuType} \subseteq DOMAIN Stored
  /\ \A t \in DOMAIN Stored :
       /\ Stored[t] \in {V4, V6} \X Settings /\ Stored[t][2] # "Mtu"
       /\ \A u \in DOMAIN Stored : Stored[t] = Stored[u] => t = u
<1>1. DOMAIN Stored = {\h15, \h16, \h20, \h21, \h1E, \h27, \h28, \h26, \h25}
  BY DEF Stored
<1>2. /\ Stored[\h15] = <<V4, "DnsPrimary">>
      /\ Stored[\h16] = <<V4, "DnsSecondary">>
      /\ Stored[\h20] = <<V4, "Gateway">>
      /\ Stored[\h21] = <<V4, "SubnetMask">>
      /\ Stored[\h1E] = <<V4, "Address">>
      /\ Stored[\h27] = <<V6, "DnsPrimary">>
      /\ Stored[\h28] = <<V6, "DnsSecondary">>
      /\ Stored[\h26] = <<V6, "Gateway">>
      /\ Stored[\h25] = <<V6, "Address">>
  BY DEF Stored
<1>3. DOMAIN Stored \subseteq Codes /\ MtuType \in Codes
  BY <1>1 DEF Codes, MtuType
<1>4. Answerable \ {MtuType} \subseteq DOMAIN Stored
  BY <1>1 DEF MtuType, Answerable
<1>5. \A t \in DOMAIN Stored : Stored[t] \in {V4, V6} \X Settings /\ Stored[t][2] # "Mtu"
  <2>1. \A t \in DOMAIN Stored : Stored[t] \in {V4, V6} \X Settings
    <3> DEFINE places == {V4, V6} \X Settings
    <3>1. /\ <<V4, "DnsPrimary">> \in places /\ <<V4, "DnsSecondary">> \in places
          /\ <<V4, "Gateway">> \in places /\ <<V4, "SubnetMask">> \in places
          /\ <<V4, "Address">> \in places
      BY DEF Settings
    <3>2. /\ <<V6, "DnsPrimary">> \in places /\ <<V6, "DnsSecondary">> \in places
          /\ <<V6, "Gateway">> \in places /\ <<V6, "Address">> \in places
      BY DEF Settings
    <3> HIDE DEF places
    <3>3. \A t \in DOMAIN Stored : Stored[t] \in places
      BY <1>1, <1>2, <3>1, <3>2
    <3>4. QED
      BY <3>3 DEF places
  <2>2. \A t \in DOMAIN Stored : Stored[t][2] # "Mtu"
    BY <1>1, <1>2
  <2>3. QED
    BY <2>1, <2>2
<1>6. \A t, u \in DOMAIN Stored : Stored[t] = Stored[u] => t = u
  BY <1>1, <1>2 DEF V4, V6
<1>7. QED
  BY <1>3, <1>4, <1>5, <1>6

(* What is stored at a place: what the answer names there, or what was there.             *)
Kinds(at) ==
  IF at[2] = "Mtu" THEN {MtuType} ELSE {t \in DOMAIN Stored : Stored[t] = at}

LEMMA StoreAt ==
  ASSUME NEW ip, NEW msg, NEW at \in DOMAIN ip
  PROVE  \/ /\ \A t \in Kinds(at) : ~Found(GetTLV(msg, t))
            /\ Store(ip, msg)[at] = ip[at]
         \/ \E t \in Kinds(at) : /\ Found(GetTLV(msg, t))
                                 /\ Store(ip, msg)[at] = GetTLV(msg, t).value
<1> DEFINE found == {t \in Kinds(at) : Found(GetTLV(msg, t))}
           first == CHOOSE t \in found : TRUE
<1>1. Store(ip, msg)[at] = IF found = {} THEN ip[at] ELSE GetTLV(msg, first).value
  BY DEF Store, Kinds
<1>2. found # {} => first \in found
  OBVIOUS
<1> HIDE DEF first
<1>3. CASE found = {}
  BY <1>1, <1>3
<1>4. CASE found # {}
  BY <1>1, <1>2, <1>4
<1>5. QED
  BY <1>3, <1>4

LEMMA AddressOfCase ==
  ASSUME CaseIsKnown
  PROVE  NoStaleAddress
<1> DEFINE types == case.types
           family == case.family
           handle == case.handle
           how == case.how
           msg == AddressMessage(types)
           response == [how |-> how, msg |-> msg]
           cleared == Clear(Old, family)
           ip == GetIPAddress(Old, family, handle, response)
           places == {V4, V6} \X Settings
<1> SUFFICES ASSUME case.subject = "address"
             PROVE  /\ \A setting \in Settings : ip[<<family, setting>>] # Stale
                    /\ (handle # 0 /\ how = "ok") =>
                         \A type \in types \ {MtuType} : ip[Stored[type]] = ValueOf(type)
  BY Zenon DEF NoStaleAddress
<1>1. case \in AddressCases
  BY CaseHasSubject
<1>2. family \in {V4, V6} /\ types \in SUBSET Answerable
  BY <1>1 DEF AddressCases, Answerable
<1>3. response.how = how /\ response.msg = msg
  OBVIOUS
<1>4. \/ (handle = 0 \/ how # "ok") /\ ip = cleared
      \/ ~(handle = 0 \/ how # "ok") /\ ip = Store(cleared, msg)
  BY <1>3, Zenon DEF GetIPAddress
<1> HIDE DEF types, family, handle, how, response, ip
<1>5. DOMAIN cleared = places
  BY DEF Clear, Old
<1>6. \A setting \in Settings : /\ <<family, setting>> \in places
                               /\ <<family, setting>>[1] = family
                               /\ <<family, setting>>[2] = setting
  BY <1>2
<1>7. \A setting \in Settings : cleared[<<family, setting>>] = 0
  BY <1>6 DEF Clear, Old
<1>8. 0 # Stale /\ \A t \in Codes : ValueOf(t) # Stale
  BY DEF Stale, ValueOf, Codes
<1>9. \A t \in Codes : /\ Found(GetTLV(msg, t)) <=> t \in types
                       /\ t \in types => GetTLV(msg, t).value = ValueOf(t)
  BY <1>2, AddressIsFound
<1> HIDE DEF cleared, msg, places
<1>10. ASSUME NEW setting \in Settings PROVE ip[<<family, setting>>] # Stale
  <2> DEFINE at == <<family, setting>>
  <2>1. at \in DOMAIN cleared /\ cleared[at] = 0
    BY <1>5, <1>6, <1>7
  <2>2. Kinds(at) \subseteq Codes
    BY StoredApart DEF Kinds
  <2> HIDE DEF at
  <2>4. \/ /\ \A t \in Kinds(at) : ~Found(GetTLV(msg, t))
           /\ Store(cleared, msg)[at] = cleared[at]
        \/ \E t \in Kinds(at) : /\ Found(GetTLV(msg, t))
                                /\ Store(cleared, msg)[at] = GetTLV(msg, t).value
    BY <2>1, StoreAt
  <2>5. Store(cleared, msg)[at] # Stale
    BY <1>8, <1>9, <2>1, <2>2, <2>4
  <2>6. ip[at] # Stale
    BY <1>4, <1>8, <2>1, <2>5, Zenon
  <2>7. QED
    BY <2>6 DEF at
<1>11. ASSUME handle # 0, how = "ok", NEW type \in types \ {MtuType}
       PROVE  ip[Stored[type]] = ValueOf(type)
  <2> DEFINE at == Stored[type]
  <2>1. type \in DOMAIN Stored
    BY <1>2, StoredApart
  <2>2. at \in DOMAIN cleared
    BY <1>5, <2>1, StoredApart DEF places
  <2>3. Kinds(at) = {type} /\ type \in Codes
    BY <2>1, StoredApart DEF Kinds
  <2> HIDE DEF at
  <2>5. \/ /\ \A t \in Kinds(at) : ~Found(GetTLV(msg, t))
           /\ Store(cleared, msg)[at] = cleared[at]
        \/ \E t \in Kinds(at) : /\ Found(GetTLV(msg, t))
                                /\ Store(cleared, msg)[at] = GetTLV(msg, t).value
    BY <2>2, StoreAt
  <2>6. Store(cleared, msg)[at] = ValueOf(type)
    BY <1>9, <2>3, <2>5
  <2>7. QED
    BY <1>4, <1>11, <2>6, Zenon DEF at
<1>12. QED
  BY <1>10, <1>11

(* However requestGetIPAddress ends and whatever the answer names, nothing of an earlier   *)
(* call is left in the family asked for, and what the answer names is stored.             *)
THEOREM NoAddressIsStale == Spec => []NoStaleAddress
<1>1. CaseIsKnown => NoStaleAddress
  BY AddressOfCase
<1>2. QED
  BY <1>1, CaseStays, PTL

-------------------------------------------------------------------------------
(* The swapped digits of a telephone number are read back, however many they are.       *)
THEOREM DigitsAreReadBack ==
  ASSUME NEW digits \in Seq(0..9)
  PROVE  Digits(Exchange(digits), Len(digits)) = digits
<1> DEFINE n == Len(digits)
           even == IF n % 2 = 1 THEN Append(digits, Filler) ELSE digits
           swapped == [i \in DOMAIN even |-> even[IF i % 2 = 1 THEN i + 1 ELSE i - 1]]
<1>1. n \in Nat /\ digits = [i \in 1..n |-> digits[i]]
  OBVIOUS
<1>2. \A i \in 1..n : i \in DOMAIN even /\ even[i] = digits[i]
  BY <1>1
<1>3. \A i \in 1..n : i % 2 = 1 => i + 1 \in DOMAIN even
  BY <1>1
<1>4. ASSUME NEW i \in 1..n
      PROVE  swapped[IF i % 2 = 1 THEN i + 1 ELSE i - 1] = digits[i]
  <2>1. CASE i % 2 = 1
    <3>1. i + 1 \in DOMAIN even
      BY <2>1, <1>3
    <3>2. i \in Int /\ (i + 1) % 2 # 1 /\ (i + 1) - 1 = i
      <4> HIDE DEF n
      <4>1. i \in Int
        BY <1>1
      <4>2. QED
        BY <4>1, <2>1
    <3>3. swapped[i + 1] = even[(i + 1) - 1]
      <4> HIDE DEF even
      <4>1. QED
        BY <3>1, <3>2
    <3>4. swapped[i + 1] = even[i]
      <4> HIDE DEF even, swapped
      <4>1. QED
        BY <3>2, <3>3
    <3>5. QED
      <4> HIDE DEF even, swapped
      <4>1. QED
        BY <2>1, <3>4, <1>2
  <2>2. CASE i % 2 # 1
    <3>1. (i - 1) % 2 = 1 /\ i - 1 \in 1..n
      BY <2>2, <1>1
    <3>2. swapped[i - 1] = even[i]
      BY <3>1, <1>2
    <3>3. QED
      BY <2>2, <3>2, <1>2
  <2>3. QED
    BY <2>1, <2>2
<1>5. Exchange(digits) = swapped
  BY DEF Exchange
<1> HIDE DEF swapped
<1>6. Digits(swapped, n) = [i \in 1..n |-> digits[i]]
  BY <1>4 DEF Digits
<1>7. QED
  BY <1>1, <1>5, <1>6

(* A text of hexadecimal digits and their number.                                         *)
Long(s, n) == s \in Seq(Nat) /\ Len(s) = n

(* As many half octets as digits, rounded up to whole octets; the last octet tells whether *)
(* there is a filler.                                                                     *)
Swaps(digits, n, h, x) ==
  /\ digits \in Seq(0..9) /\ n = Len(digits)
  /\ h = (n + 1) \div 2 /\ x = Exchange(digits)

LEMMA Swapped ==
  ASSUME NEW digits, NEW n, NEW h, NEW x, Swaps(digits, n, h, x)
  PROVE  /\ n \in Nat /\ h \in Nat /\ Long(x, 2 * h)
         /\ n > 0 => /\ h > 0
                     /\ x[2 * h - 1] = Filler => n = 2 * h - 1
                     /\ x[2 * h - 1] # Filler => n = 2 * h
<1> DEFINE even == IF n % 2 = 1 THEN Append(digits, Filler) ELSE digits
<1>0. digits \in Seq(0..9) /\ n = Len(digits) /\ h = (n + 1) \div 2 /\ x = Exchange(digits)
  BY DEF Swaps
<1>1. n \in Nat /\ \A i \in 1..n : digits[i] \in 0..9
  BY <1>0
<1>2. h \in Nat /\ (n % 2 = 1 => n + 1 = 2 * h) /\ (n % 2 # 1 => n = 2 * h)
  BY <1>0, <1>1
<1>3. /\ even \in Seq(Nat) /\ Len(even) = 2 * h
      /\ \A i \in 1..n : even[i] = digits[i]
      /\ n % 2 = 1 => even[n + 1] = Filler
  <2>1. digits \in Seq(Nat) /\ Filler \in Nat
    BY <1>0, <1>1, SeqMonotonic DEF Filler
  <2>2. CASE n % 2 = 1
    BY <2>1, <2>2, <1>0, <1>2, AppendProperties
  <2>3. CASE n % 2 # 1
    BY <2>1, <2>3, <1>0, <1>2
  <2>4. QED
    BY <2>2, <2>3
<1>4. x = [i \in DOMAIN even |-> even[IF i % 2 = 1 THEN i + 1 ELSE i - 1]]
  BY <1>0, Zenon DEF Exchange
<1> HIDE DEF even
<1>5. DOMAIN even = 1..(2 * h) /\ \A i \in 1..(2 * h) : even[i] \in Nat
  BY <1>3, <1>2
<1>6. \A i \in 1..(2 * h) : (IF i % 2 = 1 THEN i + 1 ELSE i - 1) \in 1..(2 * h)
  BY <1>2
<1>7. x \in [1..(2 * h) -> Nat]
  BY <1>4, <1>5, <1>6
<1>8. x \in Seq(Nat) /\ Len(x) = 2 * h
  BY <1>2, <1>7
<1>9. ASSUME n > 0
      PROVE  /\ h > 0
             /\ x[2 * h - 1] = Filler => n = 2 * h - 1
             /\ x[2 * h - 1] # Filler => n = 2 * h
  <2>1. h > 0 /\ 2 * h - 1 \in 1..(2 * h) /\ (2 * h - 1) % 2 = 1
    BY <1>1, <1>2, <1>9
  <2>2. x[2 * h - 1] = even[2 * h]
    <3>1. x[2 * h - 1] = even[IF (2 * h - 1) % 2 = 1 THEN (2 * h - 1) + 1 ELSE (2 * h - 1) - 1]
      BY <1>4, <1>5, <2>1
    <3>2. (2 * h - 1) + 1 = 2 * h
      BY <1>2
    <3>3. QED
      BY <2>1, <3>1, <3>2
  <2>3. CASE n % 2 = 1
    BY <2>1, <2>2, <2>3, <1>1, <1>2, <1>3, SMTT(30)
  <2>4. CASE n % 2 # 1
    <3>1. even[2 * h] = digits[n] /\ digits[n] \in 0..9
      BY <1>1, <1>2, <1>3, <1>9, <2>4
    <3>2. even[2 * h] # Filler
      BY <3>1 DEF Filler
    <3>3. QED
      BY <2>1, <2>2, <2>4, <3>2, <1>1, <1>2
  <2>5. QED
    BY <2>3, <2>4
<1>10. QED
  BY <1>1, <1>2, <1>8, <1>9 DEF Long

(* What follows is behind what comes first.                                               *)
Joins(s, m, t, n, r, k) == Long(s, m) /\ Long(t, n) /\ r = s \o t /\ k = m + n

LEMMA JoinedText ==
  ASSUME NEW s, NEW m, NEW t, NEW n, NEW r, NEW k, Joins(s, m, t, n, r, k)
  PROVE  /\ Long(r, k)
         /\ \A i \in 1..m : r[i] = s[i]
         /\ \A i \in 1..n : r[m + i] = t[i]
<1>1. /\ s \in Seq(Nat) /\ t \in Seq(Nat) /\ r = s \o t
      /\ Len(s) = m /\ Len(t) = n /\ k = m + n
  BY DEF Joins, Long
<1>2. m \in Nat /\ n \in Nat
  BY <1>1
<1>3. /\ r \in Seq(Nat) /\ Len(r) = m + n
      /\ \A i \in 1..(m + n) : r[i] = IF i <= m THEN s[i] ELSE t[i - m]
  BY <1>1, ConcatProperties
<1>4. \A i \in 1..m : r[i] = s[i]
  BY <1>2, <1>3
<1>5. ASSUME NEW i \in 1..n PROVE r[m + i] = t[i]
  <2>1. m + i \in 1..(m + n) /\ ~(m + i <= m) /\ (m + i) - m = i
    BY <1>2
  <2>2. QED
    BY <1>3, <2>1
<1>6. Long(r, k)
  BY <1>1, <1>3 DEF Long
<1>7. QED
  BY <1>4, <1>5, <1>6

(* An octet and four digits are read as they were written.                                *)
LEMMA OctetIsRead ==
  ASSUME NEW n \in Nat, NEW x, x = Octet(n)
  PROVE  Long(x, 2) /\ 16 * x[1] + x[2] = n
<1>1. x = <<n \div 16, n % 16>> /\ n \div 16 \in Nat /\ n % 16 \in Nat
  BY DEF Octet
<1>2. 16 * (n \div 16) + (n % 16) = n
  OBVIOUS
<1>3. x \in Seq(Nat) /\ Len(x) = 2
  BY <1>1
<1>4. 16 * x[1] + x[2] = n
  BY <1>1, <1>2
<1>5. QED
  BY <1>3, <1>4 DEF Long

LEMMA Hex4IsRead ==
  ASSUME NEW n \in Nat, NEW x, x = Hex4(n)
  PROVE  /\ Long(x, 4)
         /\ 256 * (16 * x[1] + x[2]) + (16 * x[3] + x[4]) = n
<1> DEFINE a == Octet(n \div 256)
           b == Octet(n % 256)
<1>1. n \div 256 \in Nat /\ n % 256 \in Nat /\ 256 * (n \div 256) + (n % 256) = n
  OBVIOUS
<1>2. Long(a, 2) /\ 16 * a[1] + a[2] = n \div 256
  BY <1>1, OctetIsRead
<1>3. Long(b, 2) /\ 16 * b[1] + b[2] = n % 256
  BY <1>1, OctetIsRead
<1>4. x = a \o b
  BY DEF Hex4
<1> HIDE DEF a, b
<1>5. Joins(a, 2, b, 2, x, 4)
  BY <1>2, <1>3, <1>4 DEF Joins
<1>6. /\ Long(x, 4)
      /\ \A i \in 1..2 : x[i] = a[i]
      /\ \A i \in 1..2 : x[2 + i] = b[i]
  BY <1>5, JoinedText
<1>7. x[1] = a[1] /\ x[2] = a[2] /\ x[2 + 1] = b[1] /\ x[2 + 2] = b[2]
  BY <1>6
<1>8. x[1] = a[1] /\ x[2] = a[2] /\ x[3] = b[1] /\ x[4] = b[2]
  BY <1>7
<1>9. QED
  BY <1>1, <1>2, <1>3, <1>6, <1>8

(* The message: the count of its octets and four digits for each character.               *)
LEMMA UnicodeIsRead ==
  ASSUME NEW points \in Seq(Nat), NEW k, k = Len(points), NEW t, t = ToUnicode(points)
  PROVE  /\ k \in Nat /\ Long(t, 2 + 4 * k)
         /\ 16 * t[1] + t[2] = 2 * k
         /\ \A i \in 1..k : 256 * (16 * t[4 * i - 1] + t[4 * i])
                              + (16 * t[4 * i + 1] + t[4 * i + 2]) = points[i]
<1> DEFINE digit(i) == Hex4(points[(i + 3) \div 4])[((i - 1) % 4) + 1]
           text == [i \in 1..(4 * k) |-> digit(i)]
           octet == Octet(2 * k)
<1>1. k \in Nat /\ \A i \in 1..k : points[i] \in Nat
  OBVIOUS
<1>2. \A i \in 1..k : /\ Long(Hex4(points[i]), 4)
                      /\ 256 * (16 * Hex4(points[i])[1] + Hex4(points[i])[2])
                           + (16 * Hex4(points[i])[3] + Hex4(points[i])[4]) = points[i]
  BY <1>1, Hex4IsRead
<1>3. ASSUME NEW i \in 1..(4 * k) PROVE digit(i) \in Nat
  <2> DEFINE place == (i + 3) \div 4
             at == ((i - 1) % 4) + 1
  <2>1. place \in 1..k /\ at \in 1..4
    BY <1>1
  <2> HIDE DEF place, at
  <2>2. Long(Hex4(points[place]), 4)
    BY <1>2, <2>1
  <2>3. Hex4(points[place])[at] \in Nat
    BY <2>1, <2>2, ElementOfSeq DEF Long
  <2>4. QED
    BY <2>3 DEF place, at
<1>4. text \in Seq(Nat) /\ Len(text) = 4 * k
  <2>1. text \in [1..(4 * k) -> Nat]
    BY <1>3
  <2> HIDE DEF text
  <2>2. QED
    BY <1>1, <2>1, SMTT(30)
<1>5. ASSUME NEW i \in 1..k
      PROVE  /\ text[4 * i - 3] = Hex4(points[i])[1]
             /\ text[4 * i - 2] = Hex4(points[i])[2]
             /\ text[4 * i - 1] = Hex4(points[i])[3]
             /\ text[4 * i] = Hex4(points[i])[4]
  <2>1. /\ 4 * i - 3 \in 1..(4 * k) /\ 4 * i - 2 \in 1..(4 * k)
        /\ 4 * i - 1 \in 1..(4 * k) /\ 4 * i \in 1..(4 * k)
    BY <1>1
  <2>2. /\ ((4 * i - 3) + 3) \div 4 = i /\ (((4 * i - 3) - 1) % 4) + 1 = 1
        /\ ((4 * i - 2) + 3) \div 4 = i /\ (((4 * i - 2) - 1) % 4) + 1 = 2
        /\ ((4 * i - 1) + 3) \div 4 = i /\ (((4 * i - 1) - 1) % 4) + 1 = 3
        /\ (4 * i + 3) \div 4 = i /\ ((4 * i - 1) % 4) + 1 = 4
    BY <1>1
  <2>3. /\ text[4 * i - 3] = digit(4 * i - 3) /\ text[4 * i - 2] = digit(4 * i - 2)
        /\ text[4 * i - 1] = digit(4 * i - 1) /\ text[4 * i] = digit(4 * i)
    BY <2>1, Zenon
  <2> HIDE DEF text
  <2>4. QED
    BY <2>2, <2>3, Zenon
<1>6. t = octet \o text
  <2>1. Len(text) \div 2 = 2 * k
    BY <1>1, <1>4
  <2>2. t = Octet(Len(text) \div 2) \o text
    BY Zenon DEF ToUnicode
  <2>3. QED
    BY <2>1, <2>2, Zenon
<1>7. Long(octet, 2) /\ 16 * octet[1] + octet[2] = 2 * k
  <2>1. 2 * k \in Nat
    BY <1>1
  <2>2. QED
    BY <2>1, OctetIsRead
<1> HIDE DEF text, octet
<1>8. Joins(octet, 2, text, 4 * k, t, 2 + 4 * k)
  BY <1>4, <1>6, <1>7 DEF Joins, Long
<1>9. /\ Long(t, 2 + 4 * k)
      /\ \A i \in 1..2 : t[i] = octet[i]
      /\ \A i \in 1..(4 * k) : t[2 + i] = text[i]
  BY <1>8, JoinedText
<1>10. t[1] = octet[1] /\ t[2] = octet[2]
  BY <1>9
<1>11. ASSUME NEW i \in 1..k
       PROVE  /\ t[4 * i - 1] = text[4 * i - 3] /\ t[4 * i] = text[4 * i - 2]
              /\ t[4 * i + 1] = text[4 * i - 1] /\ t[4 * i + 2] = text[4 * i]
  <2>1. /\ 4 * i - 3 \in 1..(4 * k) /\ 4 * i - 2 \in 1..(4 * k)
        /\ 4 * i - 1 \in 1..(4 * k) /\ 4 * i \in 1..(4 * k)
    BY <1>1
  <2>2. /\ 2 + (4 * i - 3) = 4 * i - 1 /\ 2 + (4 * i - 2) = 4 * i
        /\ 2 + (4 * i - 1) = 4 * i + 1 /\ 2 + 4 * i = 4 * i + 2
    BY <1>1
  <2>3. /\ t[2 + (4 * i - 3)] = text[4 * i - 3] /\ t[2 + (4 * i - 2)] = text[4 * i - 2]
        /\ t[2 + (4 * i - 1)] = text[4 * i - 1] /\ t[2 + 4 * i] = text[4 * i]
    BY <1>9, <2>1
  <2>4. QED
    BY <2>2, <2>3
<1>12. ASSUME NEW i \in 1..k
       PROVE  256 * (16 * t[4 * i - 1] + t[4 * i])
                + (16 * t[4 * i + 1] + t[4 * i + 2]) = points[i]
  <2>1. /\ text[4 * i - 3] = Hex4(points[i])[1]
        /\ text[4 * i - 2] = Hex4(points[i])[2]
        /\ text[4 * i - 1] = Hex4(points[i])[3]
        /\ text[4 * i] = Hex4(points[i])[4]
    BY <1>5
  <2>2. 256 * (16 * Hex4(points[i])[1] + Hex4(points[i])[2])
          + (16 * Hex4(points[i])[3] + Hex4(points[i])[4]) = points[i]
    BY <1>2
  <2>3. QED
    BY <1>11, <2>1, <2>2, SMTT(30)
<1>13. QED
  BY <1>1, <1>7, <1>9, <1>10, <1>12

(* The service centre: the count of its octets, its type and its digits.                   *)
IsCenter(x, s) == s = Octet((Len(x) + 2) \div 2) \o International \o x

LEMMA CenterIsPut ==
  ASSUME NEW digits, NEW n, NEW h, NEW x, Swaps(digits, n, h, x), NEW s, IsCenter(x, s)
  PROVE  /\ h \in Nat /\ Long(s, 4 + 2 * h)
         /\ 16 * s[1] + s[2] = h + 1
         /\ \A i \in 1..(2 * h) : s[4 + i] = x[i]
<1> DEFINE octet == Octet(h + 1)
           first == octet \o International
<1>1. h \in Nat /\ Long(x, 2 * h)
  BY Swapped
<1>2. (2 * h + 2) \div 2 = h + 1 /\ h + 1 \in Nat
  BY <1>1
<1>4. s = first \o x
  <2>1. Len(x) = 2 * h
    BY <1>1 DEF Long
  <2>2. QED
    BY <1>2, <2>1, Zenon DEF IsCenter
<1>5. Long(octet, 2) /\ 16 * octet[1] + octet[2] = h + 1
  BY <1>2, OctetIsRead
<1>6. Long(International, 2)
  BY DEF International, Long
<1> HIDE DEF octet
<1>7. Joins(octet, 2, International, 2, first, 4)
  BY <1>5, <1>6 DEF Joins
<1> HIDE DEF first
<1>8. Long(first, 4) /\ \A i \in 1..2 : first[i] = octet[i]
  BY <1>7, JoinedText
<1>9. Joins(first, 4, x, 2 * h, s, 4 + 2 * h)
  BY <1>1, <1>4, <1>8 DEF Joins
<1>10. Long(s, 4 + 2 * h) /\ \A i \in 1..4 : s[i] = first[i]
  BY <1>9, JoinedText
<1>11. \A i \in 1..(2 * h) : s[4 + i] = x[i]
  BY <1>9, JoinedText
<1>12. first[1] = octet[1] /\ first[2] = octet[2]
  BY <1>8
<1>13. s[1] = first[1] /\ s[2] = first[2]
  BY <1>10
<1>14. QED
  BY <1>1, <1>5, <1>10, <1>11, <1>12, <1>13

(* The destination: the count of its digits, its type and its digits.                      *)
IsDest(number, n, h, x, d, octet) ==
  /\ Swaps(number.digits, n, h, x)
  /\ d = SmsDest(number) /\ octet = IF number.plus THEN 9 ELSE 8

LEMMA DestIsPut ==
  ASSUME NEW number, NEW n, NEW h, NEW x, NEW d, NEW type,
         IsDest(number, n, h, x, d, type)
  PROVE  /\ Long(d, 14 + 2 * h)
         /\ 16 * d[5] + d[6] = n
         /\ d[7] = type /\ d[8] = 1
         /\ \A i \in 1..(2 * h) : d[8 + i] = x[i]
<1> DEFINE first == <<1, 1, 0, 0>>
           octet == Octet(n)
           kind == IF number.plus THEN International ELSE National
           last == <<0, 0, 0, 8, 0, 0>>
           counted == first \o octet
           typed == counted \o kind
           said == typed \o x
<1>1. n \in Nat /\ h \in Nat /\ Long(x, 2 * h)
  BY Swapped DEF IsDest
<1>2. d = said \o last
  BY Zenon DEF SmsDest, Count, Swaps, IsDest
<1>3. Long(octet, 2) /\ 16 * octet[1] + octet[2] = n
  BY <1>1, OctetIsRead
<1>4. Long(first, 4) /\ Long(last, 6)
  BY DEF Long
<1>5. /\ International = <<9, 1>> /\ National = <<8, 1>>
  BY DEF International, National
<1>6. /\ Long(kind, 2)
      /\ kind[1] = (IF number.plus THEN 9 ELSE 8) /\ kind[2] = 1
  <2>1. CASE number.plus
    <3>1. kind = International
      BY <2>1, Zenon
    <3> HIDE DEF kind
    <3>2. QED
      BY <2>1, <3>1, <1>5 DEF Long
  <2>2. CASE ~number.plus
    <3>1. kind = National
      BY <2>2, Zenon
    <3> HIDE DEF kind
    <3>2. QED
      BY <2>2, <3>1, <1>5 DEF Long
  <2>3. QED
    BY <2>1, <2>2
<1> HIDE DEF first, octet, kind, last
<1>7. Joins(first, 4, octet, 2, counted, 6)
  BY <1>3, <1>4 DEF Joins
<1> HIDE DEF counted
<1>8. Long(counted, 6) /\ \A i \in 1..2 : counted[4 + i] = octet[i]
  BY <1>7, JoinedText
<1>9. Joins(counted, 6, kind, 2, typed, 8)
  BY <1>6, <1>8 DEF Joins
<1> HIDE DEF typed
<1>10. /\ Long(typed, 8)
       /\ \A i \in 1..6 : typed[i] = counted[i]
       /\ \A i \in 1..2 : typed[6 + i] = kind[i]
  BY <1>9, JoinedText
<1>11. Joins(typed, 8, x, 2 * h, said, 8 + 2 * h)
  BY <1>1, <1>10 DEF Joins
<1> HIDE DEF said
<1>12. /\ Long(said, 8 + 2 * h)
       /\ \A i \in 1..8 : said[i] = typed[i]
       /\ \A i \in 1..(2 * h) : said[8 + i] = x[i]
  BY <1>11, JoinedText
<1>13. Joins(said, 8 + 2 * h, last, 6, d, 14 + 2 * h)
  BY <1>1, <1>2, <1>4, <1>12 DEF Joins
<1>14. /\ Long(d, 14 + 2 * h)
       /\ \A i \in 1..(8 + 2 * h) : d[i] = said[i]
  BY <1>13, JoinedText
<1>15. \A i \in 1..8 : d[i] = typed[i]
  BY <1>1, <1>12, <1>14
<1>16. d[5] = octet[1] /\ d[6] = octet[2] /\ d[7] = kind[1] /\ d[8] = kind[2]
  <2>1. /\ counted[4 + 1] = octet[1] /\ counted[4 + 2] = octet[2]
        /\ typed[6 + 1] = kind[1] /\ typed[6 + 2] = kind[2]
    BY <1>8, <1>10
  <2>2. typed[5] = counted[5] /\ typed[6] = counted[6]
    BY <1>10
  <2>3. d[5] = typed[5] /\ d[6] = typed[6] /\ d[7] = typed[7] /\ d[8] = typed[8]
    BY <1>15
  <2>4. QED
    BY <2>1, <2>2, <2>3
<1>17. \A i \in 1..(2 * h) : d[8 + i] = x[i]
  <2>1. \A i \in 1..(2 * h) : 8 + i \in 1..(8 + 2 * h)
    BY <1>1
  <2>2. QED
    BY <1>12, <1>14, <2>1
<1>18. d[7] = type
  BY <1>6, <1>16, Zenon DEF IsDest
<1>19. QED
  BY <1>3, <1>6, <1>14, <1>16, <1>17, <1>18

(* The three parts of the text, by what the modem looks at.                               *)
CenterText(s, h, x) ==
  /\ h \in Nat /\ Long(s, 4 + 2 * h) /\ 16 * s[1] + s[2] = h + 1
  /\ \A i \in 1..(2 * h) : s[4 + i] = x[i]
DestText(d, n, h, x, kind) ==
  /\ Long(d, 14 + 2 * h) /\ 16 * d[5] + d[6] = n /\ d[7] = kind /\ d[8] = 1
  /\ \A i \in 1..(2 * h) : d[8 + i] = x[i]
MessageText(t, points, k) ==
  /\ points \in Seq(Nat) /\ k = Len(points) /\ k \in Nat /\ Long(t, 2 + 4 * k)
  /\ 16 * t[1] + t[2] = 2 * k
  /\ \A i \in 1..k : 256 * (16 * t[4 * i - 1] + t[4 * i])
                       + (16 * t[4 * i + 1] + t[4 * i + 2]) = points[i]

(* A part of a text, and the part that is taken out of it.                                *)
Holds(data, from, x, k) ==
  /\ data \in Seq(Nat) /\ from \in Nat /\ k \in Nat /\ Long(x, k) /\ from + k <= Len(data)
  /\ \A i \in 1..k : data[from + i] = x[i]

LEMMA PartIsTaken ==
  ASSUME NEW data, NEW from, NEW x, NEW k, Holds(data, from, x, k)
  PROVE  SubSeq(data, from + 1, from + k) = x
<1> DEFINE m == from + 1
           n == from + k
           part == SubSeq(data, m, n)
<1>1. /\ data \in Seq(Nat) /\ from \in Nat /\ k \in Nat /\ Len(data) \in Nat
      /\ from + k <= Len(data) /\ x \in Seq(Nat) /\ Len(x) = k
      /\ \A i \in 1..k : data[from + i] = x[i]
  BY DEF Holds, Long
<1>2. /\ m \in Int /\ n \in Int /\ \A i \in m..n : data[i] \in Nat
      /\ n - m + 1 = k /\ (m <= n \/ k = 0) /\ (m <= n => k > 0)
  <2>1. \A i \in m..n : i \in 1..Len(data)
    BY <1>1
  <2>2. \A i \in m..n : data[i] \in Nat
    BY <1>1, <2>1, ElementOfSeq
  <2>3. QED
    BY <1>1, <2>2
<1>3. \A i \in 1..k : m + i - 1 = from + i
  BY <1>1
<1> HIDE DEF m, n
<1>4. /\ part \in Seq(Nat) /\ Len(part) = IF m <= n THEN n - m + 1 ELSE 0
      /\ \A i \in 1..(n - m + 1) : part[i] = data[m + i - 1]
  BY <1>2, SubSeqProperties
<1> HIDE DEF part
<1>5. Len(part) = k /\ \A i \in 1..k : part[i] = x[i]
  BY <1>1, <1>2, <1>3, <1>4
<1>6. part = x
  BY <1>1, <1>4, <1>5, SeqEqual
<1>7. QED
  BY <1>6 DEF part, m, n

(* The digits of an address are read back from its half octets.                            *)
LEMMA SwappedIsRead ==
  ASSUME NEW digits, NEW n, NEW h, NEW x, Swaps(digits, n, h, x)
  PROVE  Digits(x, n) = digits
BY DigitsAreReadBack DEF Swaps

LEMMA CenterIsRead ==
  ASSUME NEW digits, NEW n, NEW h, NEW x, Swaps(digits, n, h, x), n > 0,
         NEW data, 16 * data[1] + data[2] = h + 1, Holds(data, 4, x, 2 * h)
  PROVE  CenterOctets(data) = h + 1 /\ ReadCenter(data) = digits
<1>1. /\ n \in Nat /\ h \in Nat /\ Long(x, 2 * h) /\ h > 0
      /\ x[2 * h - 1] = Filler => n = 2 * h - 1
      /\ x[2 * h - 1] # Filler => n = 2 * h
  BY Swapped
<1>2. CenterOctets(data) = h + 1
  BY DEF CenterOctets, OctetAt
<1>3. (h + 1) - 1 = h /\ 2 * 3 - 1 = 4 + 1 /\ 2 * (3 + h - 1) = 4 + 2 * h
  BY <1>1
<1>4. Octets(data, 3, CenterOctets(data) - 1) = SubSeq(data, 4 + 1, 4 + 2 * h)
  BY <1>2, <1>3, Zenon DEF Octets
<1>5. SubSeq(data, 4 + 1, 4 + 2 * h) = x
  <2> DEFINE four == 4
             k == 2 * h
  <2>1. Holds(data, four, x, k)
    OBVIOUS
  <2> HIDE DEF four, k
  <2>2. SubSeq(data, four + 1, four + k) = x
    BY <2>1, PartIsTaken
  <2>3. QED
    BY <2>2, Zenon DEF four, k
<1>6. Len(x) = 2 * h
  BY <1>1 DEF Long
<1> DEFINE count == IF x[Len(x) - 1] = Filler THEN Len(x) - 1 ELSE Len(x)
<1>7. ReadCenter(data) = Digits(x, count)
  BY <1>4, <1>5, Zenon DEF ReadCenter
<1>8. count = n
  BY <1>1, <1>6
<1> HIDE DEF count
<1>9. QED
  BY <1>2, <1>7, <1>8, SwappedIsRead

LEMMA DigitsOfNumber ==
  ASSUME NEW digits, NEW n, NEW h, NEW x, Swaps(digits, n, h, x),
         NEW submit, 16 * submit[5] + submit[6] = n, Holds(submit, 8, x, 2 * h)
  PROVE  /\ OctetAt(submit, 3) = n /\ DestOctets(submit) = h
         /\ Digits(Octets(submit, 5, DestOctets(submit)), OctetAt(submit, 3)) = digits
<1>1. n \in Nat /\ h \in Nat /\ h = (n + 1) \div 2
  BY Swapped DEF Swaps
<1>2. OctetAt(submit, 3) = n
  BY DEF OctetAt
<1>3. DestOctets(submit) = h
  BY <1>1, <1>2, Zenon DEF DestOctets
<1>4. 2 * 5 - 1 = 8 + 1 /\ 2 * (5 + h - 1) = 8 + 2 * h
  BY <1>1
<1>5. Octets(submit, 5, h) = SubSeq(submit, 8 + 1, 8 + 2 * h)
  BY <1>4, Zenon DEF Octets
<1>6. SubSeq(submit, 8 + 1, 8 + 2 * h) = x
  <2> DEFINE eight == 8
             k == 2 * h
  <2>1. Holds(submit, eight, x, k)
    OBVIOUS
  <2> HIDE DEF eight, k
  <2>2. SubSeq(submit, eight + 1, eight + k) = x
    BY <2>1, PartIsTaken
  <2>3. QED
    BY <2>2, Zenon DEF eight, k
<1>7. Digits(x, n) = digits
  BY SwappedIsRead
<1>8. QED
  BY <1>2, <1>3, <1>5, <1>6, <1>7, Zenon

LEMMA KindIsRead ==
  ASSUME NEW plus \in BOOLEAN, NEW submit, submit \in Seq(Nat), Len(submit) >= 8,
         submit[7] = (IF plus THEN 9 ELSE 8), submit[8] = 1
  PROVE  (Octets(submit, 4, 1) = International) = plus
<1> DEFINE x == <<submit[7], submit[8]>>
<1>1. 2 * 4 - 1 = 6 + 1 /\ 2 * (4 + 1 - 1) = 6 + 2
  OBVIOUS
<1>2. Octets(submit, 4, 1) = SubSeq(submit, 6 + 1, 6 + 2)
  BY <1>1, Zenon DEF Octets
<1>3. Long(x, 2)
  BY DEF Long
<1>4. Holds(submit, 6, x, 2)
  BY <1>3 DEF Holds
<1>5. SubSeq(submit, 6 + 1, 6 + 2) = x
  <2> DEFINE six == 6
             two == 2
  <2>1. Holds(submit, six, x, two)
    BY <1>4
  <2> HIDE DEF six, two, x
  <2>2. SubSeq(submit, six + 1, six + two) = x
    BY <2>1, PartIsTaken
  <2>3. QED
    BY <2>2, Zenon DEF six, two
<1>6. CASE plus
  <2>1. x = <<9, 1>>
    BY <1>6
  <2>2. QED
    BY <1>2, <1>5, <1>6, <2>1, Zenon DEF International
<1>7. CASE ~plus
  <2>1. x = <<8, 1>> /\ <<8, 1>> # <<9, 1>>
    BY <1>7
  <2>2. QED
    BY <1>2, <1>5, <1>7, <2>1, Zenon DEF International
<1>8. QED
  BY <1>6, <1>7

LEMMA PointsAreRead ==
  ASSUME NEW points, NEW k, NEW t, MessageText(t, points, k), NEW h \in Nat,
         NEW submit, Holds(submit, 14 + 2 * h, t, 2 + 4 * k), DestOctets(submit) = h
  PROVE  ReadText(submit) = points
<1> DEFINE count == 8 + h
           point(i) == 256 * OctetAt(submit, count + 2 * i - 1) + OctetAt(submit, count + 2 * i)
<1>1. k \in Nat /\ points \in Seq(Nat) /\ k = Len(points)
  BY DEF MessageText
<1>2. \A i \in 1..(2 + 4 * k) : submit[14 + 2 * h + i] = t[i]
  BY DEF Holds
<1>3. OctetAt(submit, count) = 2 * k
  <2>1. 1 \in 1..(2 + 4 * k) /\ 2 \in 1..(2 + 4 * k)
    BY <1>1
  <2>2. submit[14 + 2 * h + 1] = t[1] /\ submit[14 + 2 * h + 2] = t[2]
    BY <1>2, <2>1
  <2>3. 2 * count - 1 = 14 + 2 * h + 1 /\ 2 * count = 14 + 2 * h + 2
    OBVIOUS
  <2> HIDE DEF count
  <2>4. OctetAt(submit, count) = 16 * submit[14 + 2 * h + 1] + submit[14 + 2 * h + 2]
    BY <2>3, Zenon DEF OctetAt
  <2>5. 16 * t[1] + t[2] = 2 * k
    BY DEF MessageText
  <2>6. QED
    BY <2>2, <2>4, <2>5
<1>4. OctetAt(submit, count) \div 2 = k
  BY <1>1, <1>3
<1>5. ASSUME NEW i \in 1..k PROVE point(i) = points[i]
  <2> DEFINE a == count + 2 * i - 1
             b == count + 2 * i
             base == 14 + 2 * h
  <2>1. /\ 4 * i - 1 \in 1..(2 + 4 * k) /\ 4 * i \in 1..(2 + 4 * k)
        /\ 4 * i + 1 \in 1..(2 + 4 * k) /\ 4 * i + 2 \in 1..(2 + 4 * k)
    BY <1>1
  <2>2. /\ 2 * a - 1 = base + (4 * i - 1) /\ 2 * a = base + 4 * i
        /\ 2 * b - 1 = base + (4 * i + 1) /\ 2 * b = base + (4 * i + 2)
    BY <1>1
  <2>3. /\ submit[base + (4 * i - 1)] = t[4 * i - 1] /\ submit[base + 4 * i] = t[4 * i]
        /\ submit[base + (4 * i + 1)] = t[4 * i + 1]
        /\ submit[base + (4 * i + 2)] = t[4 * i + 2]
    BY <1>2, <2>1
  <2> HIDE DEF a, b, base
  <2>4. OctetAt(submit, a) = 16 * t[4 * i - 1] + t[4 * i]
    BY <2>2, <2>3, Zenon DEF OctetAt
  <2>5. OctetAt(submit, b) = 16 * t[4 * i + 1] + t[4 * i + 2]
    BY <2>2, <2>3, Zenon DEF OctetAt
  <2>6. 256 * (16 * t[4 * i - 1] + t[4 * i]) + (16 * t[4 * i + 1] + t[4 * i + 2]) = points[i]
    BY DEF MessageText
  <2>7. QED
    BY <2>4, <2>5, <2>6, Zenon DEF a, b
<1>6. ReadText(submit) = [i \in 1..k |-> point(i)]
  BY <1>4, Zenon DEF ReadText
<1> HIDE DEF point
<1>7. points = [i \in 1..k |-> points[i]]
  BY <1>1
<1>8. QED
  BY <1>5, <1>6, <1>7

LEMMA PartsArePut ==
  /\ \A digits, n, h, x, s :
       Swaps(digits, n, h, x) /\ IsCenter(x, s) => CenterText(s, h, x)
  /\ \A number, n, h, x :
       Swaps(number.digits, n, h, x) =>
         DestText(SmsDest(number), n, h, x, IF number.plus THEN 9 ELSE 8)
  /\ \A points \in Seq(Nat) : MessageText(ToUnicode(points), points, Len(points))
<1>1. ASSUME NEW digits, NEW n, NEW h, NEW x, NEW s, Swaps(digits, n, h, x), IsCenter(x, s)
      PROVE  CenterText(s, h, x)
  BY <1>1, CenterIsPut DEF CenterText
<1>2. ASSUME NEW number, NEW n, NEW h, NEW x, Swaps(number.digits, n, h, x)
      PROVE  DestText(SmsDest(number), n, h, x, IF number.plus THEN 9 ELSE 8)
  <2> DEFINE d == SmsDest(number)
             type == IF number.plus THEN 9 ELSE 8
  <2>1. /\ Long(d, 14 + 2 * h) /\ 16 * d[5] + d[6] = n
        /\ d[7] = type /\ d[8] = 1
        /\ \A i \in 1..(2 * h) : d[8 + i] = x[i]
    <3>1. IsDest(number, n, h, x, d, type)
      BY <1>2, Zenon DEF IsDest
    <3> HIDE DEF d, type
    <3>2. QED
      BY <3>1, DestIsPut
  <2> HIDE DEF d, type
  <2>2. DestText(d, n, h, x, type)
    BY <2>1, Zenon DEF DestText
  <2>3. QED
    BY <2>2, Zenon DEF d, type
<1>3. ASSUME NEW points \in Seq(Nat)
      PROVE  MessageText(ToUnicode(points), points, Len(points))
  <2> DEFINE t == ToUnicode(points)
             k == Len(points)
  <2>1. /\ k \in Nat /\ Long(t, 2 + 4 * k) /\ 16 * t[1] + t[2] = 2 * k
        /\ \A i \in 1..k : 256 * (16 * t[4 * i - 1] + t[4 * i])
                             + (16 * t[4 * i + 1] + t[4 * i + 2]) = points[i]
    BY UnicodeIsRead
  <2>2. k = Len(points)
    OBVIOUS
  <2> HIDE DEF t, k
  <2>3. MessageText(t, points, k)
    BY <2>1, <2>2, Zenon DEF MessageText
  <2>4. QED
    BY <2>3 DEF t, k
<1>4. QED
  BY <1>1, <1>2, <1>3, Zenon

(* What stands in the SMS-SUBMIT, and what a modem reads there.                             *)
LEMMA SubmitHolds ==
  ASSUME NEW digits, NEW n, NEW h, NEW x, Swaps(digits, n, h, x),
         NEW d, NEW kind, DestText(d, n, h, x, kind),
         NEW points, NEW k, NEW t, MessageText(t, points, k),
         NEW submit, NEW l, Joins(d, 14 + 2 * h, t, 2 + 4 * k, submit, l)
  PROVE  /\ submit \in Seq(Nat) /\ Len(submit) >= 8 /\ Len(submit) = 16 + 2 * h + 4 * k
         /\ 16 * submit[5] + submit[6] = n /\ submit[7] = kind /\ submit[8] = 1
         /\ Holds(submit, 8, x, 2 * h)
         /\ Holds(submit, 14 + 2 * h, t, 2 + 4 * k)
<1> DEFINE m == 14 + 2 * h
           c == 2 + 4 * k
<1>1. /\ 16 * d[5] + d[6] = n /\ d[7] = kind /\ d[8] = 1
      /\ \A i \in 1..(2 * h) : d[8 + i] = x[i]
  BY DEF DestText
<1>2. h \in Nat /\ Long(x, 2 * h)
  BY Swapped
<1>3. k \in Nat /\ Long(t, c)
  BY DEF MessageText
<1>4. /\ m \in Nat /\ c \in Nat /\ m + c = 16 + 2 * h + 4 * k /\ m >= 8 + 2 * h /\ m >= 8
      /\ m + c >= 8 + 2 * h
  BY <1>2, <1>3
<1>5. l = m + c
  BY DEF Joins
<1> HIDE DEF m, c
<1>6. Joins(d, m, t, c, submit, l)
  BY DEF m, c
<1>7. Long(submit, l)
  BY <1>6, JoinedText
<1>8. \A i \in 1..m : submit[i] = d[i]
  BY <1>6, JoinedText
<1>9. \A i \in 1..c : submit[m + i] = t[i]
  BY <1>6, JoinedText
<1>10. submit \in Seq(Nat) /\ Len(submit) = m + c
  BY <1>5, <1>7 DEF Long
<1>11. \A i \in 1..(8 + 2 * h) : submit[i] = d[i]
  BY <1>2, <1>4, <1>8
<1>12. /\ submit[5] = d[5] /\ submit[6] = d[6] /\ submit[7] = d[7] /\ submit[8] = d[8]
  <2>1. 5 \in 1..m /\ 6 \in 1..m /\ 7 \in 1..m /\ 8 \in 1..m
    BY <1>4
  <2>2. QED
    BY <1>8, <2>1
<1>13. \A i \in 1..(2 * h) : submit[8 + i] = x[i]
  <2>1. \A i \in 1..(2 * h) : 8 + i \in 1..(8 + 2 * h)
    BY <1>2
  <2>2. QED
    BY <1>1, <1>11, <2>1
<1>14. Holds(submit, 8, x, 2 * h)
  <2>1. 8 \in Nat /\ 2 * h \in Nat /\ 8 + 2 * h <= m + c
    BY <1>2, <1>4
  <2>2. QED
    BY <1>2, <1>10, <1>13, <2>1, Zenon DEF Holds
<1>15. Holds(submit, m, t, c)
  <2>1. m + c <= m + c
    BY <1>4
  <2>2. QED
    BY <1>3, <1>4, <1>9, <1>10, <2>1, Zenon DEF Holds
<1>16. Len(submit) >= 8 /\ Len(submit) = 16 + 2 * h + 4 * k
  BY <1>4, <1>10
<1>17. 16 * submit[5] + submit[6] = n /\ submit[7] = kind /\ submit[8] = 1
  BY <1>1, <1>12
<1>18. QED
  BY <1>10, <1>14, <1>15, <1>16, <1>17 DEF m, c

LEMMA SubmitIsRead ==
  ASSUME NEW digits, NEW n, NEW h, NEW x, Swaps(digits, n, h, x), NEW plus \in BOOLEAN,
         NEW d, NEW kind, DestText(d, n, h, x, kind), kind = (IF plus THEN 9 ELSE 8),
         NEW points, NEW k, NEW t, MessageText(t, points, k),
         NEW submit, NEW l, Joins(d, 14 + 2 * h, t, 2 + 4 * k, submit, l)
  PROVE  /\ ReadNumber(submit) = [plus |-> plus, digits |-> digits]
         /\ ReadText(submit) = points
<1>1. /\ submit \in Seq(Nat) /\ Len(submit) >= 8
      /\ 16 * submit[5] + submit[6] = n /\ submit[7] = kind /\ submit[8] = 1
      /\ Holds(submit, 8, x, 2 * h)
      /\ Holds(submit, 14 + 2 * h, t, 2 + 4 * k)
  BY SubmitHolds, SMTT(30)
<1>2. /\ OctetAt(submit, 3) = n /\ DestOctets(submit) = h
      /\ Digits(Octets(submit, 5, DestOctets(submit)), OctetAt(submit, 3)) = digits
  BY <1>1, DigitsOfNumber
<1>3. (Octets(submit, 4, 1) = International) = plus
  BY <1>1, KindIsRead
<1>4. ReadNumber(submit) = [plus |-> plus, digits |-> digits]
  BY <1>2, <1>3, Zenon DEF ReadNumber
<1>5. h \in Nat
  BY Swapped
<1>6. ReadText(submit) = points
  BY <1>1, <1>2, <1>5, PointsAreRead
<1>7. QED
  BY <1>4, <1>6

(* What stands in the whole text, and what a modem reads there.                             *)
LEMMA TextHolds ==
  ASSUME NEW digits, NEW n, NEW h, NEW x, Swaps(digits, n, h, x), n > 0,
         NEW s, CenterText(s, h, x), NEW submit, NEW l, NEW data, NEW k,
         Joins(s, 4 + 2 * h, submit, l, data, k)
  PROVE  ReadCenter(data) = digits /\ Submit(data) = submit
<1> DEFINE m == 4 + 2 * h
<1>1. h \in Nat /\ 16 * s[1] + s[2] = h + 1 /\ Long(x, 2 * h)
  BY Swapped DEF CenterText
<1>2. \A i \in 1..(2 * h) : s[4 + i] = x[i]
  BY DEF CenterText
<1>3. m \in Nat /\ m >= 4 /\ 2 * h \in Nat
  BY <1>1
<1>4. l \in Nat /\ k = m + l /\ Long(submit, l)
  BY DEF Joins, Long
<1>5. \A i \in 1..(2 * h) : 4 + i \in 1..m
  BY <1>1
<1>6. 2 * (h + 1) + 3 = m + 1
  BY <1>1
<1>7. m = 4 + 2 * h
  OBVIOUS
<1> HIDE DEF m
<1>8. Joins(s, m, submit, l, data, k)
  BY <1>7
<1>9. Long(data, k)
  BY <1>8, JoinedText
<1>10. \A i \in 1..m : data[i] = s[i]
  BY <1>8, JoinedText
<1>11. \A i \in 1..l : data[m + i] = submit[i]
  BY <1>8, JoinedText
<1>12. data \in Seq(Nat) /\ Len(data) = m + l
  BY <1>4, <1>9 DEF Long
<1>13. data[1] = s[1] /\ data[2] = s[2]
  <2>1. 1 \in 1..m /\ 2 \in 1..m
    BY <1>3
  <2>2. QED
    BY <1>10, <2>1
<1>14. Holds(data, 4, x, 2 * h)
  <2>1. 4 \in Nat /\ 4 + 2 * h <= m + l
    BY <1>3, <1>4, <1>7
  <2>2. \A i \in 1..(2 * h) : data[4 + i] = x[i]
    BY <1>2, <1>5, <1>10
  <2>3. QED
    BY <1>1, <1>3, <1>12, <2>1, <2>2, Zenon DEF Holds
<1>15. 16 * data[1] + data[2] = h + 1
  BY <1>1, <1>13
<1>16. CenterOctets(data) = h + 1 /\ ReadCenter(data) = digits
  BY <1>14, <1>15, CenterIsRead
<1>17. Holds(data, m, submit, l)
  <2>1. m + l <= m + l
    BY <1>3, <1>4
  <2>2. QED
    BY <1>3, <1>4, <1>11, <1>12, <2>1, Zenon DEF Holds
<1>18. SubSeq(data, m + 1, m + l) = submit
  BY <1>17, PartIsTaken
<1>19. Submit(data) = submit
  BY <1>6, <1>12, <1>16, <1>18, Zenon DEF Submit
<1>20. QED
  BY <1>16, <1>19

IsSms(sms, center, number, points) ==
  /\ number \in [plus : BOOLEAN, digits : Seq(0..9)]
  /\ center.plus /\ center.digits \in Seq(0..9) /\ Len(center.digits) > 0
  /\ points \in Seq(Nat)
  /\ sms = SendPduMessage(TRUE, center, number, points)

LEMMA SmsIsRead ==
  ASSUME NEW sms, NEW center, NEW number, NEW points, IsSms(sms, center, number, points)
  PROVE  /\ ReadCenter(sms.data) = center.digits
         /\ ReadNumber(Submit(sms.data)) = number
         /\ ReadText(Submit(sms.data)) = points
         /\ 2 * sms.cmgs = Len(Submit(sms.data))
<1> DEFINE plus == number.plus
           digits == number.digits
           n == Len(digits)
           h == (n + 1) \div 2
           x == Exchange(digits)
           kind == IF plus THEN 9 ELSE 8
           name == center.digits
           nc == Len(name)
           hc == (nc + 1) \div 2
           xc == Exchange(name)
           k == Len(points)
           dest == SmsDest(number)
           t == ToUnicode(points)
           first == SmsCenter(TRUE, center)
           submit == dest \o t
           both == first \o dest
           data == sms.data
           m == 14 + 2 * h
           c == 2 + 4 * k
           l == m + c
           mc == 4 + 2 * hc
           all == mc + l
<1>1. /\ digits \in Seq(0..9) /\ name \in Seq(0..9) /\ plus \in BOOLEAN
      /\ number = [plus |-> plus, digits |-> digits] /\ nc > 0
  BY Zenon DEF IsSms
<1>2. Swaps(digits, n, h, x)
  BY <1>1, Zenon DEF Swaps
<1>3. Swaps(name, nc, hc, xc)
  BY <1>1, Zenon DEF Swaps
<1>4. sms.cmgs = (Len(dest) + Len(t)) \div 2 /\ data = both \o t
  <2>1. sms = [cmgs |-> (Len(dest) + Len(t)) \div 2, data |-> both \o t]
    BY Zenon DEF SendPduMessage, IsSms
  <2> HIDE DEF dest, t, both
  <2>2. QED
    BY <2>1
<1>5. IsCenter(xc, first)
  BY Zenon DEF IsCenter, SmsCenter, AfterPlus, IsSms
<1>6. CenterText(first, hc, xc)
  BY <1>3, <1>5, PartsArePut, Zenon
<1>7. DestText(dest, n, h, x, kind)
  BY <1>2, PartsArePut, Zenon
<1>8. MessageText(t, points, k)
  BY PartsArePut, Zenon DEF IsSms
<1>9. /\ submit = dest \o t /\ both = first \o dest /\ m = 14 + 2 * h /\ c = 2 + 4 * k
      /\ l = m + c /\ mc = 4 + 2 * hc /\ all = mc + l /\ kind = IF plus THEN 9 ELSE 8
  BY Zenon
<1>10. sms.data = data /\ center.digits = name
  BY Zenon
<1> HIDE DEF plus, digits, n, h, x, kind, name, nc, hc, xc, k, dest, t, first, submit, both,
             data, m, c, l, mc, all
<1>11. Long(dest, m) /\ Long(t, c)
  BY <1>7, <1>8, <1>9, Zenon DEF DestText, MessageText
<1>12. Long(first, mc)
  BY <1>6, <1>9, Zenon DEF CenterText
<1>13. Joins(dest, m, t, c, submit, l)
  BY <1>9, <1>11, Zenon DEF Joins
<1>14. Long(submit, l)
  BY <1>13, JoinedText, Zenon
<1>15. data = first \o submit
  <2>1. first \in Seq(Nat) /\ dest \in Seq(Nat) /\ t \in Seq(Nat)
    BY <1>11, <1>12, Zenon DEF Long
  <2>2. (first \o dest) \o t = first \o (dest \o t)
    BY <2>1, ConcatAssociative, SMTT(30)
  <2>3. QED
    BY <1>4, <1>9, <2>2, Zenon
<1>16. Joins(first, mc, submit, l, data, all)
  BY <1>9, <1>12, <1>14, <1>15, Zenon DEF Joins
<1>17. ReadCenter(data) = name /\ Submit(data) = submit
  <2>1. Joins(first, 4 + 2 * hc, submit, l, data, all)
    BY <1>9, <1>16, Zenon
  <2>2. QED
    BY <1>1, <1>3, <1>6, <2>1, TextHolds
<1>18. Joins(dest, 14 + 2 * h, t, 2 + 4 * k, submit, l)
  BY <1>9, <1>13, Zenon
<1>19. /\ ReadNumber(submit) = [plus |-> plus, digits |-> digits]
       /\ ReadText(submit) = points
  BY <1>1, <1>2, <1>7, <1>8, <1>9, <1>18, SubmitIsRead, SMTT(30)
<1>20. 2 * sms.cmgs = Len(submit)
  <2>1. h \in Nat /\ k \in Nat
    BY <1>2, <1>8, Swapped, Zenon DEF MessageText
  <2>2. Len(dest) = m /\ Len(t) = c /\ Len(submit) = l
    BY <1>11, <1>14, Zenon DEF Long
  <2>3. 2 * ((m + c) \div 2) = l
    BY <1>9, <2>1
  <2>4. QED
    BY <1>4, <2>2, <2>3, Zenon
<1>21. QED
  BY <1>1, <1>10, <1>17, <1>19, <1>20, Zenon

LEMMA SmsOfCase ==
  ASSUME CaseIsKnown
  PROVE  SmsIsReadBack
<1> DEFINE center == case.center
           number == case.number
           points == case.points
           sms == SendPduMessage(TRUE, center, number, points)
<1> SUFFICES ASSUME case.subject = "sms"
             PROVE  /\ ReadCenter(sms.data) = center.digits
                    /\ ReadNumber(Submit(sms.data)) = number
                    /\ ReadText(Submit(sms.data)) = points
                    /\ 2 * sms.cmgs = Len(Submit(sms.data))
  BY Zenon DEF SmsIsReadBack
<1>1. case \in SmsCases
  BY CaseHasSubject
<1>2. number \in Numbers /\ center \in {n \in Numbers : n.plus} /\ points \in Messages
  BY <1>1 DEF SmsCases
<1> HIDE DEF center, number, points
<1>3. \A n \in Numbers : n \in [plus : BOOLEAN, digits : Seq(0..9)] /\ Len(n.digits) \in 1..MaxDigits
  BY NumbersAssumption, Zenon DEF NumbersAssumption
<1>4. center \in Numbers /\ center.plus
  BY <1>2, Zenon
<1>5. number \in [plus : BOOLEAN, digits : Seq(0..9)]
  BY <1>2, <1>3, Zenon
<1>6. center \in [plus : BOOLEAN, digits : Seq(0..9)] /\ Len(center.digits) \in 1..MaxDigits
  BY <1>3, <1>4, Zenon
<1>7. center.digits \in Seq(0..9) /\ Len(center.digits) > 0
  <2>1. center.digits \in Seq(0..9)
    BY <1>6, Zenon
  <2>2. Len(center.digits) > 0
    <3> DEFINE length == Len(center.digits)
    <3>1. length \in 1..MaxDigits /\ MaxDigits \in Nat
      BY <1>6, Zenon DEF MaxDigits
    <3> HIDE DEF length
    <3>2. length > 0
      BY <3>1
    <3>3. QED
      BY <3>2, Zenon DEF length
  <2>3. QED
    BY <2>1, <2>2
<1>8. points \in Seq(Nat)
  <2>1. BasicPlane \subseteq Nat
    BY DEF BasicPlane
  <2>2. \A m \in Messages : m \in Seq(BasicPlane) /\ Len(m) <= MaxPoints
    BY MessagesAssumption, Zenon DEF MessagesAssumption
  <2>3. points \in Seq(BasicPlane)
    BY <1>2, <2>2, Zenon
  <2>4. QED
    BY <2>1, <2>3, SeqMonotonic
<1> HIDE DEF sms
<1>9. IsSms(sms, center, number, points)
  BY <1>4, <1>5, <1>7, <1>8, Zenon DEF IsSms, sms
<1>10. QED
  BY <1>9, SmsIsRead

(* What sendPduMessage sends is read by a modem as what was asked for.                     *)
THEOREM SmsIsReadBackAlways == Spec => []SmsIsReadBack
<1>1. CaseIsKnown => SmsIsReadBack
  BY SmsOfCase
<1>2. QED
  BY <1>1, CaseStays, PTL

===============================================================================
