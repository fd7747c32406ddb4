---------------------------- MODULE AtChannelProofs ----------------------------
(* Theorems about AtChannel, for any clients, commands, sizes of buffers and faults. *)
EXTENDS AtChannel, FiniteSetTheorems, SequenceTheorems, TLAPS

(* The steps of any commands the modem knows, those of one instance among them.      *)
AnyNext ==
  \/ Modem
  \/ \E c \in Clients : Step(c) \/ Return(c) \/ \E k \in AllCommands : Begin(c, k)

(* A command that has begun is one the modem knows, and has a number.                *)
CommandKnown ==
  \A c \in Clients : pc[c] # "idle" => command[c] \in AllCommands /\ own[c] # 0

-------------------------------------------------------------------------------
(* The pieces of text a reply is made of are tokens.                                 *)
LEMMA PieceType ==
  ASSUME NEW k \in AllCommands, NEW i \in 0..MaxWrites, NEW b \in BOOLEAN
  PROVE  /\ \A text \in Texts : Piece(k, i, text) \in Token
         /\ Value(k, i, b) \in Token
<1>1. \A text \in Texts : Piece(k, i, text) \in Token
  BY DEF Piece, Token
<1>2. Value(k, i, b) = [id |-> i, cmd |-> k, text |-> "value", good |-> b]
  BY DEF Value, Piece
<1>3. QED
  BY <1>1, <1>2 DEF Token, Texts

(* The replies to a command are texts.                                               *)
LEMMA ReplyType ==
  ASSUME NEW k \in AllCommands, NEW i \in 0..MaxWrites, NEW r \in Replies(k, i)
  PROVE  r \in Seq(Token)
<1>1. /\ Piece(k, i, "ERROR") \in Token /\ Piece(k, i, "name") \in Token
      /\ Piece(k, i, "OK") \in Token /\ Piece(k, i, "prompt") \in Token
      /\ \A b \in BOOLEAN : Value(k, i, b) \in Token
  BY PieceType DEF Texts
<1>2. \/ r = <<Piece(k, i, "ERROR")>>
      \/ \E b \in BOOLEAN : r = <<Piece(k, i, "name"), Value(k, i, b), Piece(k, i, "OK")>>
      \/ r = <<Piece(k, i, "OK")>>
      \/ r = <<Piece(k, i, "name"), Piece(k, i, "OK")>>
      \/ r = <<Piece(k, i, "prompt")>>
  BY DEF Replies, AllCommands, Asks, Sets, Reports
<1>3. CASE r = <<Piece(k, i, "ERROR")>>
  BY <1>1, <1>3
<1>4. CASE \E b \in BOOLEAN : r = <<Piece(k, i, "name"), Value(k, i, b), Piece(k, i, "OK")>>
  BY <1>1, <1>4
<1>5. CASE r = <<Piece(k, i, "OK")>>
  BY <1>1, <1>5
<1>6. CASE r = <<Piece(k, i, "name"), Piece(k, i, "OK")>>
  BY <1>1, <1>6
<1>7. CASE r = <<Piece(k, i, "prompt")>>
  BY <1>1, <1>7
<1>8. QED
  BY <1>2, <1>3, <1>4, <1>5, <1>6, <1>7

(* The smaller of two numbers is one of them.                                        *)
LEMMA SmallerType ==
  ASSUME NEW a \in Nat, NEW b \in Nat
  PROVE  Smaller(a, b) \in Nat /\ Smaller(a, b) <= a /\ Smaller(a, b) <= b
BY DEF Smaller

(* A part of a text is a text.                                                       *)
LEMMA PartType ==
  ASSUME NEW s \in Seq(Token), NEW m \in Nat \ {0}
  PROVE  SubSeq(s, m, Len(s)) \in Seq(Token)
<1>1. Len(s) \in Nat /\ \A i \in m..Len(s) : s[i] \in Token
  BY LenProperties, ElementOfSeq
<1>2. QED
  BY <1>1, SubSeqProperties
(* A command that ends.                                                              *)
LEMMA FinishType ==
  ASSUME TypeOK, NEW c \in Clients, NEW r \in {"true", "false", "thrown"}, Finish(c, r)
  PROVE  /\ pc' = [pc EXCEPT ![c] = "returned"] /\ pc'[c] = "returned"
         /\ ret' \in [Clients -> {"none", "true", "false", "thrown"}]
         /\ \A d \in Clients \ {c} : ret'[d] = ret[d]
BY DEF Finish, Goto, TypeOK

(* What is between the cursors, as poll and read see it.                             *)
LEMMA AvailableType ==
  ASSUME TypeOK
  PROVE  /\ Available \in Nat
         /\ Available = 0 <=> cur = end
         /\ cur <= end => Available = end - cur
BY ChannelAssumption DEF Available, TypeOK

(* A step of a command leaves the other commands and all that is about the begin of   *)
(* its own as they are.                                                              *)
LEMMA StepFrame ==
  ASSUME TypeOK, NEW c \in Clients, Step(c)
  PROVE  /\ Active(c) /\ pc[c] # "idle" /\ pc'[c] # "idle" /\ pc' \in [Clients -> Places]
         /\ UNCHANGED <<hungup, command, unsolicited, own, nextId, raced, alone, fresh>>
         /\ \A d \in Clients \ {c} :
              /\ pc'[d] = pc[d] /\ count'[d] = count[d] /\ loaded'[d] = loaded[d]
              /\ got'[d] = got[d] /\ ret'[d] = ret[d] /\ accepted'[d] = accepted[d]
<1> USE DEF TypeOK, Active, Places, lineVars, portVars, localVars, historyVars
<1>1. CASE Write(c)
  BY <1>1, ZenonT(60) DEF Write, AfterWrite, Finish, Goto
<1>2. CASE Poll(c) \/ Empty(c) \/ Read(c)
  BY <1>2 DEF Poll, Empty, Read, Goto
<1>3. CASE Select(c)
  BY <1>3 DEF Select, Finish, Goto
<1>4. CASE LoadEnd(c) \/ StoreEnd(c)
  BY <1>4 DEF LoadEnd, StoreEnd, Goto
<1>5. CASE KernelRead(c)
  BY <1>5 DEF KernelRead, Finish, Goto
<1>6. CASE Take(c) \/ Copy(c) \/ LoadCur(c)
  BY <1>6 DEF Take, Copy, LoadCur, Goto
<1>7. CASE StoreCur(c)
  BY <1>7 DEF StoreCur, AdvanceCursor, Finish, Goto
<1>8. QED
  BY <1>1, <1>2, <1>3, <1>4, <1>5, <1>6, <1>7 DEF Step, PollSteps, ReadSteps

-------------------------------------------------------------------------------
(* The channel at first.                                                             *)
LEMMA ChannelTypeInit == ChannelInit => TypeOK /\ CommandKnown
<1> SUFFICES ASSUME ChannelInit PROVE TypeOK /\ CommandKnown
  OBVIOUS
<1> USE ChannelAssumption
<1>1. Junk \in Token
  BY DEF Junk, Token, Texts
<1>2. <<>> \in Seq(Token)
  OBVIOUS
<1>3. /\ outgoing \in Seq(Token) /\ kernel \in Seq(Token)
      /\ got \in [Clients -> Seq(Token)]
  BY <1>2 DEF ChannelInit
<1>4. /\ buffer \in [1..BufferSize -> Token]
      /\ loaded \in [Clients -> Nat] /\ count \in [Clients -> Nat]
  BY <1>1 DEF ChannelInit
<1>5. /\ cur = 0 /\ end = 0 /\ hungup = FALSE /\ raced = FALSE
      /\ unsolicited = 0 /\ nextId = 1
  BY DEF ChannelInit
<1>6. /\ own \in [Clients -> 0..MaxWrites]
      /\ command \in [Clients -> AllCommands \cup {"none"}]
      /\ ret \in [Clients -> {"none", "true", "false", "thrown"}]
  BY DEF ChannelInit
<1>7. /\ alone \in [Clients -> BOOLEAN] /\ fresh \in [Clients -> BOOLEAN]
      /\ accepted \in [Clients -> BOOLEAN]
  BY DEF ChannelInit
<1>8. pc \in [Clients -> Places] /\ \A c \in Clients : pc[c] = "idle"
  BY DEF ChannelInit, Places
<1>9. /\ cur \in Nat /\ end \in Nat /\ hungup \in BOOLEAN /\ raced \in BOOLEAN
      /\ unsolicited \in 0..MaxUnsolicited /\ nextId \in 1..(MaxWrites + 1)
  <2>1. MaxUnsolicited \in Nat /\ MaxWrites \in Nat
    BY DEF ChannelAssumption
  <2>2. 0 \in Nat /\ 0 \in 0..MaxUnsolicited /\ 1 \in 1..(MaxWrites + 1)
    BY <2>1
  <2>3. QED
    BY <1>5, <2>2
<1>10. QED
  BY <1>3, <1>4, <1>6, <1>7, <1>8, <1>9 DEF TypeOK, CommandKnown

(* What ::read leaves in the buffer and on the line is text.                         *)
LEMMA KernelType ==
  ASSUME TypeOK, NEW c \in Clients, KernelRead(c)
  PROVE  /\ buffer' \in [1..BufferSize -> Token] /\ count' \in [Clients -> Nat]
         /\ kernel' \in Seq(Token)
<1>1. CASE UNCHANGED <<buffer, count, kernel>>
  BY <1>1 DEF TypeOK
<1>2. ASSUME NEW n, n = Smaller(Len(kernel), BufferSize),
             buffer' = [i \in 1..BufferSize |-> IF i <= n THEN kernel[i] ELSE buffer[i]],
             count' = [count EXCEPT ![c] = n],
             kernel' = SubSeq(kernel, n + 1, Len(kernel))
      PROVE  /\ buffer' \in [1..BufferSize -> Token] /\ count' \in [Clients -> Nat]
             /\ kernel' \in Seq(Token)
  <2>1. n \in Nat /\ n <= Len(kernel) /\ Len(kernel) \in Nat
    BY <1>2, SmallerType, LenProperties, ChannelAssumption DEF TypeOK
  <2>2. \A i \in 1..BufferSize : i <= n => kernel[i] \in Token
    BY <2>1, ElementOfSeq, ChannelAssumption DEF TypeOK
  <2>3. buffer' \in [1..BufferSize -> Token]
    BY <1>2, <2>2 DEF TypeOK
  <2>4. count' \in [Clients -> Nat]
    BY <1>2, <2>1 DEF TypeOK
  <2>5. kernel' \in Seq(Token)
    BY <1>2, <2>1, PartType, SMTT(30) DEF TypeOK
  <2>6. QED
    BY <2>3, <2>4, <2>5
<1>3. QED
  BY <1>1, <1>2 DEF KernelRead

(* What is copied out of the buffer is text.                                         *)
LEMMA CopyType ==
  ASSUME TypeOK, NEW c \in Clients, Copy(c)
  PROVE  got' \in [Clients -> Seq(Token)]
<1> DEFINE text == [i \in 1..count[c] |->
             IF loaded[c] + i <= BufferSize THEN buffer[loaded[c] + i] ELSE Junk]
<1>1. got' = [got EXCEPT ![c] = text]
  BY DEF Copy
<1>2. count[c] \in Nat /\ loaded[c] \in Nat /\ BufferSize \in Nat
  BY ChannelAssumption DEF TypeOK
<1>3. Junk \in Token
  BY ChannelAssumption DEF Junk, Token, Texts
<1>4. text \in [1..count[c] -> Token]
  BY <1>2, <1>3 DEF TypeOK
<1>5. text \in Seq(Token)
  BY <1>2, <1>4, SeqDef
<1> HIDE DEF text
<1>6. QED
  BY <1>1, <1>5 DEF TypeOK

(* A step of a command keeps the types of what it touches.                           *)
LEMMA StepTypes ==
  ASSUME TypeOK, CommandKnown, NEW c \in Clients, Step(c)
  PROVE  /\ outgoing' \in Seq(Token) /\ kernel' \in Seq(Token)
         /\ buffer' \in [1..BufferSize -> Token]
         /\ cur' \in Nat /\ end' \in Nat
         /\ loaded' \in [Clients -> Nat] /\ count' \in [Clients -> Nat]
         /\ got' \in [Clients -> Seq(Token)]
         /\ ret' \in [Clients -> {"none", "true", "false", "thrown"}]
         /\ accepted' \in [Clients -> BOOLEAN]
<1> USE DEF lineVars, portVars, localVars, historyVars
<1>1. CASE Write(c)
  <2>1. ret' \in [Clients -> {"none", "true", "false", "thrown"}]
    BY <1>1, FinishType DEF Write, AfterWrite, TypeOK
  <2>2. command[c] \in AllCommands /\ own[c] \in 0..MaxWrites
    BY <1>1 DEF Write, CommandKnown, TypeOK
  <2>3. outgoing' \in Seq(Token) /\ accepted' \in [Clients -> BOOLEAN]
    <3>1. CASE UNCHANGED <<outgoing, accepted>>
      BY <3>1 DEF TypeOK
    <3>2. ASSUME NEW r \in Replies(command[c], own[c]), outgoing' = outgoing \o r,
                 accepted' = [accepted EXCEPT ![c] = \E i \in 1..Len(r) : r[i].text = "OK"]
          PROVE  outgoing' \in Seq(Token) /\ accepted' \in [Clients -> BOOLEAN]
      <4>1. r \in Seq(Token)
        BY <2>2, ReplyType
      <4>2. outgoing' \in Seq(Token)
        BY <3>2, <4>1, ConcatProperties DEF TypeOK
      <4>3. accepted' \in [Clients -> BOOLEAN]
        BY <3>2 DEF TypeOK
      <4>4. QED
        BY <4>2, <4>3
    <3>3. QED
      BY <1>1, <3>1, <3>2 DEF Write
  <2>4. UNCHANGED <<kernel, buffer, cur, end, loaded, count, got>>
    BY <1>1 DEF Write
  <2>5. QED
    BY <2>1, <2>3, <2>4 DEF TypeOK
<1>2. CASE Poll(c) \/ Read(c)
  BY <1>2 DEF Poll, Read, TypeOK
<1>3. CASE Empty(c)
  BY <1>3 DEF Empty, TypeOK
<1>4. CASE Select(c)
  <2>1. ret' \in [Clients -> {"none", "true", "false", "thrown"}]
    BY <1>4, FinishType DEF Select, TypeOK
  <2>2. QED
    BY <1>4, <2>1 DEF Select, TypeOK
<1>5. CASE LoadEnd(c) \/ LoadCur(c)
  BY <1>5 DEF LoadEnd, LoadCur, TypeOK
<1>6. CASE StoreEnd(c)
  BY <1>6 DEF StoreEnd, TypeOK
<1>7. CASE KernelRead(c)
  <2>1. ret' \in [Clients -> {"none", "true", "false", "thrown"}]
    BY <1>7, FinishType DEF KernelRead, TypeOK
  <2>2. UNCHANGED <<outgoing, cur, end, loaded, got, accepted>>
    BY <1>7 DEF KernelRead
  <2>3. QED
    BY <1>7, <2>1, <2>2, KernelType DEF TypeOK
<1>8. CASE Take(c)
  <2>1. Available \in Nat /\ SizeOf(command[c]) \in Nat
    BY AvailableType, ChannelAssumption DEF SizeOf
  <2>2. Smaller(Available, SizeOf(command[c])) \in Nat
    BY <2>1, SmallerType
  <2>3. loaded' \in [Clients -> Nat] /\ count' \in [Clients -> Nat]
    BY <1>8, <2>2 DEF Take, TypeOK
  <2>4. QED
    BY <1>8, <2>3 DEF Take, TypeOK
<1>9. CASE Copy(c)
  BY <1>9, CopyType DEF Copy, TypeOK
<1>10. CASE StoreCur(c)
  <2>1. ret' \in [Clients -> {"none", "true", "false", "thrown"}]
    BY <1>10, FinishType DEF StoreCur, TypeOK
  <2>2. cur' \in Nat
    BY <1>10 DEF StoreCur, AdvanceCursor, TypeOK
  <2>3. QED
    BY <1>10, <2>1, <2>2 DEF StoreCur, TypeOK
<1>11. QED
  BY <1>1, <1>2, <1>3, <1>4, <1>5, <1>6, <1>7, <1>8, <1>9, <1>10
     DEF Step, PollSteps, ReadSteps

(* Every step keeps the types, and knows the command it carries out.                 *)
LEMMA ChannelTypeNext ==
  TypeOK /\ CommandKnown /\ [AnyNext]_channelVars => TypeOK' /\ CommandKnown'
<1> SUFFICES ASSUME TypeOK, CommandKnown, [AnyNext]_channelVars
             PROVE  TypeOK' /\ CommandKnown'
  OBVIOUS
<1> USE ChannelAssumption
<1>1. CASE Deliver
  <2>1. /\ Head(outgoing) \in Token /\ Tail(outgoing) \in Seq(Token)
    BY <1>1, HeadTailProperties DEF Deliver, TypeOK
  <2>2. Append(kernel, Head(outgoing)) \in Seq(Token)
    BY <2>1 DEF TypeOK
  <2>3. outgoing' \in Seq(Token) /\ kernel' \in Seq(Token)
    BY <1>1, <2>1, <2>2 DEF Deliver
  <2>4. QED
    BY <1>1, <2>3 DEF Deliver, TypeOK, CommandKnown, portVars, callVars, localVars,
       historyVars
<1>2. CASE Unsolicited
  <2>1. PICK k \in {"CPIN", "CGREG"}, b \in BOOLEAN :
          outgoing' = outgoing \o <<Piece(k, 0, "name"), Value(k, 0, b)>>
    BY <1>2 DEF Unsolicited
  <2>2. Piece(k, 0, "name") \in Token /\ Value(k, 0, b) \in Token
    BY PieceType DEF AllCommands, Asks, Texts
  <2>3. <<Piece(k, 0, "name"), Value(k, 0, b)>> \in Seq(Token)
    BY <2>2
  <2>4. outgoing' \in Seq(Token)
    BY <2>1, <2>3, ConcatProperties DEF TypeOK
  <2>5. unsolicited' \in 0..MaxUnsolicited /\ fresh' \in [Clients -> BOOLEAN]
    BY <1>2 DEF Unsolicited, TypeOK
  <2>6. QED
    BY <1>2, <2>4, <2>5 DEF Unsolicited, TypeOK, CommandKnown, portVars, callVars, localVars
<1>3. CASE HangUp
  BY <1>3 DEF HangUp, TypeOK, CommandKnown, portVars, callVars, localVars, historyVars
<1>4. ASSUME NEW c \in Clients, NEW k \in AllCommands, Begin(c, k)
      PROVE  TypeOK' /\ CommandKnown'
  <2>1. /\ pc' \in [Clients -> Places] /\ command' \in [Clients -> AllCommands \cup {"none"}]
        /\ \A d \in Clients : d # c => /\ pc'[d] = pc[d] /\ command'[d] = command[d]
                                       /\ own'[d] = own[d]
        /\ command'[c] = k /\ own'[c] # 0
    BY <1>4 DEF Begin, TypeOK, Places
  <2>2. own' \in [Clients -> 0..MaxWrites] /\ nextId' \in 1..(MaxWrites + 1)
    BY <1>4 DEF Begin, TypeOK
  <2>3. Quiet \in BOOLEAN
    BY DEF Quiet
  <2>4. fresh' \in [Clients -> BOOLEAN]
    BY <1>4, <2>3 DEF Begin, TypeOK
  <2>5. alone' \in [Clients -> BOOLEAN] /\ raced' \in BOOLEAN
    BY <1>4 DEF Begin, TypeOK, Active
  <2>6. CommandKnown'
    BY <2>1 DEF CommandKnown
  <2>7. UNCHANGED <<lineVars, portVars, localVars, got, ret, unsolicited, accepted>>
    BY <1>4 DEF Begin
  <2>8. QED
    BY <2>1, <2>2, <2>4, <2>5, <2>6, <2>7 DEF TypeOK, lineVars, portVars, localVars
<1>5. ASSUME NEW c \in Clients, Step(c)
      PROVE  TypeOK' /\ CommandKnown'
  <2>1. /\ pc' \in [Clients -> Places] /\ pc[c] # "idle"
        /\ UNCHANGED <<hungup, command, unsolicited, own, nextId, raced, alone, fresh>>
        /\ \A d \in Clients \ {c} : pc'[d] = pc[d]
    BY <1>5, StepFrame
  <2>2. CommandKnown'
    BY <2>1 DEF CommandKnown
  <2>3. QED
    BY <1>5, <2>1, <2>2, StepTypes DEF TypeOK
<1>6. ASSUME NEW c \in Clients, Return(c)
      PROVE  TypeOK' /\ CommandKnown'
  <2>1. <<>> \in Seq(Token)
    OBVIOUS
  <2>2. /\ got' \in [Clients -> Seq(Token)]
        /\ loaded' \in [Clients -> Nat] /\ count' \in [Clients -> Nat]
    BY <1>6, <2>1 DEF Return, TypeOK
  <2>3. /\ pc' \in [Clients -> Places] /\ pc'[c] = "idle"
        /\ command' \in [Clients -> AllCommands \cup {"none"}]
        /\ \A d \in Clients : d # c => /\ pc'[d] = pc[d] /\ command'[d] = command[d]
                                       /\ own'[d] = own[d]
    BY <1>6 DEF Return, Goto, TypeOK, Places
  <2>4. /\ ret' \in [Clients -> {"none", "true", "false", "thrown"}]
        /\ own' \in [Clients -> 0..MaxWrites] /\ alone' \in [Clients -> BOOLEAN]
        /\ fresh' \in [Clients -> BOOLEAN] /\ accepted' \in [Clients -> BOOLEAN]
    BY <1>6 DEF Return, TypeOK
  <2>5. UNCHANGED <<lineVars, portVars, unsolicited, nextId, raced>>
    BY <1>6 DEF Return
  <2>6. CommandKnown'
    BY <2>3 DEF CommandKnown
  <2>7. QED
    BY <2>2, <2>3, <2>4, <2>5, <2>6 DEF TypeOK, lineVars, portVars
<1>7. CASE UNCHANGED channelVars
  BY <1>7 DEF channelVars, lineVars, portVars, callVars, localVars, historyVars, TypeOK,
     CommandKnown
<1>8. QED
  BY <1>1, <1>2, <1>3, <1>4, <1>5, <1>6, <1>7 DEF AnyNext, Modem

-------------------------------------------------------------------------------
(* A client that is alone is the only one with a command under way, and on its way   *)
(* to ::read there is something to read.                                             *)
LoneInv ==
  \A c \in Clients : Active(c) /\ alone[c] =>
    /\ \A d \in Clients : Active(d) => d = c
    /\ pc[c] \in {"selected", "polled", "refilling", "blocked"} => Readable
    /\ pc[c] = "reading" => cur # end \/ Readable

(* A step of one command ends the others' being alone or leaves them what they wait   *)
(* for: nothing, as they are not under way.                                          *)
LEMMA LoneStep ==
  ASSUME TypeOK, LoneInv, NEW c \in Clients, Active(c), UNCHANGED alone,
         \A d \in Clients \ {c} : pc'[d] = pc[d],
         alone[c] /\ pc'[c] \in {"selected", "polled", "refilling", "blocked"} => Readable',
         alone[c] /\ pc'[c] = "reading" => (cur # end \/ Readable)'
  PROVE  LoneInv'
<1> SUFFICES ASSUME NEW d \in Clients, Active(d)', alone'[d]
             PROVE  (/\ \A e \in Clients : Active(e) => e = d
                     /\ pc[d] \in {"selected", "polled", "refilling", "blocked"} => Readable
                     /\ pc[d] = "reading" => cur # end \/ Readable)'
  BY DEF LoneInv
<1>1. CASE d = c
  BY <1>1 DEF LoneInv, Active
<1>2. CASE d # c
  <2>1. Active(d) /\ alone[d]
    BY <1>2 DEF Active
  <2>2. c = d
    BY <2>1 DEF LoneInv
  <2>3. QED
    BY <1>2, <2>2
<1>3. QED
  BY <1>1, <1>2

(* Text that is there stays there until the client that is alone takes it.           *)
LEMMA LoneNext ==
  TypeOK /\ LoneInv /\ [AnyNext]_channelVars => LoneInv'
<1> SUFFICES ASSUME TypeOK, LoneInv, [AnyNext]_channelVars PROVE LoneInv'
  OBVIOUS
<1>1. ASSUME Readable => Readable', UNCHANGED <<pc, alone, cur, end>>
      PROVE  LoneInv'
  <2>1. \A c \in Clients : Active(c)' <=> Active(c)
    BY <1>1 DEF Active
  <2>2. QED
    BY <1>1, <2>1 DEF LoneInv
<1>2. CASE Modem
  <2>1. CASE Deliver
    <3>1. Head(outgoing) \in Token
      BY <2>1, HeadTailProperties DEF Deliver, TypeOK
    <3>2. kernel \in Seq(Token)
      BY DEF TypeOK
    <3>3. Len(Append(kernel, Head(outgoing))) = Len(kernel) + 1 /\ Len(kernel) \in Nat
      BY <3>1, <3>2
    <3>4. Append(kernel, Head(outgoing)) # <<>>
      <4>1. SUFFICES ASSUME Append(kernel, Head(outgoing)) = <<>> PROVE FALSE
        OBVIOUS
      <4>2. Len(Append(kernel, Head(outgoing))) = 0
        BY <4>1
      <4>3. QED
        BY <3>3, <4>2
    <3>5. QED
      BY <1>1, <2>1, <3>4 DEF Deliver, Readable, portVars, callVars, historyVars
  <2>2. CASE Unsolicited \/ HangUp
    BY <1>1, <2>2 DEF Unsolicited, HangUp, Readable, portVars, callVars, historyVars
  <2>3. QED
    BY <1>2, <2>1, <2>2 DEF Modem
<1>3. ASSUME NEW c \in Clients, NEW k \in AllCommands, Begin(c, k)
      PROVE  LoneInv'
  <2>1. /\ pc[c] = "idle" /\ pc'[c] = "writing"
        /\ \A d \in Clients : d # c => pc'[d] = pc[d]
        /\ \A d \in Clients : alone'[d] =>
             IF d = c THEN \A e \in Clients \ {c} : ~Active(e) ELSE ~Active(d)
    BY <1>3 DEF Begin, TypeOK
  <2>2. QED
    BY <2>1 DEF LoneInv, Active
<1>4. ASSUME NEW c \in Clients, Step(c)
      PROVE  LoneInv'
  <2> USE DEF TypeOK, Goto, lineVars, portVars
  <2>1. /\ Active(c) /\ UNCHANGED <<alone, hungup>>
        /\ \A d \in Clients \ {c} : pc'[d] = pc[d]
    BY <1>4, StepFrame
  <2>2. CASE Write(c) \/ KernelRead(c)
    <3>1. pc'[c] \in {"polling", "filled", "returned"}
      BY <2>2 DEF Write, AfterWrite, KernelRead, Finish
    <3>2. QED
      BY <2>1, <3>1, LoneStep
  <2>3. CASE Poll(c) \/ Empty(c) \/ Read(c)
    <3>1. /\ UNCHANGED <<kernel, hungup>>
          /\ \/ pc'[c] = "reading" /\ cur # end /\ UNCHANGED <<cur, end>>
             \/ pc'[c] = "refilling" /\ pc[c] = "reading" /\ cur = end
             \/ pc'[c] = "blocked" /\ pc[c] = "refilling"
             \/ pc'[c] \in {"emptying", "selecting", "taking"}
      BY <2>3, AvailableType DEF Poll, Empty, Read
    <3>2. alone[c] /\ pc'[c] \in {"refilling", "blocked"} => Readable
      BY <2>1, <3>1 DEF LoneInv
    <3>3. Readable' <=> Readable
      BY <3>1 DEF Readable
    <3>4. QED
      BY <2>1, <3>1, <3>2, <3>3, LoneStep
  <2>4. CASE Select(c)
    <3>1. /\ pc'[c] = "returned" \/ (pc'[c] = "selected" /\ Readable)
          /\ UNCHANGED lineVars
      BY <2>4 DEF Select, Finish
    <3>2. Readable' <=> Readable
      BY <3>1 DEF Readable
    <3>3. QED
      BY <2>1, <3>1, <3>2, LoneStep
  <2>5. CASE LoadEnd(c) \/ StoreEnd(c)
    <3>1. /\ UNCHANGED <<kernel, hungup>>
          /\ \/ pc'[c] = "polled" /\ pc[c] = "selected"
             \/ pc'[c] = "reading" /\ pc[c] = "polled"
             \/ pc'[c] \in {"counting", "taking"}
      BY <2>5 DEF LoadEnd, StoreEnd
    <3>2. alone[c] /\ pc'[c] \in {"polled", "reading"} => Readable
      BY <2>1, <3>1 DEF LoneInv
    <3>3. Readable' <=> Readable
      BY <3>1 DEF Readable
    <3>4. QED
      BY <2>1, <3>1, <3>2, <3>3, LoneStep
  <2>6. CASE Take(c) \/ Copy(c) \/ LoadCur(c) \/ StoreCur(c)
    <3>1. pc'[c] \in {"copying", "copied", "advancing", "returned"}
      BY <2>6 DEF Take, Copy, LoadCur, StoreCur, Finish
    <3>2. QED
      BY <2>1, <3>1, LoneStep
  <2>7. QED
    BY <1>4, <2>2, <2>3, <2>4, <2>5, <2>6 DEF Step, PollSteps, ReadSteps
<1>5. ASSUME NEW c \in Clients, Return(c)
      PROVE  LoneInv'
  <2>1. /\ pc'[c] = "idle"
        /\ \A d \in Clients : d # c => pc'[d] = pc[d] /\ alone'[d] = alone[d]
        /\ UNCHANGED <<cur, end, kernel, hungup>>
    BY <1>5 DEF Return, Goto, TypeOK, portVars, lineVars
  <2>2. QED
    BY <2>1 DEF LoneInv, Active, Readable
<1>6. CASE UNCHANGED channelVars
  BY <1>1, <1>6 DEF channelVars, lineVars, portVars, callVars, historyVars, Readable
<1>7. QED
  BY <1>2, <1>3, <1>4, <1>5, <1>6 DEF AnyNext

-------------------------------------------------------------------------------
(* Before a command reads it has no text and its n is 0; until it copies it has none; *)
(* and what it has just read fits the buffer.                                        *)
Before == {"idle", "writing", "polling", "emptying", "selecting", "selected", "polled",
           "reading", "refilling", "blocked"}
HandsInv ==
  \A c \in Clients :
    /\ pc[c] \in Before => count[c] = 0
    /\ pc[c] \in Before \cup {"filled", "counting", "taking", "copying"} => got[c] = <<>>
    /\ Uncounted(c) => count[c] <= BufferSize

(* What a step of c does to c's own text only.                                       *)
LEMMA HandsStep ==
  ASSUME HandsInv, NEW c \in Clients,
         \A d \in Clients \ {c} : /\ pc'[d] = pc[d] /\ count'[d] = count[d]
                                  /\ got'[d] = got[d],
         pc'[c] \in Before => count'[c] = 0,
         pc'[c] \in Before \cup {"filled", "counting", "taking", "copying"} => got'[c] = <<>>,
         pc'[c] \in {"filled", "counting"} => count'[c] <= BufferSize
  PROVE  HandsInv'
BY DEF HandsInv, Uncounted

LEMMA HandsNext ==
  TypeOK /\ HandsInv /\ [AnyNext]_channelVars => HandsInv'
<1> SUFFICES ASSUME TypeOK, HandsInv, [AnyNext]_channelVars PROVE HandsInv'
  OBVIOUS
<1> USE DEF localVars
<1>1. CASE UNCHANGED <<pc, count, got>>
  BY <1>1 DEF HandsInv, Uncounted
<1>2. CASE Modem
  BY <1>1, <1>2 DEF Modem, Deliver, Unsolicited, HangUp, callVars
<1>3. ASSUME NEW c \in Clients, (\E k \in AllCommands : Begin(c, k)) \/ Return(c)
      PROVE  HandsInv'
  <2>1. /\ pc[c] \in {"idle", "returned"} /\ pc'[c] \in {"writing", "idle"}
        /\ \A d \in Clients \ {c} : /\ pc'[d] = pc[d] /\ count'[d] = count[d]
                                    /\ got'[d] = got[d]
        /\ pc[c] = "idle" \/ (count'[c] = 0 /\ got'[c] = <<>>)
        /\ pc[c] = "idle" => count'[c] = count[c] /\ got'[c] = got[c]
    BY <1>3 DEF Begin, Return, Goto, TypeOK
  <2>2. count'[c] = 0 /\ got'[c] = <<>>
    BY <2>1 DEF HandsInv, Before
  <2>3. QED
    BY <2>1, <2>2, HandsStep
<1>4. ASSUME NEW c \in Clients, Step(c)
      PROVE  HandsInv'
  <2> USE DEF TypeOK, Goto, HandsInv, Before, Uncounted
  <2>1. \A d \in Clients \ {c} : /\ pc'[d] = pc[d] /\ count'[d] = count[d]
                                 /\ got'[d] = got[d]
    BY <1>4, StepFrame
  <2>2. CASE Write(c) \/ Poll(c) \/ Empty(c) \/ Select(c) \/ Read(c)
    <3>1. /\ pc[c] \in {"writing", "polling", "emptying", "selecting", "reading", "refilling"}
          /\ UNCHANGED <<count, got>>
          /\ pc'[c] \in {"polling", "emptying", "selecting", "selected", "reading",
                         "refilling", "blocked", "taking", "returned"}
      BY <2>2 DEF Write, AfterWrite, Poll, Empty, Select, Read, Finish
    <3>2. count'[c] = 0 /\ got'[c] = <<>>
      BY <3>1
    <3>3. QED
      BY <2>1, <3>1, <3>2, HandsStep
  <2>3. CASE LoadEnd(c) \/ StoreEnd(c)
    <3>1. /\ UNCHANGED <<count, got>>
          /\ \/ pc[c] = "selected" /\ pc'[c] = "polled"
             \/ pc[c] = "filled" /\ pc'[c] = "counting"
             \/ pc[c] = "polled" /\ pc'[c] = "reading"
             \/ pc[c] = "counting" /\ pc'[c] = "taking"
      BY <2>3 DEF LoadEnd, StoreEnd
    <3>2. QED
      BY <2>1, <3>1, HandsStep
  <2>4. CASE KernelRead(c)
    <3>1. /\ pc[c] = "blocked" /\ UNCHANGED got /\ pc'[c] \in {"filled", "returned"}
          /\ count[c] = 0 /\ got[c] = <<>> /\ BufferSize \in Nat
      BY <2>4, ChannelAssumption DEF KernelRead, Finish
    <3>2. CASE count'[c] = Smaller(Len(kernel), BufferSize)
      <4>1. count'[c] <= BufferSize
        BY <3>1, <3>2, SmallerType, LenProperties
      <4>2. QED
        BY <2>1, <3>1, <4>1, HandsStep, SMTT(30)
    <3>3. CASE UNCHANGED count
      BY <2>1, <3>1, <3>3, HandsStep
    <3>4. QED
      BY <2>4, <3>2, <3>3 DEF KernelRead
  <2>5. CASE Take(c)
    <3>1. pc[c] = "taking" /\ pc'[c] = "copying" /\ UNCHANGED got
      BY <2>5 DEF Take
    <3>2. QED
      BY <2>1, <3>1, HandsStep
  <2>6. CASE Copy(c) \/ LoadCur(c) \/ StoreCur(c)
    <3>1. pc'[c] \in {"copied", "advancing", "returned"}
      BY <2>6 DEF Copy, LoadCur, StoreCur, Finish
    <3>2. QED
      BY <2>1, <3>1, HandsStep
  <2>7. QED
    BY <1>4, <2>2, <2>3, <2>4, <2>5, <2>6 DEF Step, PollSteps, ReadSteps
<1>5. QED
  BY <1>1, <1>2, <1>3, <1>4 DEF AnyNext, channelVars, callVars

-------------------------------------------------------------------------------
(* A part of a text, behind its k-th token.                                          *)
LEMMA PartOfText ==
  ASSUME NEW s, NEW k \in Nat, NEW m \in Nat, k <= m, \A i \in (k + 1)..m : s[i] \in Token
  PROVE  /\ SubSeq(s, k + 1, m) \in Seq(Token)
         /\ Len(SubSeq(s, k + 1, m)) = m - k
         /\ \A i \in 1..(m - k) : SubSeq(s, k + 1, m)[i] = s[k + i]
<1>1. PICK a \in Int : a = k + 1
  OBVIOUS
<1> DEFINE q == SubSeq(s, a, m)
<1>2. m \in Int /\ \A i \in a..m : s[i] \in Token
  BY <1>1
<1>3. /\ q \in Seq(Token)
      /\ Len(q) = IF a <= m THEN m - a + 1 ELSE 0
      /\ \A i \in 1..(m - a + 1) : q[i] = s[a + i - 1]
  BY <1>2, SubSeqProperties
<1> HIDE DEF q
<1>4. m - a + 1 = m - k /\ (IF a <= m THEN m - a + 1 ELSE 0) = m - k
  BY <1>1
<1>5. \A i \in 1..(m - k) : q[i] = s[k + i]
  <2>1. \A i \in 1..(m - k) : a + i - 1 = k + i
    BY <1>1
  <2>2. QED
    BY <1>3, <1>4, <2>1
<1>6. QED
  BY <1>1, <1>3, <1>4, <1>5 DEF q

(* What memcpy copies of the buffer b from x on.                                     *)
Copied(b, x, n) == [i \in 1..n |-> IF x + i <= BufferSize THEN b[x + i] ELSE Junk]

(* The begin and the rest of what is between two cursors of the buffer.              *)
LEMMA BufferPart ==
  ASSUME NEW b \in [1..BufferSize -> Token], NEW x \in Nat, NEW e \in Nat,
         x <= e, x = e \/ e <= BufferSize, NEW n \in Nat, n <= e - x
  PROVE  /\ Len(SubSeq(b, x + 1, e)) = e - x
         /\ SubSeq(SubSeq(b, x + 1, e), 1, n) = Copied(b, x, n)
         /\ SubSeq(SubSeq(b, x + 1, e), n + 1, e - x) = SubSeq(b, (x + n) + 1, e)
<1> DEFINE h == SubSeq(b, x + 1, e)
           a == SubSeq(h, 1, n)
           t == Copied(b, x, n)
           r == SubSeq(h, n + 1, e - x)
           u == SubSeq(b, (x + n) + 1, e)
<1>1. BufferSize \in Nat
  BY ChannelAssumption
<1>2. h \in Seq(Token) /\ Len(h) = e - x /\ \A i \in 1..(e - x) : h[i] = b[x + i]
  <2>1. \A i \in (x + 1)..e : b[i] \in Token
    BY <1>1
  <2>2. QED
    BY <2>1, PartOfText
<1>3. \A i \in 1..(e - x) : h[i] \in Token
  BY <1>2, ElementOfSeq
<1> HIDE DEF h
<1>4. a \in Seq(Token) /\ Len(a) = n /\ \A i \in 1..n : a[i] = h[i]
  <2>1. \A i \in 1..n : h[i] \in Token
    BY <1>3
  <2>2. 1 \in Int /\ n \in Int /\ n - 1 + 1 = n /\ \A i \in 1..n : 1 + i - 1 = i
    OBVIOUS
  <2>3. QED
    BY <2>1, <2>2, SubSeqProperties
<1>5. t \in Seq(Token) /\ Len(t) = n /\ \A i \in 1..n : t[i] = b[x + i]
  <2>1. \A i \in 1..n : x + i <= BufferSize /\ b[x + i] \in Token
    BY <1>1
  <2>2. t \in [1..n -> Token] /\ \A i \in 1..n : t[i] = b[x + i]
    BY <2>1 DEF Copied
  <2> HIDE DEF t
  <2>3. QED
    BY <2>2, SeqDef
<1>6. r \in Seq(Token) /\ Len(r) = (e - x) - n /\ \A i \in 1..((e - x) - n) : r[i] = h[n + i]
  <2>1. e - x \in Nat /\ \A i \in (n + 1)..(e - x) : h[i] \in Token
    BY <1>3
  <2>2. QED
    BY <2>1, PartOfText
<1>7. u \in Seq(Token) /\ Len(u) = (e - x) - n /\ \A i \in 1..((e - x) - n) : u[i] = b[x + n + i]
  <2>1. \A i \in ((x + n) + 1)..e : b[i] \in Token
    BY <1>1
  <2>2. PICK k \in Nat : k = x + n
    OBVIOUS
  <2>3. k <= e /\ e - k = (e - x) - n /\ \A i \in (k + 1)..e : b[i] \in Token
    BY <2>1, <2>2
  <2>4. /\ SubSeq(b, k + 1, e) \in Seq(Token)
        /\ Len(SubSeq(b, k + 1, e)) = e - k
        /\ \A i \in 1..(e - k) : SubSeq(b, k + 1, e)[i] = b[k + i]
    BY <2>3, PartOfText
  <2>5. QED
    BY <2>2, <2>3, <2>4
<1> HIDE DEF a, t, r, u
<1>8. a = t
  <2>1. \A i \in 1..n : i \in 1..(e - x)
    OBVIOUS
  <2>2. \A i \in 1..n : a[i] = t[i]
    BY <1>2, <1>4, <1>5, <2>1
  <2>3. QED
    BY <1>4, <1>5, <2>2, SeqEqual
<1>9. r = u
  <2>1. \A i \in 1..((e - x) - n) : n + i \in 1..(e - x) /\ x + (n + i) = x + n + i
    OBVIOUS
  <2>2. \A i \in 1..((e - x) - n) : r[i] = u[i]
    BY <1>2, <1>6, <1>7, <2>1
  <2>3. QED
    BY <1>6, <1>7, <2>2, SeqEqual
<1>10. QED
  BY <1>2, <1>8, <1>9 DEF h, a, t, r, u
-------------------------------------------------------------------------------
(* The cursors of a port that nobody raced for, or that a command found empty: _cur   *)
(* is not past _end, and _end not past the buffer.  What a command has loaded and     *)
(* copied is what lies between them.                                                 *)
Ordered == cur <= end /\ (cur = end \/ end <= BufferSize)
Sane(c) == alone[c] /\ (fresh[c] \/ ~raced)

CursorAt(c) ==
  /\ Active(c) => Ordered
  /\ pc[c] \in {"emptying", "refilling"} => cur = end
  /\ pc[c] \in {"selecting", "selected", "polled", "blocked", "filled", "counting"}
       => cur = 0 /\ end = 0
  /\ pc[c] \in {"polled", "counting"} => loaded[c] = 0
  /\ pc[c] \in {"copying", "copied", "advancing"}
       => loaded[c] = cur /\ count[c] <= end - cur
  /\ pc[c] \in {"copied", "advancing"} => got[c] = SubSeq(Held, 1, count[c])

CursorInv ==
  /\ ~raced => Ordered /\ \A c \in Clients : alone[c]
  /\ \A c \in Clients : Sane(c) => CursorAt(c)

(* A step of one command: the others that are alone are not under way.               *)
LEMMA CursorStep ==
  ASSUME TypeOK, LoneInv, CursorInv, NEW c \in Clients, Step(c),
         Sane(c) => Ordered' /\ CursorAt(c)'
  PROVE  CursorInv'
<1>1. /\ Active(c) /\ UNCHANGED <<raced, alone, fresh>>
      /\ \A d \in Clients \ {c} : pc'[d] = pc[d]
  BY StepFrame
<1>2. ~raced => Ordered' /\ \A d \in Clients : alone[d]
  BY <1>1 DEF CursorInv, Sane
<1>3. ASSUME NEW d \in Clients, Sane(d)', d # c
      PROVE  CursorAt(d)'
  <2>1. alone[d] /\ pc'[d] = pc[d]
    BY <1>1, <1>3 DEF Sane
  <2>2. pc'[d] \in {"idle", "returned"}
    BY <1>1, <1>3, <2>1 DEF LoneInv, Active
  <2>3. QED
    BY <2>2 DEF CursorAt, Active
<1>4. Sane(c)' => Sane(c)
  BY <1>1 DEF Sane
<1>5. QED
  BY <1>1, <1>2, <1>3, <1>4 DEF CursorInv

(* What a command copies is the text between the cursors it took.                    *)
LEMMA CopyIsHeld ==
  ASSUME TypeOK, NEW c \in Clients, Copy(c), Ordered,
         loaded[c] = cur, count[c] <= end - cur
  PROVE  got'[c] = SubSeq(Held, 1, count[c])
<1>1. got'[c] = Copied(buffer, cur, count[c])
  BY DEF Copy, TypeOK, Copied
<1>2. /\ buffer \in [1..BufferSize -> Token] /\ cur \in Nat /\ end \in Nat
      /\ count[c] \in Nat /\ cur <= end /\ (cur = end \/ end <= BufferSize)
  BY DEF TypeOK, Ordered
<1>3. SubSeq(SubSeq(buffer, cur + 1, end), 1, count[c]) = Copied(buffer, cur, count[c])
  BY <1>2, BufferPart, ZenonT(60)
<1>4. QED
  BY <1>1, <1>3 DEF Held

LEMMA CursorNext ==
  ASSUME TypeOK, LoneInv, HandsInv, CursorInv, [AnyNext]_channelVars
  PROVE  CursorInv'
<1>1. ASSUME UNCHANGED <<callVars, portVars, raced, alone>>,
             \A c \in Clients : fresh'[c] => fresh[c]
      PROVE  CursorInv'
  <2>1. \A c \in Clients : CursorAt(c)' <=> CursorAt(c)
    BY <1>1 DEF CursorAt, Ordered, Active, Held, callVars, portVars, localVars
  <2>2. /\ Ordered' <=> Ordered
        /\ \A c \in Clients : Sane(c)' => Sane(c)
    BY <1>1 DEF Ordered, Sane, portVars
  <2>3. QED
    BY <1>1, <2>1, <2>2 DEF CursorInv
<1>2. CASE Modem \/ UNCHANGED channelVars
  BY <1>1, <1>2 DEF Modem, Deliver, Unsolicited, HangUp, channelVars, historyVars
<1>3. ASSUME NEW c \in Clients, NEW k \in AllCommands, Begin(c, k)
      PROVE  CursorInv'
  <2>1. /\ pc'[c] = "writing" /\ \A d \in Clients \ {c} : pc'[d] = pc[d]
        /\ UNCHANGED <<cur, end>>
        /\ raced' = (raced \/ \E d \in Clients \ {c} : Active(d))
        /\ alone'[c] = \A e \in Clients \ {c} : ~Active(e)
        /\ \A d \in Clients \ {c} : alone'[d] = (alone[d] /\ ~Active(d))
        /\ fresh'[c] => Quiet
    BY <1>3 DEF Begin, TypeOK, portVars
  <2>2. ~raced' => Ordered' /\ \A d \in Clients : alone'[d]
    BY <2>1 DEF CursorInv, Ordered
  <2>3. ASSUME NEW d \in Clients, Sane(d)', d # c
        PROVE  CursorAt(d)'
    <3>1. pc'[d] \in {"idle", "returned"}
      BY <2>1, <2>3 DEF Sane, Active
    <3>2. QED
      BY <3>1 DEF CursorAt, Active
  <2>4. ASSUME Sane(c)'
        PROVE  CursorAt(c)'
    <3>1. Ordered'
      <4>1. cur \in Nat /\ end \in Nat
        BY DEF TypeOK
      <4>2. Quiet => Ordered'
        BY <2>1, <4>1 DEF Quiet, Ordered
      <4>3. QED
        BY <2>1, <2>2, <2>4, <4>2 DEF Sane
    <3>2. QED
      BY <2>1, <3>1 DEF CursorAt
  <2>5. QED
    BY <2>2, <2>3, <2>4 DEF CursorInv
<1>4. ASSUME NEW c \in Clients, Return(c)
      PROVE  CursorInv'
  <2>1. /\ pc'[c] = "idle" /\ alone'[c] /\ UNCHANGED <<cur, end, buffer, raced>>
        /\ \A d \in Clients \ {c} :
             /\ pc'[d] = pc[d] /\ loaded'[d] = loaded[d] /\ count'[d] = count[d]
             /\ got'[d] = got[d] /\ alone'[d] = alone[d] /\ fresh'[d] = fresh[d]
    BY <1>4 DEF Return, Goto, TypeOK, portVars
  <2>2. ~raced' => Ordered' /\ \A d \in Clients : alone'[d]
    BY <2>1 DEF CursorInv, Ordered
  <2>3. ASSUME NEW d \in Clients, Sane(d)', d # c
        PROVE  CursorAt(d)'
    <3>1. Sane(d)
      BY <2>1, <2>3 DEF Sane
    <3>2. CursorAt(d)
      BY <3>1 DEF CursorInv
    <3>3. QED
      BY <2>1, <2>3, <3>2 DEF CursorAt, Active, Ordered, Held
  <2>4. CursorAt(c)'
    BY <2>1 DEF CursorAt, Active
  <2>5. QED
    BY <2>2, <2>3, <2>4 DEF CursorInv
<1>5. ASSUME NEW c \in Clients, Step(c), Sane(c)
      PROVE  Ordered' /\ CursorAt(c)'
  <2>1. CursorAt(c)
    BY <1>5 DEF CursorInv
  <2>2. /\ Active(c) /\ pc[c] \in Places /\ pc'[c] \in Places
        /\ cur \in Nat /\ end \in Nat /\ loaded[c] \in Nat /\ count[c] \in Nat
        /\ BufferSize \in Nat
        /\ Ordered
    BY <1>5, <2>1, StepFrame, ChannelAssumption DEF TypeOK, CursorAt
  <2> USE DEF Goto, TypeOK, lineVars, portVars, localVars, historyVars
  <2>3. CASE Write(c)
    <3>1. pc'[c] \in {"polling", "returned"} /\ UNCHANGED <<cur, end>>
      BY <2>3 DEF Write, AfterWrite, Finish
    <3>2. QED
      BY <2>2, <3>1 DEF CursorAt, Ordered
  <2>4. CASE Poll(c) \/ Read(c)
    <3>1. /\ UNCHANGED <<cur, end>>
          /\ pc'[c] \in {"reading", "taking"} \/ (pc'[c] \in {"emptying", "refilling"} /\ cur = end)
      BY <2>4, AvailableType DEF Poll, Read
    <3>2. QED
      BY <2>2, <3>1 DEF CursorAt, Ordered
  <2>5. CASE Empty(c)
    <3>1. cur' = 0 /\ end' = 0 /\ pc'[c] \in {"selecting", "blocked"}
      BY <2>5 DEF Empty
    <3>2. QED
      BY <2>2, <3>1 DEF CursorAt, Ordered
  <2>6. CASE Select(c) \/ KernelRead(c)
    <3>1. /\ pc[c] \in {"selecting", "blocked"} /\ UNCHANGED <<cur, end>>
          /\ pc'[c] \in {"selected", "filled", "returned"}
      BY <2>6 DEF Select, KernelRead, Finish
    <3>2. QED
      BY <2>1, <2>2, <3>1 DEF CursorAt, Ordered
  <2>7. CASE LoadEnd(c)
    <3>1. /\ pc[c] \in {"selected", "filled"} /\ pc'[c] \in {"polled", "counting"}
          /\ loaded'[c] = end /\ UNCHANGED <<cur, end>>
      BY <2>7 DEF LoadEnd
    <3>2. QED
      BY <2>1, <2>2, <3>1 DEF CursorAt, Ordered
  <2>8. CASE StoreEnd(c)
    <3>1. \/ pc[c] = "polled" /\ pc'[c] = "reading"
          \/ pc[c] = "counting" /\ pc'[c] = "taking"
      BY <2>8 DEF StoreEnd
    <3>2. cur = 0 /\ cur' = 0 /\ end' = count[c]
      BY <2>1, <2>2, <2>8, <3>1 DEF StoreEnd, CursorAt
    <3>3. count[c] = 0 \/ count[c] <= BufferSize
      BY <3>1 DEF HandsInv, Before, Uncounted
    <3>4. Ordered'
      BY <2>2, <3>2, <3>3 DEF Ordered
    <3>5. QED
      BY <3>1, <3>4 DEF CursorAt
  <2>9. CASE Take(c)
    <3>1. /\ pc'[c] = "copying" /\ UNCHANGED <<cur, end>> /\ loaded'[c] = cur
          /\ count'[c] = Smaller(Available, SizeOf(command[c]))
      BY <2>9 DEF Take
    <3>2. Available = end - cur /\ Available \in Nat /\ SizeOf(command[c]) \in Nat
      BY <2>2, AvailableType, ChannelAssumption DEF Ordered, SizeOf
    <3>3. count'[c] <= end - cur
      BY <3>1, <3>2, SmallerType
    <3>4. QED
      BY <2>2, <3>1, <3>3 DEF CursorAt, Ordered
  <2>10. CASE Copy(c)
    <3>1. /\ pc[c] = "copying" /\ pc'[c] = "copied"
          /\ UNCHANGED <<cur, end, buffer, loaded, count>>
      BY <2>10 DEF Copy
    <3>2. loaded[c] = cur /\ count[c] <= end - cur
      BY <2>1, <3>1 DEF CursorAt
    <3>3. got'[c] = SubSeq(Held, 1, count[c])
      BY <2>2, <2>10, <3>2, CopyIsHeld
    <3>4. got'[c] = SubSeq(Held', 1, count'[c])
      BY <3>1, <3>3 DEF Held
    <3>5. QED
      BY <2>2, <3>1, <3>2, <3>4 DEF CursorAt, Ordered
  <2>11. CASE LoadCur(c)
    <3>1. /\ pc[c] = "copied" /\ pc'[c] = "advancing" /\ loaded'[c] = cur
          /\ UNCHANGED <<cur, end, buffer, count, got>>
      BY <2>11 DEF LoadCur
    <3>2. count[c] <= end - cur /\ got[c] = SubSeq(Held, 1, count[c])
      BY <2>1, <3>1 DEF CursorAt
    <3>3. QED
      BY <2>2, <3>1, <3>2 DEF CursorAt, Ordered, Held
  <2>12. CASE StoreCur(c)
    <3>1. /\ pc[c] = "advancing" /\ pc'[c] = "returned" /\ UNCHANGED end
          /\ cur' = loaded[c] + count[c]
      BY <2>12 DEF StoreCur, AdvanceCursor, Finish
    <3>2. loaded[c] = cur /\ count[c] <= end - cur
      BY <2>1, <3>1 DEF CursorAt
    <3>3. Ordered'
      BY <2>2, <3>1, <3>2 DEF Ordered
    <3>4. QED
      BY <3>1, <3>3 DEF CursorAt
  <2>13. QED
    BY <1>5, <2>3, <2>4, <2>5, <2>6, <2>7, <2>8, <2>9, <2>10, <2>11, <2>12
       DEF Step, PollSteps, ReadSteps
<1>6. ASSUME NEW c \in Clients, Step(c)
      PROVE  CursorInv'
  BY <1>5, <1>6, CursorStep
<1>7. QED
  BY <1>2, <1>3, <1>4, <1>6 DEF AnyNext

(* Three texts can be joined in any order.                                               *)
Joined(s, t, u) == (s \o t) \o u = s \o (t \o u)

LEMMA JoinedTexts ==
  ASSUME NEW s \in Seq(Token), NEW t \in Seq(Token), NEW u \in Seq(Token)
  PROVE  Joined(s, t, u)
BY ConcatAssociative DEF Joined

(* The rest of a text.                                                               *)
LEMMA TailPart ==
  ASSUME NEW s \in Seq(Token), NEW n \in Nat, n <= Len(s)
  PROVE  /\ SubSeq(s, n + 1, Len(s)) \in Seq(Token)
         /\ Len(SubSeq(s, n + 1, Len(s))) = Len(s) - n
         /\ \A i \in 1..(Len(s) - n) : SubSeq(s, n + 1, Len(s))[i] = s[n + i]
<1>1. PICK m \in Nat : m = Len(s)
  BY LenProperties
<1>2. \A i \in (n + 1)..m : s[i] \in Token
  BY <1>1, ElementOfSeq
<1>3. /\ SubSeq(s, n + 1, m) \in Seq(Token)
      /\ Len(SubSeq(s, n + 1, m)) = m - n
      /\ \A i \in 1..(m - n) : SubSeq(s, n + 1, m)[i] = s[n + i]
  BY <1>1, <1>2, PartOfText
<1>4. QED
  BY <1>1, <1>3

(* Parts of a text of which the begin was taken.                                     *)
LEMMA SplitText ==
  ASSUME NEW h \in Seq(Token), NEW rest \in Seq(Token), NEW n \in 0..Len(h)
  PROVE  /\ SubSeq(h \o rest, 1, n) = SubSeq(h, 1, n)
         /\ SubSeq(h \o rest, n + 1, Len(h \o rest)) = SubSeq(h, n + 1, Len(h)) \o rest
         /\ n <= Len(h \o rest)
<1> DEFINE x == h \o rest
           a == SubSeq(x, 1, n)
           b == SubSeq(x, n + 1, Len(x))
           t == SubSeq(h, n + 1, Len(h))
<1>1. /\ x \in Seq(Token) /\ Len(x) = Len(h) + Len(rest)
      /\ Len(h) \in Nat /\ Len(rest) \in Nat /\ n \in Nat /\ n <= Len(h)
      /\ \A i \in 1..Len(h) + Len(rest) :
           x[i] = IF i <= Len(h) THEN h[i] ELSE rest[i - Len(h)]
  BY ConcatProperties, LenProperties
<1>2. /\ \A i \in 1..Len(h) : h[i] \in Token
      /\ \A i \in 1..Len(x) : x[i] \in Token
  BY <1>1, ElementOfSeq
<1> HIDE DEF x
<1>3. a = SubSeq(h, 1, n)
  <2>1. /\ a \in Seq(Token) /\ Len(a) = n /\ \A i \in 1..n : a[i] = x[i]
    <3>1. \A i \in 1..n : x[i] \in Token
      BY <1>1, <1>2
    <3>2. 1 \in Int /\ n \in Int /\ n - 1 + 1 = n /\ \A i \in 1..n : 1 + i - 1 = i
      BY <1>1
    <3>3. QED
      BY <1>1, <3>1, <3>2, SubSeqProperties
  <2>2. /\ SubSeq(h, 1, n) \in Seq(Token) /\ Len(SubSeq(h, 1, n)) = n
        /\ \A i \in 1..n : SubSeq(h, 1, n)[i] = h[i]
    <3>1. \A i \in 1..n : h[i] \in Token
      BY <1>1, <1>2
    <3>2. 1 \in Int /\ n \in Int /\ n - 1 + 1 = n /\ \A i \in 1..n : 1 + i - 1 = i
      BY <1>1
    <3>3. QED
      BY <1>1, <3>1, <3>2, SubSeqProperties
  <2>3. \A i \in 1..n : x[i] = h[i]
    BY <1>1
  <2> HIDE DEF a
  <2>4. QED
    BY <2>1, <2>2, <2>3, SeqEqual
<1>4. b = t \o rest
  <2>1. /\ b \in Seq(Token) /\ Len(b) = Len(x) - n
        /\ \A i \in 1..(Len(x) - n) : b[i] = x[n + i]
    <3>1. n <= Len(x)
      BY <1>1
    <3>2. QED
      BY <1>1, <3>1, TailPart
  <2>2. /\ t \in Seq(Token) /\ Len(t) = Len(h) - n
        /\ \A i \in 1..(Len(h) - n) : t[i] = h[n + i]
    <3>1. n <= Len(h)
      BY <1>1
    <3>2. QED
      BY <1>1, <3>1, TailPart
  <2> HIDE DEF b, t
  <2>3. /\ t \o rest \in Seq(Token) /\ Len(t \o rest) = Len(b)
        /\ \A i \in 1..Len(b) : (t \o rest)[i] =
             IF i <= Len(t) THEN t[i] ELSE rest[i - Len(t)]
    <3>1. Len(t) + Len(rest) = Len(b)
      BY <1>1, <2>1, <2>2
    <3>2. QED
      BY <2>2, <3>1, ConcatProperties
  <2>4. ASSUME NEW i \in 1..Len(b)
        PROVE  b[i] = (t \o rest)[i]
    <3>1. b[i] = x[n + i] /\ n + i \in 1..Len(h) + Len(rest)
      BY <1>1, <2>1
    <3>2. CASE n + i <= Len(h)
      BY <1>1, <2>2, <2>3, <3>1, <3>2
    <3>3. CASE ~(n + i <= Len(h))
      <4>1. ~(i <= Len(t)) /\ (n + i) - Len(h) = i - Len(t)
        BY <1>1, <2>1, <2>2, <3>3
      <4>2. QED
        BY <1>1, <2>3, <3>1, <3>3, <4>1, SMTT(30)
    <3>4. QED
      BY <3>2, <3>3
  <2>5. QED
    BY <2>1, <2>3, <2>4, SeqEqual
<1>5. n <= Len(x)
  BY <1>1, SMTT(30)
<1>6. QED
  BY <1>3, <1>4, <1>5 DEF x

-------------------------------------------------------------------------------
(* What is on its way to the port.                                                   *)
Line == kernel \o outgoing

(* Prompts, and after them at most the begin of one answer to the command k with the  *)
(* number i: its value follows its name and its OK ends it; ok says there is one.     *)
AnswerText(k, i, ok, s) ==
  \A j \in 1..Len(s) :
    /\ s[j].text = "prompt" \/ (s[j].id = i /\ s[j].cmd = k)
    /\ s[j].text \in {"name", "OK"} => ok
    /\ s[j].text = "OK" => j = Len(s)
    /\ k \in Asks /\ s[j].text = "OK" => \E l \in 1..Len(s) : s[l].text = "name"
    /\ k \in Asks /\ s[j].text = "name" /\ j < Len(s) => s[j + 1].text = "value"

(* No text is an answer to anything, and the begin of an answer is one.               *)
LEMMA NoText ==
  ASSUME NEW k, NEW i, NEW ok
  PROVE  AnswerText(k, i, ok, <<>>)
BY DEF AnswerText

LEMMA AnswerBegin ==
  ASSUME NEW k, NEW i, NEW ok, NEW s \in Seq(Token), AnswerText(k, i, ok, s),
         NEW n \in Nat, n <= Len(s), NEW t \in [1..n -> Token],
         \A j \in 1..n : t[j] = s[j]
  PROVE  AnswerText(k, i, ok, t)
<1>1. Len(t) = n /\ Len(s) \in Nat
  BY LenProperties
<1>2. SUFFICES ASSUME NEW j \in 1..n
               PROVE  /\ t[j].text = "prompt" \/ (t[j].id = i /\ t[j].cmd = k)
                      /\ t[j].text \in {"name", "OK"} => ok
                      /\ t[j].text = "OK" => j = n
                      /\ k \in Asks /\ t[j].text = "OK"
                           => \E l \in 1..n : t[l].text = "name"
                      /\ k \in Asks /\ t[j].text = "name" /\ j < n
                           => t[j + 1].text = "value"
  BY <1>1 DEF AnswerText
<1>3. j \in 1..Len(s) /\ t[j] = s[j]
  BY <1>1
<1>4. /\ s[j].text = "prompt" \/ (s[j].id = i /\ s[j].cmd = k)
      /\ s[j].text \in {"name", "OK"} => ok
      /\ s[j].text = "OK" => j = Len(s)
      /\ k \in Asks /\ s[j].text = "OK" => \E l \in 1..Len(s) : s[l].text = "name"
      /\ k \in Asks /\ s[j].text = "name" /\ j < Len(s) => s[j + 1].text = "value"
  BY <1>3 DEF AnswerText
<1>5. t[j].text = "OK" => n = Len(s)
  BY <1>1, <1>3, <1>4
<1>6. j < n => j + 1 \in 1..n /\ t[j + 1] = s[j + 1] /\ j < Len(s)
  BY <1>1
<1>7. QED
  BY <1>1, <1>3, <1>4, <1>5, <1>6

(* The texts of a reply, by its command.                                             *)
LEMMA ReplyTexts ==
  ASSUME NEW k \in AllCommands, NEW i \in 0..MaxWrites, NEW r \in Replies(k, i)
  PROVE  /\ r \in Seq(Token) /\ Len(r) \in 1..3
         /\ \A j \in 1..Len(r) : r[j].id = i /\ r[j].cmd = k
         /\ \/ Len(r) = 1 /\ r[1].text = "ERROR"
            \/ Len(r) = 1 /\ r[1].text = "OK" /\ k \notin Asks
            \/ Len(r) = 1 /\ r[1].text = "prompt"
            \/ Len(r) = 2 /\ r[1].text = "name" /\ r[2].text = "OK" /\ k \notin Asks
            \/ /\ Len(r) = 3
               /\ r[1].text = "name" /\ r[2].text = "value" /\ r[3].text = "OK"
<1>1. \A text \in Texts : Piece(k, i, text) = [id |-> i, cmd |-> k, text |-> text, good |-> FALSE]
  BY DEF Piece
<1>2. \A b \in BOOLEAN : Value(k, i, b) = [id |-> i, cmd |-> k, text |-> "value", good |-> b]
  BY DEF Value, Piece
<1>3. r \in Seq(Token)
  BY ReplyType
<1>4. \/ r = <<Piece(k, i, "ERROR")>>
      \/ \E b \in BOOLEAN : r = <<Piece(k, i, "name"), Value(k, i, b), Piece(k, i, "OK")>>
      \/ r = <<Piece(k, i, "OK")>> /\ k \notin Asks
      \/ r = <<Piece(k, i, "name"), Piece(k, i, "OK")>> /\ k \notin Asks
      \/ r = <<Piece(k, i, "prompt")>>
  BY DEF Replies, AllCommands, Asks, Sets, Reports
<1>5. CASE r = <<Piece(k, i, "ERROR")>>
  BY <1>1, <1>3, <1>5 DEF Texts
<1>6. CASE \E b \in BOOLEAN : r = <<Piece(k, i, "name"), Value(k, i, b), Piece(k, i, "OK")>>
  BY <1>1, <1>2, <1>3, <1>6 DEF Texts
<1>7. CASE r = <<Piece(k, i, "OK")>> /\ k \notin Asks
  BY <1>1, <1>3, <1>7 DEF Texts
<1>8. CASE r = <<Piece(k, i, "name"), Piece(k, i, "OK")>> /\ k \notin Asks
  BY <1>1, <1>3, <1>8 DEF Texts
<1>9. CASE r = <<Piece(k, i, "prompt")>>
  BY <1>1, <1>3, <1>9 DEF Texts
<1>10. QED
  BY <1>4, <1>5, <1>6, <1>7, <1>8, <1>9

(* Prompts and a reply after them are an answer.                                     *)
LEMMA ReplyIsAnswer ==
  ASSUME NEW k \in AllCommands, NEW i \in 0..MaxWrites, NEW r \in Replies(k, i),
         NEW s \in Seq(Token), OnlyPrompts(s)
  PROVE  AnswerText(k, i, \E j \in 1..Len(r) : r[j].text = "OK", s \o r)
<1> DEFINE ok == \E j \in 1..Len(r) : r[j].text = "OK"
           t == s \o r
<1>1. /\ r \in Seq(Token) /\ Len(r) \in 1..3 /\ Len(s) \in Nat
      /\ \A j \in 1..Len(r) : r[j].id = i /\ r[j].cmd = k
  BY ReplyTexts, LenProperties
<1>2. /\ Len(t) = Len(s) + Len(r)
      /\ \A j \in 1..Len(s) : t[j].text = "prompt"
      /\ \A j \in 1..Len(r) : t[Len(s) + j] = r[j]
  BY <1>1, ConcatProperties DEF OnlyPrompts
<1>3. \/ Len(r) = 1 /\ r[1].text = "ERROR"
      \/ Len(r) = 1 /\ r[1].text = "OK" /\ k \notin Asks
      \/ Len(r) = 1 /\ r[1].text = "prompt"
      \/ Len(r) = 2 /\ r[1].text = "name" /\ r[2].text = "OK" /\ k \notin Asks
      \/ /\ Len(r) = 3
         /\ r[1].text = "name" /\ r[2].text = "value" /\ r[3].text = "OK"
  BY ReplyTexts
<1> HIDE DEF t
<1>4. SUFFICES ASSUME NEW j \in 1..Len(t)
               PROVE  /\ t[j].text = "prompt" \/ (t[j].id = i /\ t[j].cmd = k)
                      /\ t[j].text \in {"name", "OK"} => ok
                      /\ t[j].text = "OK" => j = Len(t)
                      /\ k \in Asks /\ t[j].text = "OK"
                           => \E l \in 1..Len(t) : t[l].text = "name"
                      /\ k \in Asks /\ t[j].text = "name" /\ j < Len(t)
                           => t[j + 1].text = "value"
  BY DEF AnswerText, t
<1>5. CASE j \in 1..Len(s)
  BY <1>2, <1>5
<1>6. ASSUME NEW l \in 1..Len(r), j = Len(s) + l
      PROVE  /\ t[j].text = "prompt" \/ (t[j].id = i /\ t[j].cmd = k)
             /\ t[j].text \in {"name", "OK"} => ok
             /\ t[j].text = "OK" => j = Len(t)
             /\ k \in Asks /\ t[j].text = "OK" => \E m \in 1..Len(t) : t[m].text = "name"
             /\ k \in Asks /\ t[j].text = "name" /\ j < Len(t) => t[j + 1].text = "value"
  <2>1. t[j] = r[l] /\ t[j].id = i /\ t[j].cmd = k
    BY <1>1, <1>2, <1>6
  <2>2. CASE Len(r) = 1
    BY <1>1, <1>2, <1>3, <1>6, <2>1, <2>2
  <2>3. CASE Len(r) = 2
    BY <1>1, <1>2, <1>3, <1>6, <2>1, <2>3
  <2>4. CASE Len(r) = 3
    <3>1. t[Len(s) + 1].text = "name" /\ t[Len(s) + 2].text = "value" /\ ok
      BY <1>2, <1>3, <2>4
    <3>2. l \in {1, 2, 3} /\ j \in {Len(s) + 1, Len(s) + 2, Len(s) + 3}
      BY <1>1, <1>6, <2>4
    <3>3. Len(s) + 1 \in 1..Len(t)
      BY <1>1, <1>2, <2>4
    <3>4. t[j].text = "OK" => l = 3
      BY <1>3, <2>1, <2>4, <3>2
    <3>5. t[j].text = "name" => l = 1
      BY <1>3, <2>1, <2>4, <3>2
    <3>6. QED
      BY <1>1, <1>2, <1>6, <2>1, <2>4, <3>1, <3>3, <3>4, <3>5, SMTT(30)
  <2>5. QED
    BY <1>1, <2>2, <2>3, <2>4
<1>7. QED
  <2>1. j \in 1..Len(s) \/ (j - Len(s) \in 1..Len(r) /\ j = Len(s) + (j - Len(s)))
    BY <1>1, <1>2
  <2>2. QED
    BY <1>5, <1>6, <2>1

-------------------------------------------------------------------------------
(* Delivering text leaves what is on its way as it is.                               *)
LEMMA LineKept ==
  ASSUME TypeOK, Deliver
  PROVE  Line' = Line
<1>1. /\ kernel \in Seq(Token) /\ outgoing \in Seq(Token) /\ outgoing # <<>>
      /\ kernel' = Append(kernel, Head(outgoing)) /\ outgoing' = Tail(outgoing)
  BY DEF Deliver, TypeOK
<1>2. /\ Head(outgoing) \in Token /\ Tail(outgoing) \in Seq(Token)
      /\ <<Head(outgoing)>> \in Seq(Token)
  BY <1>1, HeadTailProperties
<1>3. <<Head(outgoing)>> \o Tail(outgoing) = outgoing
  <2> DEFINE t == <<Head(outgoing)>> \o Tail(outgoing)
  <2>1. /\ Len(Tail(outgoing)) = Len(outgoing) - 1 /\ Len(outgoing) \in Nat
        /\ \A i \in 1..Len(Tail(outgoing)) : Tail(outgoing)[i] = outgoing[i + 1]
    BY <1>1, HeadTailProperties, LenProperties
  <2>2. Head(outgoing) = outgoing[1]
    BY <1>1
  <2>3. Len(outgoing) # 0
    BY <1>1, EmptySeq
  <2>4. /\ t \in Seq(Token) /\ Len(t) = 1 + Len(Tail(outgoing))
        /\ \A i \in 1..Len(outgoing) :
             t[i] = IF i <= 1 THEN Head(outgoing) ELSE Tail(outgoing)[i - 1]
    BY <1>2, <2>1, <2>3, ConcatProperties
  <2>5. \A i \in 1..Len(outgoing) : t[i] = outgoing[i]
    BY <2>1, <2>2, <2>4
  <2>6. Len(t) = Len(outgoing)
    BY <2>1, <2>4
  <2> HIDE DEF t
  <2>7. t = outgoing
    BY <1>1, <2>4, <2>5, <2>6, SeqEqual
  <2>8. QED
    BY <2>7 DEF t
<1>4. Append(kernel, Head(outgoing)) = kernel \o <<Head(outgoing)>>
  BY <1>1, <1>2, AppendIsConcat
<1>5. (kernel \o <<Head(outgoing)>>) \o Tail(outgoing)
        = kernel \o (<<Head(outgoing)>> \o Tail(outgoing))
  BY <1>1, <1>2, ConcatAssociative
<1>6. QED
  BY <1>1, <1>3, <1>4, <1>5 DEF Line

(* A command that is alone and fresh begins with an empty buffer and prompts on the   *)
(* line; then its own answer is added to the line, read into the buffer, and copied.  *)
OwnText(c, s) == AnswerText(command[c], own[c], accepted[c], s)
InBuffer(n) == [j \in 1..n |-> buffer[j]]

FreshAt(c) ==
  /\ pc[c] \in {"writing", "polling", "reading"} => cur = end
  /\ pc[c] = "writing" => OnlyPrompts(Line)
  /\ pc[c] \in {"polling", "emptying", "selecting", "selected", "polled", "reading",
                "refilling", "blocked"} => OwnText(c, Line)
  /\ Uncounted(c) => OwnText(c, InBuffer(count[c]))
  /\ pc[c] \in {"taking", "copying"}
       => cur = 0 /\ end <= BufferSize /\ OwnText(c, InBuffer(end))
  /\ OwnText(c, got[c])

FreshInv == \A c \in Clients : alone[c] /\ fresh[c] => FreshAt(c)

(* A step of a client leaves the others that are alone and fresh with what they were  *)
(* handed: they are not under way.                                                   *)
LEMMA FreshStep ==
  ASSUME TypeOK, LoneInv, FreshInv, NEW c \in Clients, Step(c),
         alone[c] /\ fresh[c] => FreshAt(c)'
  PROVE  FreshInv'
<1> SUFFICES ASSUME NEW d \in Clients, alone'[d], fresh'[d]
             PROVE  FreshAt(d)'
  BY DEF FreshInv
<1>1. /\ Active(c) /\ UNCHANGED <<alone, fresh, own, command>>
      /\ \A e \in Clients \ {c} :
           pc'[e] = pc[e] /\ got'[e] = got[e] /\ accepted'[e] = accepted[e]
  BY StepFrame
<1>2. CASE d = c
  BY <1>1, <1>2
<1>3. CASE d # c
  <2>1. pc'[d] \in {"idle", "returned"}
    BY <1>1, <1>3 DEF LoneInv, Active
  <2>2. OwnText(d, got[d])
    BY <1>1 DEF FreshInv, FreshAt
  <2>3. OwnText(d, got[d])'
    BY <1>1, <1>3, <2>2 DEF OwnText
  <2>4. QED
    BY <2>1, <2>3 DEF FreshAt, Uncounted
<1>4. QED
  BY <1>2, <1>3

(* Text in the buffer is a text, and what is copied of its begin is the begin of it.  *)
LEMMA BufferText ==
  ASSUME TypeOK, NEW n \in Nat, n <= BufferSize
  PROVE  /\ InBuffer(n) \in Seq(Token) /\ Len(InBuffer(n)) = n
         /\ \A m \in Nat : m <= n =>
              /\ Copied(buffer, 0, m) \in [1..m -> Token]
              /\ \A j \in 1..m : Copied(buffer, 0, m)[j] = InBuffer(n)[j]
<1>1. BufferSize \in Nat /\ buffer \in [1..BufferSize -> Token]
  BY ChannelAssumption DEF TypeOK
<1>2. InBuffer(n) \in [1..n -> Token]
  BY <1>1 DEF InBuffer
<1>3. InBuffer(n) \in Seq(Token) /\ Len(InBuffer(n)) = n
  BY <1>2, SeqDef
<1>4. ASSUME NEW m \in Nat, m <= n
      PROVE  /\ Copied(buffer, 0, m) \in [1..m -> Token]
             /\ \A j \in 1..m : Copied(buffer, 0, m)[j] = InBuffer(n)[j]
  BY <1>1, <1>4 DEF Copied, InBuffer
<1>5. QED
  BY <1>3, <1>4

(* What ::read puts into the buffer is the begin of what was on the line.             *)
LEMMA FreshRead ==
  ASSUME TypeOK, NEW k, NEW i, NEW ok, AnswerText(k, i, ok, Line),
         NEW n, n = Smaller(Len(kernel), BufferSize),
         buffer' = [j \in 1..BufferSize |-> IF j <= n THEN kernel[j] ELSE buffer[j]]
  PROVE  AnswerText(k, i, ok, InBuffer(n)')
<1>1. /\ n \in Nat /\ n <= Len(kernel) /\ Len(kernel) \in Nat /\ n <= BufferSize
      /\ Len(outgoing) \in Nat /\ BufferSize \in Nat
  BY SmallerType, LenProperties, ChannelAssumption DEF TypeOK
<1>2. /\ Line \in Seq(Token) /\ n <= Len(Line)
      /\ \A j \in 1..n : Line[j] = kernel[j]
  BY <1>1, ConcatProperties DEF Line, TypeOK
<1> DEFINE t == [j \in 1..n |-> buffer'[j]]
<1>3. \A j \in 1..n : buffer'[j] = kernel[j] /\ kernel[j] \in Token
  BY <1>1, ElementOfSeq DEF TypeOK
<1>4. t \in [1..n -> Token] /\ \A j \in 1..n : t[j] = Line[j]
  BY <1>2, <1>3
<1> HIDE DEF t
<1>5. AnswerText(k, i, ok, t)
  BY <1>1, <1>2, <1>4, AnswerBegin
<1>6. QED
  BY <1>5 DEF t, InBuffer

LEMMA FreshNext ==
  ASSUME TypeOK, CommandKnown, HandsInv, LoneInv, CursorInv, FreshInv,
         [AnyNext]_channelVars
  PROVE  FreshInv'
<1>1. ASSUME UNCHANGED <<callVars, portVars, Line, own, alone, fresh, accepted>>
      PROVE  FreshInv'
  <2>1. \A c \in Clients : FreshAt(c)' <=> FreshAt(c)
    BY <1>1 DEF FreshAt, OwnText, Uncounted, InBuffer, callVars, portVars, localVars
  <2>2. QED
    BY <1>1, <2>1 DEF FreshInv
<1>2. CASE Deliver
  BY <1>1, <1>2, LineKept DEF Deliver, historyVars
<1>3. CASE Unsolicited
  BY <1>3 DEF Unsolicited, FreshInv
<1>4. CASE HangUp \/ UNCHANGED channelVars
  BY <1>1, <1>4 DEF HangUp, channelVars, lineVars, historyVars, Line
<1>5. ASSUME NEW c \in Clients, NEW k \in AllCommands, Begin(c, k)
      PROVE  FreshInv'
  <2> SUFFICES ASSUME NEW d \in Clients, alone'[d], fresh'[d]
               PROVE  FreshAt(d)'
    BY DEF FreshInv
  <2>1. CASE d = c
    <3>1. /\ pc[c] = "idle" /\ pc'[c] = "writing" /\ Quiet /\ got'[c] = got[c]
          /\ UNCHANGED <<cur, end, Line>>
      BY <1>5, <2>1 DEF Begin, TypeOK, portVars, lineVars, Line
    <3>2. cur = end /\ OnlyPrompts(Line) /\ got[c] = <<>>
      BY <3>1 DEF Quiet, Line, HandsInv, Before
    <3>3. OwnText(c, got[c])'
      BY <3>1, <3>2, NoText DEF OwnText
    <3>4. QED
      BY <2>1, <3>1, <3>2, <3>3 DEF FreshAt, Uncounted
  <2>2. CASE d # c
    <3>1. /\ pc'[d] = pc[d] /\ got'[d] = got[d] /\ own'[d] = own[d]
          /\ command'[d] = command[d] /\ accepted'[d] = accepted[d]
          /\ alone[d] /\ fresh[d] /\ ~Active(d)
      BY <1>5, <2>2 DEF Begin, TypeOK
    <3>2. OwnText(d, got[d])'
      BY <3>1 DEF FreshInv, FreshAt, OwnText
    <3>3. QED
      BY <3>1, <3>2 DEF FreshAt, Active, Uncounted
  <2>3. QED
    BY <2>1, <2>2
<1>6. ASSUME NEW c \in Clients, Return(c)
      PROVE  FreshInv'
  <2> SUFFICES ASSUME NEW d \in Clients, alone'[d], fresh'[d]
               PROVE  FreshAt(d)'
    BY DEF FreshInv
  <2>1. CASE d = c
    <3>1. pc'[c] = "idle" /\ got'[c] = <<>>
      BY <1>6 DEF Return, Goto, TypeOK
    <3>2. QED
      BY <2>1, <3>1, NoText DEF FreshAt, Uncounted, OwnText
  <2>2. CASE d # c
    <3>1. /\ pc'[d] = pc[d] /\ got'[d] = got[d] /\ own'[d] = own[d]
          /\ command'[d] = command[d] /\ accepted'[d] = accepted[d]
          /\ count'[d] = count[d]
          /\ alone[d] /\ fresh[d] /\ UNCHANGED <<cur, end, buffer, Line>>
      BY <1>6, <2>2 DEF Return, Goto, TypeOK, lineVars, portVars, Line
    <3>2. FreshAt(d)
      BY <3>1 DEF FreshInv
    <3>3. InBuffer(count[d])' = InBuffer(count[d]) /\ InBuffer(end)' = InBuffer(end)
      BY <3>1 DEF InBuffer
    <3>4. QED
      BY <3>1, <3>2, <3>3 DEF FreshAt, Uncounted, OwnText
  <2>3. QED
    BY <2>1, <2>2
<1>7. ASSUME NEW c \in Clients, Step(c), alone[c], fresh[c]
      PROVE  FreshAt(c)'
  <2>1. FreshAt(c) /\ CursorAt(c)
    BY <1>7 DEF FreshInv, CursorInv, Sane
  <2>2. /\ UNCHANGED <<own, command>> /\ pc' \in [Clients -> Places]
        /\ cur \in Nat /\ end \in Nat /\ count[c] \in Nat
    BY <1>7, StepFrame DEF TypeOK
  <2> USE DEF Goto, TypeOK, Uncounted, lineVars, portVars, localVars, historyVars
  <2>3. ASSUME UNCHANGED <<Line, got, accepted>>
        PROVE  /\ OwnText(c, Line)' <=> OwnText(c, Line)
               /\ OwnText(c, got[c])'
    BY <2>1, <2>2, <2>3 DEF FreshAt, OwnText
  <2>4. CASE Write(c)
    <3>1. /\ pc[c] = "writing" /\ pc'[c] \in {"polling", "returned"}
          /\ UNCHANGED <<cur, end, kernel, got>>
      BY <2>4 DEF Write, AfterWrite, Finish
    <3>2. cur = end /\ OnlyPrompts(Line) /\ got[c] = <<>>
      BY <2>1, <3>1 DEF FreshAt, HandsInv, Before
    <3>3. ASSUME UNCHANGED outgoing
          PROVE  OwnText(c, Line)'
      BY <3>1, <3>2, <3>3 DEF OwnText, AnswerText, OnlyPrompts, Line
    <3>4. ASSUME NEW r \in Replies(command[c], own[c]), outgoing' = outgoing \o r,
                 accepted' = [accepted EXCEPT ![c] = \E j \in 1..Len(r) : r[j].text = "OK"]
          PROVE  OwnText(c, Line)'
      <4>1. command[c] \in AllCommands /\ own[c] \in 0..MaxWrites
        BY <3>1 DEF CommandKnown
      <4>2. kernel \in Seq(Token) /\ outgoing \in Seq(Token) /\ r \in Seq(Token)
        BY <4>1, ReplyType
      <4>3. Line' = Line \o r /\ Line \in Seq(Token)
        <5>1. Line' = kernel \o (outgoing \o r)
          BY <3>1, <3>4 DEF Line
        <5>2. Joined(kernel, outgoing, r) /\ Line \in Seq(Token)
          BY <4>2, JoinedTexts, ConcatProperties DEF Line
        <5>3. QED
          BY <5>1, <5>2 DEF Joined, Line
      <4>4. accepted'[c] = \E j \in 1..Len(r) : r[j].text = "OK"
        BY <3>4
      <4>5. AnswerText(command[c], own[c], \E j \in 1..Len(r) : r[j].text = "OK", Line \o r)
        BY <3>2, <4>1, <4>3, ReplyIsAnswer
      <4>6. QED
        BY <2>2, <4>3, <4>4, <4>5 DEF OwnText
    <3>5. OwnText(c, Line)'
      BY <2>4, <3>3, <3>4 DEF Write
    <3>6. OwnText(c, got[c])'
      BY <3>1, <3>2, NoText DEF OwnText
    <3>7. QED
      BY <3>1, <3>2, <3>5, <3>6 DEF FreshAt
  <2>5. CASE Poll(c) \/ Read(c)
    <3>1. /\ pc[c] \in {"polling", "reading"} /\ UNCHANGED <<cur, end, Line, got, accepted>>
          /\ cur = end => pc'[c] \in {"emptying", "refilling"}
      BY <2>5, AvailableType DEF Poll, Read, Line
    <3>2. QED
      BY <2>1, <2>3, <3>1 DEF FreshAt
  <2>6. CASE Empty(c) \/ Select(c)
    <3>1. /\ pc[c] \in {"emptying", "refilling", "selecting"}
          /\ UNCHANGED <<Line, got, accepted>>
          /\ pc'[c] \in {"selecting", "blocked", "selected", "returned"}
      BY <2>6 DEF Empty, Select, Finish, Line
    <3>2. QED
      BY <2>1, <2>3, <3>1 DEF FreshAt
  <2>7. CASE LoadEnd(c)
    <3>1. /\ UNCHANGED <<Line, got, accepted, count, buffer>>
          /\ \/ pc[c] = "selected" /\ pc'[c] = "polled"
             \/ pc[c] = "filled" /\ pc'[c] = "counting"
      BY <2>7 DEF LoadEnd, Line
    <3>2. OwnText(c, InBuffer(count[c]))' <=> OwnText(c, InBuffer(count[c]))
      BY <2>2, <3>1 DEF OwnText, InBuffer
    <3>3. QED
      BY <2>1, <2>3, <3>1, <3>2 DEF FreshAt
  <2>8. CASE StoreEnd(c)
    <3>1. /\ UNCHANGED <<Line, got, accepted, count, buffer>>
          /\ \/ pc[c] = "polled" /\ pc'[c] = "reading"
             \/ pc[c] = "counting" /\ pc'[c] = "taking"
          /\ cur' = cur /\ end' = loaded[c] + count[c]
      BY <2>8 DEF StoreEnd, Line
    <3>2. cur = 0 /\ end' = count[c]
      BY <2>1, <2>2, <3>1 DEF CursorAt
    <3>3. CASE pc[c] = "polled"
      <4>1. count[c] = 0
        BY <3>3 DEF HandsInv, Before
      <4>2. QED
        BY <2>1, <2>3, <3>1, <3>2, <3>3, <4>1 DEF FreshAt
    <3>4. CASE pc[c] = "counting"
      <4>1. count[c] <= BufferSize /\ OwnText(c, InBuffer(count[c]))
        BY <2>1, <3>4 DEF HandsInv, FreshAt
      <4>2. OwnText(c, InBuffer(end))'
        BY <2>2, <3>1, <3>2, <4>1 DEF OwnText, InBuffer
      <4>3. QED
        BY <2>3, <3>1, <3>2, <3>4, <4>1, <4>2 DEF FreshAt
    <3>5. QED
      BY <3>1, <3>3, <3>4
  <2>9. CASE KernelRead(c)
    <3>1. /\ pc[c] = "blocked" /\ pc'[c] \in {"filled", "returned"} /\ count[c] = 0
          /\ got[c] = <<>> /\ UNCHANGED <<got, accepted>> /\ OwnText(c, Line)
      BY <2>1, <2>9 DEF KernelRead, Finish, HandsInv, Before, FreshAt
    <3>2. OwnText(c, got[c])'
      BY <3>1, NoText DEF OwnText
    <3>3. CASE UNCHANGED count
      <4>1. InBuffer(count[c])' = <<>>
        BY <3>1, <3>3 DEF InBuffer
      <4>2. OwnText(c, InBuffer(count[c]))'
        BY <4>1, NoText DEF OwnText
      <4>3. QED
        BY <3>1, <3>2, <4>2 DEF FreshAt
    <3>4. ASSUME NEW n, n = Smaller(Len(kernel), BufferSize),
                 buffer' = [j \in 1..BufferSize |-> IF j <= n THEN kernel[j] ELSE buffer[j]],
                 count' = [count EXCEPT ![c] = n]
          PROVE  FreshAt(c)'
      <4>1. AnswerText(command[c], own[c], accepted[c], InBuffer(n)')
        BY <3>1, <3>4, FreshRead DEF OwnText
      <4>2. count'[c] = n
        BY <3>4
      <4>3. InBuffer(count[c])' = InBuffer(n)'
        BY <4>2 DEF InBuffer
      <4>4. OwnText(c, InBuffer(count[c]))'
        BY <2>2, <3>1, <4>1, <4>3 DEF OwnText
      <4>5. QED
        BY <3>1, <3>2, <4>4 DEF FreshAt
    <3>5. QED
      BY <2>9, <3>3, <3>4 DEF KernelRead
  <2>10. CASE Take(c)
    <3>1. /\ pc[c] = "taking" /\ pc'[c] = "copying"
          /\ UNCHANGED <<cur, end, buffer, got, accepted>>
      BY <2>10 DEF Take
    <3>2. cur = 0 /\ end <= BufferSize /\ OwnText(c, InBuffer(end)) /\ OwnText(c, got[c])
      BY <2>1, <3>1 DEF FreshAt
    <3>3. OwnText(c, InBuffer(end))' /\ OwnText(c, got[c])'
      BY <2>2, <3>1, <3>2 DEF OwnText, InBuffer
    <3>4. QED
      BY <3>1, <3>2, <3>3 DEF FreshAt
  <2>11. CASE Copy(c)
    <3>1. pc[c] = "copying" /\ pc'[c] = "copied" /\ UNCHANGED accepted
      BY <2>11 DEF Copy
    <3>2. /\ cur = 0 /\ end <= BufferSize /\ OwnText(c, InBuffer(end))
          /\ loaded[c] = 0 /\ count[c] <= end
      BY <2>1, <2>2, <3>1 DEF FreshAt, CursorAt
    <3>3. got'[c] = Copied(buffer, 0, count[c])
      BY <2>11, <3>2 DEF Copy, Copied
    <3>4. AnswerText(command[c], own[c], accepted[c], got'[c])
      <4> DEFINE s == InBuffer(end)
                 t == Copied(buffer, 0, count[c])
      <4>1. /\ s \in Seq(Token) /\ Len(s) = end /\ t \in [1..count[c] -> Token]
            /\ \A j \in 1..count[c] : t[j] = s[j]
        BY <2>2, <3>2, BufferText
      <4>2. AnswerText(command[c], own[c], accepted[c], s)
        BY <3>2 DEF OwnText
      <4> HIDE DEF s, t
      <4>3. AnswerText(command[c], own[c], accepted[c], t)
        BY <2>2, <3>2, <4>1, <4>2, AnswerBegin
      <4>4. QED
        BY <3>3, <4>3 DEF t
    <3>5. OwnText(c, got[c])'
      BY <2>2, <3>1, <3>4 DEF OwnText
    <3>6. QED
      BY <3>1, <3>5 DEF FreshAt
  <2>12. CASE LoadCur(c) \/ StoreCur(c)
    <3>1. pc'[c] \in {"advancing", "returned"} /\ UNCHANGED <<Line, got, accepted>>
      BY <2>12 DEF LoadCur, StoreCur, Finish, Line
    <3>2. QED
      BY <2>3, <3>1 DEF FreshAt
  <2>13. QED
    BY <1>7, <2>4, <2>5, <2>6, <2>7, <2>8, <2>9, <2>10, <2>11, <2>12
       DEF Step, PollSteps, ReadSteps
<1>8. ASSUME NEW c \in Clients, Step(c)
      PROVE  FreshInv'
  BY <1>7, <1>8, FreshStep
<1>9. QED
  BY <1>2, <1>3, <1>4, <1>5, <1>6, <1>8 DEF AnyNext, Modem

-------------------------------------------------------------------------------
(* All that holds of the channel, whoever uses it.                                   *)
ChannelInv ==
  TypeOK /\ CommandKnown /\ LoneInv /\ HandsInv /\ CursorInv /\ FreshInv

LEMMA ChannelFirst == ChannelInit => ChannelInv
<1> SUFFICES ASSUME ChannelInit PROVE ChannelInv
  OBVIOUS
<1>1. TypeOK /\ CommandKnown
  BY ChannelTypeInit
<1>2. /\ cur = 0 /\ end = 0
      /\ \A c \in Clients : /\ pc[c] = "idle" /\ got[c] = <<>> /\ count[c] = 0
                            /\ alone[c]
  BY DEF ChannelInit
<1>3. LoneInv /\ HandsInv
  BY <1>2 DEF LoneInv, HandsInv, Active, Uncounted
<1>4. CursorInv
  BY <1>2 DEF CursorInv, CursorAt, Ordered, Active
<1>5. FreshInv
  BY <1>2, NoText DEF FreshInv, FreshAt, Uncounted, OwnText
<1>6. QED
  BY <1>1, <1>3, <1>4, <1>5 DEF ChannelInv

LEMMA ChannelNext == ChannelInv /\ [AnyNext]_channelVars => ChannelInv'
<1> SUFFICES ASSUME ChannelInv, [AnyNext]_channelVars PROVE ChannelInv'
  OBVIOUS
<1>1. TypeOK /\ CommandKnown /\ LoneInv /\ HandsInv /\ CursorInv /\ FreshInv
  BY DEF ChannelInv
<1>2. TypeOK' /\ CommandKnown'
  BY <1>1, ChannelTypeNext
<1>3. LoneInv' /\ HandsInv'
  BY <1>1, LoneNext, HandsNext
<1>4. CursorInv'
  BY <1>1, CursorNext
<1>5. FreshInv'
  BY <1>1, FreshNext
<1>6. QED
  BY <1>2, <1>3, <1>4, <1>5 DEF ChannelInv

(* The steps of an instance are steps of known commands.                             *)
LEMMA NextIsAny == [Next]_channelVars => [AnyNext]_channelVars
BY ChannelAssumption DEF Next, AnyNext

LEMMA ChannelAlways == Spec => []ChannelInv
<1>1. ChannelInv /\ [Next]_channelVars => ChannelInv'
  BY NextIsAny, ChannelNext
<1>2. QED
  BY <1>1, ChannelFirst, PTL DEF Spec

(* Whoever races for the port, every piece of text in the buffer, on the line and in  *)
(* the callers' hands is one the modem can send, or no text at all.                   *)
THEOREM ChannelTyped == Spec => []TypeOK
<1>1. ChannelInv => TypeOK
  BY DEF ChannelInv
<1>2. QED
  BY <1>1, ChannelAlways, PTL

(* A command that no other overlaps finds text when it gets to ::read, which has no   *)
(* timeout: for any sizes, any text left over and any faults of the line, and          *)
(* wherever the commands before it left the cursors.                                 *)
THEOREM LoneReadsReturn == Spec => []AloneNeverHangs
<1>1. ChannelInv => AloneNeverHangs
  BY DEF ChannelInv, LoneInv, AloneNeverHangs, Active
<1>2. QED
  BY <1>1, ChannelAlways, PTL

(* A command that no other overlaps, and that begins with an empty buffer and nothing *)
(* but prompts on the line, is handed its own reply and nothing else, also if threads *)
(* that raced before it left the two cursors behind the end of the buffer.            *)
THEOREM CleanReplies == Spec => []CleanReplyIsOwn
<1>1. ChannelInv => CleanReplyIsOwn
  BY DEF ChannelInv, FreshInv, FreshAt, OwnText, AnswerText, CleanReplyIsOwn
<1>2. QED
  BY <1>1, ChannelAlways, PTL

-------------------------------------------------------------------------------
(* The port as a stream of text, while commands do not overlap.                       *)

(* More text is said.                                                                *)
LEMMA StreamSays ==
  ASSUME Unread \in Seq(Token), NEW r \in Seq(Token), Unread' = Unread \o r, Taken' = Taken
  PROVE  Stream!Next
<1> DEFINE x == Unread
<1>1. x \in Seq(Token) /\ Len(x) \in Nat /\ Len(r) \in Nat /\ Len(x) \in 0..Len(x)
  BY LenProperties
<1> HIDE DEF x
<1>2. Len(x \o r) = Len(x) + Len(r)
  BY <1>1, ConcatProperties
<1>3. SubSeq(x \o r, 1, Len(x)) = x
  BY <1>1, SplitText, SubSeqFull
<1>4. Len(x \o r) >= Len(x)
  BY <1>1, <1>2
<1>5. Len(Unread') >= Len(Unread) /\ SubSeq(Unread', 1, Len(Unread)) = Unread
  BY <1>3, <1>4 DEF x
<1>6. QED
  BY <1>5 DEF Stream!Next, Stream!Say

(* A command takes the begin of a text.                                              *)
LEMMA StreamTakes ==
  ASSUME NEW c \in Clients, NEW h \in Seq(Token), NEW rest \in Seq(Token),
         NEW n \in 0..Len(h), Unread = h \o rest,
         Unread' = SubSeq(h, n + 1, Len(h)) \o rest,
         Taken' = [Taken EXCEPT ![c] = SubSeq(h, 1, n)]
  PROVE  Stream!Next
<1>1. /\ SubSeq(Unread, 1, n) = SubSeq(h, 1, n)
      /\ SubSeq(Unread, n + 1, Len(Unread)) = SubSeq(h, n + 1, Len(h)) \o rest
      /\ n <= Len(Unread)
  BY SplitText
<1>2. Len(Unread) \in Nat /\ n \in Nat
  BY ConcatProperties, LenProperties
<1>3. n \in 0..Len(Unread)
  BY <1>1, <1>2
<1>4. /\ Taken' = [Taken EXCEPT ![c] = SubSeq(Unread, 1, n)]
      /\ Unread' = SubSeq(Unread, n + 1, Len(Unread))
  BY <1>1
<1>5. QED
  BY <1>3, <1>4 DEF Stream!Next, Stream!Take

(* A command gives up the text it was handed.                                         *)
LEMMA StreamClears ==
  ASSUME Unread \in Seq(Token), NEW c \in Clients, Unread' = Unread,
         Taken' = [Taken EXCEPT ![c] = <<>>]
  PROVE  Stream!Next
<1>1. Len(Unread) \in Nat /\ 0 \in 0..Len(Unread) /\ 0 + 1 = 1
  BY LenProperties
<1>2. SubSeq(Unread, 1, 0) = <<>> /\ SubSeq(Unread, 0 + 1, Len(Unread)) = Unread
  BY <1>1, SubSeqEmpty, SubSeqFull
<1>3. QED
  BY <1>1, <1>2 DEF Stream!Next, Stream!Take

(* What a step hands out: nothing, until the command returns.                         *)
LEMMA TakenStep ==
  ASSUME TypeOK, NEW c \in Clients, Step(c)
  PROVE  /\ Taken[c] = <<>>
         /\ Taken' = [Taken EXCEPT ![c] = IF pc'[c] = "returned" THEN got'[c] ELSE <<>>]
<1>1. /\ pc[c] # "returned"
      /\ \A d \in Clients \ {c} : pc'[d] = pc[d] /\ got'[d] = got[d]
  BY StepFrame DEF Active
<1>2. QED
  BY <1>1 DEF Taken

(* The text in a client's hands, by the client that has just read.                    *)
LEMMA FillingOf ==
  ASSUME NEW c \in Clients,
         \A d \in Clients \ {c} : ~Uncounted(d) /\ ~Uncounted(d)'
  PROVE  /\ Filling = IF Uncounted(c) THEN SubSeq(buffer, 1, count[c]) ELSE <<>>
         /\ Filling' = IF Uncounted(c)' THEN SubSeq(buffer', 1, count'[c]) ELSE <<>>
<1>1. Filling = IF Uncounted(c) THEN SubSeq(buffer, 1, count[c]) ELSE <<>>
  <2>1. CASE Uncounted(c)
    <3>1. (CHOOSE d \in Clients : Uncounted(d)) = c
      BY <2>1
    <3>2. QED
      BY <2>1, <3>1 DEF Filling
  <2>2. CASE ~Uncounted(c)
    BY <2>2 DEF Filling
  <2>3. QED
    BY <2>1, <2>2
<1>2. Filling' = IF Uncounted(c)' THEN SubSeq(buffer', 1, count'[c]) ELSE <<>>
  <2>1. CASE Uncounted(c)'
    <3>1. (CHOOSE d \in Clients : Uncounted(d)') = c
      BY <2>1
    <3>2. QED
      BY <2>1, <3>1 DEF Filling
  <2>2. CASE ~Uncounted(c)'
    BY <2>2 DEF Filling
  <2>3. QED
    BY <2>1, <2>2
<1>3. QED
  BY <1>1, <1>2

(* While no two commands overlapped one client at most has just read.                *)
LEMMA FillingKept ==
  ASSUME LoneInv, \A c \in Clients : alone[c], UNCHANGED buffer,
         \A c \in Clients : Uncounted(c)' <=> Uncounted(c),
         \A c \in Clients : Uncounted(c) => count'[c] = count[c]
  PROVE  Filling' = Filling
<1>1. CASE \E c \in Clients : Uncounted(c)
  <2>1. PICK c \in Clients : Uncounted(c)
    BY <1>1
  <2>2. \A d \in Clients \ {c} : ~Uncounted(d) /\ ~Uncounted(d)'
    BY <2>1 DEF LoneInv, Active, Uncounted
  <2>3. /\ Filling = SubSeq(buffer, 1, count[c])
        /\ Filling' = SubSeq(buffer', 1, count'[c])
    BY <2>1, <2>2, FillingOf
  <2>4. QED
    BY <2>1, <2>3
<1>2. CASE ~\E c \in Clients : Uncounted(c)
  BY <1>2 DEF Filling
<1>3. QED
  BY <1>1, <1>2

(* The texts the stream is made of.                                                  *)
LEMMA UnreadType ==
  ASSUME TypeOK, HandsInv, Ordered
  PROVE  /\ Held \in Seq(Token) /\ Len(Held) = end - cur
         /\ Filling \in Seq(Token)
         /\ kernel \in Seq(Token) /\ outgoing \in Seq(Token)
         /\ Unread \in Seq(Token)
<1>1. /\ cur \in Nat /\ end \in Nat /\ cur <= end /\ (cur = end \/ end <= BufferSize)
      /\ BufferSize \in Nat /\ buffer \in [1..BufferSize -> Token]
      /\ kernel \in Seq(Token) /\ outgoing \in Seq(Token)
  BY ChannelAssumption DEF TypeOK, Ordered
<1>2. Held \in Seq(Token) /\ Len(Held) = end - cur
  <2>1. \A i \in (cur + 1)..end : buffer[i] \in Token
    BY <1>1
  <2>2. /\ cur + 1 \in Int /\ end \in Int /\ end - (cur + 1) + 1 = end - cur
        /\ (IF cur + 1 <= end THEN end - (cur + 1) + 1 ELSE 0) = end - cur
        /\ \A i \in 1..(end - cur) : (cur + 1) + i - 1 = cur + i
    BY <1>1
  <2>3. QED
    BY <2>1, <2>2, SubSeqProperties DEF Held
<1>3. Filling \in Seq(Token)
  <2>1. CASE \E c \in Clients : Uncounted(c)
    <3>1. PICK c \in Clients : /\ Uncounted(c)
                               /\ Filling = SubSeq(buffer, 1, count[c])
      BY <2>1 DEF Filling
    <3>2. count[c] \in Nat /\ count[c] <= BufferSize
      BY <3>1 DEF HandsInv, TypeOK
    <3>3. \A i \in 1..count[c] : buffer[i] \in Token
      BY <1>1, <3>2
    <3>4. QED
      BY <3>1, <3>2, <3>3, SubSeqProperties
  <2>2. CASE ~\E c \in Clients : Uncounted(c)
    BY <2>2 DEF Filling
  <2>3. QED
    BY <2>1, <2>2
<1>4. Unread \in Seq(Token)
  BY <1>1, <1>2, <1>3, ConcatProperties DEF Unread
<1>5. QED
  BY <1>1, <1>2, <1>3, <1>4

(* What is left between the cursors when _cur advances.                               *)
LEMMA HeldRest ==
  ASSUME TypeOK, HandsInv, Ordered, NEW n \in Nat, n <= end - cur
  PROVE  SubSeq(Held, n + 1, Len(Held)) = SubSeq(buffer, (cur + n) + 1, end)
<1>1. /\ cur \in Nat /\ end \in Nat /\ cur <= end /\ (cur = end \/ end <= BufferSize)
      /\ buffer \in [1..BufferSize -> Token]
  BY DEF TypeOK, Ordered
<1>2. SubSeq(Held, n + 1, end - cur) = SubSeq(buffer, (cur + n) + 1, end)
  BY <1>1, BufferPart DEF Held
<1>3. QED
  BY <1>2, UnreadType

(* The buffer is emptied, or nothing happens to it: the stream is the same.           *)
LEMMA StreamKept ==
  ASSUME TypeOK, TypeOK', UNCHANGED <<outgoing, kernel, buffer, Filling>>,
         UNCHANGED <<cur, end>> \/ (cur = end /\ cur' = end')
  PROVE  Unread' = Unread
<1>1. Held' = Held
  <2>1. CASE UNCHANGED <<cur, end>>
    BY <2>1 DEF Held
  <2>2. CASE cur = end /\ cur' = end'
    <3>1. cur \in Nat /\ cur' \in Nat
      BY DEF TypeOK
    <3>2. Held = <<>>
      BY <2>2, <3>1, SubSeqEmpty DEF Held
    <3>3. Held' = <<>>
      <4>1. PICK v \in Nat : v = end' /\ v = cur'
        BY <2>2, <3>1
      <4>2. SubSeq(buffer', v + 1, v) = <<>>
        BY SubSeqEmpty
      <4>3. QED
        BY <4>1, <4>2 DEF Held
    <3>4. QED
      BY <3>2, <3>3
  <2>3. QED
    BY <2>1, <2>2
<1>2. QED
  BY <1>1 DEF Unread

(* Each step of the channel is one of the stream, or none.                           *)
LEMMA StreamNext ==
  ASSUME ChannelInv, ChannelInv', ~raced', [AnyNext]_channelVars
  PROVE  [Stream!Next]_<<Unread, Taken>>
<1> USE DEF lineVars, portVars, localVars, historyVars
<1>1. TypeOK /\ TypeOK' /\ CommandKnown /\ LoneInv /\ HandsInv /\ CursorInv /\ CursorInv'
  BY DEF ChannelInv
<1>2. ~raced
  <2>1. ASSUME NEW c \in Clients, Step(c)
        PROVE  ~raced
    BY <1>1, <2>1, StepFrame
  <2>2. QED
    BY <2>1 DEF AnyNext, Modem, Deliver, Unsolicited, HangUp, Begin, Return, channelVars
<1>3. /\ Ordered /\ Ordered' /\ \A c \in Clients : alone[c] /\ CursorAt(c)
  BY <1>1, <1>2 DEF CursorInv, Sane
<1>4. /\ Held \in Seq(Token) /\ Len(Held) = end - cur
      /\ Filling \in Seq(Token)
      /\ kernel \in Seq(Token) /\ outgoing \in Seq(Token)
      /\ Unread \in Seq(Token)
  BY <1>1, <1>3, UnreadType
<1>5. ASSUME NEW r \in Seq(Token), outgoing' = outgoing \o r,
             UNCHANGED <<kernel, buffer, cur, end, Filling, Taken>>
      PROVE  Stream!Next
  <2> DEFINE x == Held \o Filling \o kernel
  <2>1. x \in Seq(Token) /\ Held' = Held
    BY <1>4, <1>5, ConcatProperties DEF Held
  <2>2. Unread = x \o outgoing /\ Unread' = x \o (outgoing \o r)
    BY <1>5, <2>1 DEF Unread
  <2> HIDE DEF x
  <2>3. Joined(x, outgoing, r)
    BY <1>4, <2>1, JoinedTexts
  <2>4. Unread' = Unread \o r
    BY <2>2, <2>3 DEF Joined
  <2>5. QED
    BY <1>4, <1>5, <2>4, StreamSays
<1>6. CASE Modem \/ UNCHANGED channelVars
  <2>1. UNCHANGED <<pc, count, got, buffer, cur, end>>
    BY <1>6 DEF Modem, Deliver, Unsolicited, HangUp, channelVars, callVars
  <2>2. Taken' = Taken /\ Filling' = Filling
    <3>1. \A c \in Clients : Uncounted(c)' <=> Uncounted(c)
      BY <2>1 DEF Uncounted
    <3>2. QED
      BY <1>1, <1>3, <2>1, <3>1, FillingKept DEF Taken
  <2>3. CASE Deliver
    <3>1. kernel' \o outgoing' = kernel \o outgoing
      BY <1>1, <2>3, LineKept DEF Line
    <3> DEFINE x == Held \o Filling
    <3>2. /\ x \in Seq(Token) /\ Held' = Held
          /\ kernel' \in Seq(Token) /\ outgoing' \in Seq(Token)
      BY <1>1, <1>4, <2>1, ConcatProperties DEF TypeOK, Held
    <3>3. Unread = (x \o kernel) \o outgoing /\ Unread' = (x \o kernel') \o outgoing'
      BY <2>2, <3>2 DEF Unread
    <3> HIDE DEF x
    <3>4. Joined(x, kernel, outgoing) /\ Joined(x, kernel', outgoing')
      BY <1>4, <3>2, JoinedTexts
    <3>5. Unread' = Unread
      BY <3>1, <3>3, <3>4 DEF Joined
    <3>6. QED
      BY <2>2, <3>5
  <2>4. CASE Unsolicited
    <3>1. PICK k \in {"CPIN", "CGREG"}, b \in BOOLEAN :
            outgoing' = outgoing \o <<Piece(k, 0, "name"), Value(k, 0, b)>>
      BY <2>4 DEF Unsolicited
    <3>2. Piece(k, 0, "name") \in Token /\ Value(k, 0, b) \in Token
      BY PieceType, ChannelAssumption DEF AllCommands, Asks, Texts
    <3>3. <<Piece(k, 0, "name"), Value(k, 0, b)>> \in Seq(Token)
      BY <3>2
    <3>4. kernel' = kernel
      BY <2>4 DEF Unsolicited
    <3>5. QED
      BY <1>5, <2>1, <2>2, <3>1, <3>3, <3>4
  <2>5. CASE HangUp \/ UNCHANGED channelVars
    <3>1. UNCHANGED <<outgoing, kernel>>
      BY <2>5 DEF HangUp, channelVars
    <3>2. QED
      BY <2>1, <2>2, <3>1 DEF Unread, Held
  <2>6. QED
    BY <1>6, <2>3, <2>4, <2>5 DEF Modem
<1>7. ASSUME NEW c \in Clients, NEW k \in AllCommands, Begin(c, k)
      PROVE  [Stream!Next]_<<Unread, Taken>>
  <2>1. /\ pc[c] = "idle" /\ pc'[c] = "writing"
        /\ \A d \in Clients \ {c} : pc'[d] = pc[d]
        /\ UNCHANGED <<outgoing, kernel, buffer, cur, end, count, got>>
    BY <1>1, <1>7 DEF Begin, TypeOK
  <2>2. /\ \A d \in Clients : Uncounted(d)' <=> Uncounted(d)
        /\ Taken' = Taken
    BY <2>1 DEF Uncounted, Taken
  <2>3. Filling' = Filling
    BY <1>1, <1>3, <2>1, <2>2, FillingKept
  <2>4. QED
    BY <2>1, <2>2, <2>3 DEF Unread, Held
<1>8. ASSUME NEW c \in Clients, Return(c)
      PROVE  [Stream!Next]_<<Unread, Taken>>
  <2>1. /\ pc[c] = "returned" /\ pc'[c] = "idle"
        /\ \A d \in Clients \ {c} : /\ pc'[d] = pc[d] /\ count'[d] = count[d]
                                    /\ got'[d] = got[d]
        /\ UNCHANGED <<outgoing, kernel, buffer, cur, end>>
    BY <1>1, <1>8 DEF Return, Goto, TypeOK
  <2>2. /\ \A d \in Clients : Uncounted(d)' <=> Uncounted(d)
        /\ \A d \in Clients : Uncounted(d) => count'[d] = count[d]
        /\ Taken' = [Taken EXCEPT ![c] = <<>>]
    BY <2>1 DEF Uncounted, Taken
  <2>3. Filling' = Filling
    BY <1>1, <1>3, <2>1, <2>2, FillingKept
  <2>4. Unread' = Unread
    BY <2>1, <2>3 DEF Unread, Held
  <2>5. QED
    BY <1>4, <2>2, <2>4, StreamClears
<1>9. ASSUME NEW c \in Clients, Step(c)
      PROVE  [Stream!Next]_<<Unread, Taken>>
  <2>1. /\ Active(c) /\ pc' \in [Clients -> Places]
        /\ \A d \in Clients \ {c} : pc'[d] = pc[d] /\ count'[d] = count[d]
    BY <1>1, <1>9, StepFrame
  <2>2. \A d \in Clients \ {c} : ~Uncounted(d) /\ ~Uncounted(d)'
    BY <1>1, <1>3, <2>1 DEF LoneInv, Active, Uncounted
  <2>3. /\ Filling = IF Uncounted(c) THEN SubSeq(buffer, 1, count[c]) ELSE <<>>
        /\ Filling' = IF Uncounted(c)' THEN SubSeq(buffer', 1, count'[c]) ELSE <<>>
    BY <2>2, FillingOf
  <2>4. /\ Taken[c] = <<>>
        /\ Taken' = [Taken EXCEPT ![c] = IF pc'[c] = "returned" THEN got'[c] ELSE <<>>]
    BY <1>1, <1>9, TakenStep
  <2>5. ASSUME pc'[c] = "returned" => got'[c] = <<>>
        PROVE  Taken' = Taken
    BY <2>4, <2>5 DEF Taken
  <2>6. /\ CursorAt(c) /\ cur \in Nat /\ end \in Nat /\ count[c] \in Nat /\ loaded[c] \in Nat
        /\ BufferSize \in Nat /\ buffer \in [1..BufferSize -> Token]
        /\ cur <= end /\ (cur = end \/ end <= BufferSize)
    BY <1>1, <1>3, ChannelAssumption DEF TypeOK, Ordered
  <2> USE DEF Goto, TypeOK
  <2>7. CASE Write(c)
    <3>1. /\ UNCHANGED <<kernel, buffer, cur, end, got>>
          /\ pc[c] = "writing" /\ pc'[c] \in {"polling", "returned"}
      BY <1>1, <2>7 DEF Write, AfterWrite, Finish
    <3>2. UNCHANGED <<Filling, Taken>>
      BY <1>1, <2>3, <2>5, <3>1 DEF Uncounted, HandsInv, Before
    <3>3. CASE UNCHANGED outgoing
      BY <3>1, <3>2, <3>3 DEF Unread, Held
    <3>4. ASSUME NEW r \in Replies(command[c], own[c]), outgoing' = outgoing \o r
          PROVE  Stream!Next
      <4>1. /\ command[c] \in AllCommands /\ own[c] \in 0..MaxWrites
        BY <1>1, <3>1 DEF CommandKnown
      <4>2. r \in Seq(Token)
        BY <4>1, ReplyType
      <4>3. QED
        BY <1>5, <3>1, <3>2, <3>4, <4>2
    <3>5. QED
      BY <2>7, <3>3, <3>4 DEF Write
  <2>8. CASE Poll(c) \/ Empty(c) \/ Select(c) \/ Read(c)
    <3>1. /\ UNCHANGED <<outgoing, kernel, buffer, got>>
          /\ pc[c] \in {"polling", "emptying", "refilling", "selecting", "reading"}
          /\ pc'[c] \in {"reading", "emptying", "selecting", "blocked", "selected",
                         "refilling", "taking", "returned"}
          /\ \/ UNCHANGED <<cur, end>>
             \/ pc[c] \in {"emptying", "refilling"} /\ cur' = 0 /\ end' = 0
      BY <1>1, <2>8 DEF Poll, Empty, Select, Read, Finish
    <3>2. UNCHANGED <<cur, end>> \/ (cur = end /\ cur' = end')
      BY <2>6, <3>1 DEF CursorAt
    <3>3. UNCHANGED <<Filling, Taken>>
      BY <1>1, <2>3, <2>5, <3>1 DEF Uncounted, HandsInv, Before
    <3>4. QED
      BY <1>1, <3>1, <3>2, <3>3, StreamKept
  <2>9. CASE LoadEnd(c) \/ Take(c) \/ Copy(c) \/ LoadCur(c)
    <3>1. /\ UNCHANGED <<outgoing, kernel, buffer, cur, end>>
          /\ pc'[c] \in {"polled", "counting", "copying", "copied", "advancing"}
          /\ Uncounted(c)' <=> Uncounted(c)
          /\ Uncounted(c) => count'[c] = count[c]
      BY <1>1, <2>9 DEF LoadEnd, Take, Copy, LoadCur, Uncounted
    <3>2. UNCHANGED <<Filling, Taken>>
      BY <2>3, <2>5, <3>1
    <3>3. QED
      BY <1>1, <3>1, <3>2, StreamKept
  <2>10. CASE StoreEnd(c)
    <3>1. /\ UNCHANGED <<outgoing, kernel, buffer, cur>> /\ end' = loaded[c] + count[c]
          /\ \/ pc[c] = "polled" /\ pc'[c] = "reading"
             \/ pc[c] = "counting" /\ pc'[c] = "taking"
      BY <1>1, <2>10 DEF StoreEnd
    <3>2. cur = 0 /\ end = 0 /\ end' = count[c]
      BY <2>6, <3>1 DEF CursorAt
    <3>3. Taken' = Taken
      BY <2>5, <3>1
    <3>4. CASE pc[c] = "polled"
      <4>1. UNCHANGED <<end, Filling>>
        BY <1>1, <2>3, <3>1, <3>2, <3>4 DEF HandsInv, Before, Uncounted
      <4>2. QED
        BY <1>1, <3>1, <3>3, <4>1, StreamKept
    <3>5. CASE pc[c] = "counting"
      <4> DEFINE f == SubSeq(buffer, 1, count[c])
      <4>1. Filling = f /\ Filling' = <<>>
        BY <2>3, <3>1, <3>5 DEF Uncounted
      <4>2. Held = <<>> /\ Held' = f
        <5>1. SubSeq(buffer, 1, 0) = <<>> /\ 0 + 1 = 1
          BY SubSeqEmpty
        <5>2. Held = SubSeq(buffer, 0 + 1, 0) /\ Held' = SubSeq(buffer, 0 + 1, count[c])
          BY <3>1, <3>2 DEF Held
        <5>3. QED
          BY <5>1, <5>2
      <4>3. f \in Seq(Token)
        BY <1>4, <4>1
      <4> HIDE DEF f
      <4>4. <<>> \o f = f /\ f \o <<>> = f
        BY <4>3, ConcatEmptySeq
      <4>5. Unread' = Unread
        BY <3>1, <4>1, <4>2, <4>4 DEF Unread
      <4>6. QED
        BY <3>3, <4>5
    <3>6. QED
      BY <3>1, <3>4, <3>5
  <2>11. CASE KernelRead(c)
    <3>1. /\ pc[c] = "blocked" /\ pc'[c] \in {"filled", "returned"} /\ count[c] = 0
          /\ UNCHANGED <<outgoing, cur, end, got>> /\ cur = 0 /\ end = 0
      BY <1>1, <2>6, <2>11 DEF KernelRead, Finish, HandsInv, Before, CursorAt
    <3>2. Filling = <<>> /\ Taken' = Taken
      BY <1>1, <2>3, <2>5, <3>1 DEF Uncounted, HandsInv, Before
    <3>3. CASE UNCHANGED <<buffer, count, kernel>>
      <4>1. SubSeq(buffer, 1, 0) = <<>>
        BY SubSeqEmpty
      <4>2. Filling' = <<>>
        BY <2>3, <3>1, <3>3, <4>1
      <4>3. QED
        BY <1>1, <3>1, <3>2, <3>3, <4>2, StreamKept
    <3>4. ASSUME NEW n, n = Smaller(Len(kernel), BufferSize), pc'[c] = "filled",
                 buffer' = [i \in 1..BufferSize |-> IF i <= n THEN kernel[i] ELSE buffer[i]],
                 count' = [count EXCEPT ![c] = n],
                 kernel' = SubSeq(kernel, n + 1, Len(kernel))
          PROVE  Unread' = Unread
      <4>1. /\ n \in Nat /\ n <= Len(kernel) /\ n <= BufferSize /\ Len(kernel) \in Nat
            /\ \A i \in 1..Len(kernel) : kernel[i] \in Token
        BY <1>4, <2>6, <3>4, SmallerType, LenProperties, ElementOfSeq
      <4> DEFINE a == SubSeq(kernel, 1, n)
                 b == SubSeq(kernel, n + 1, Len(kernel))
                 f == SubSeq(buffer', 1, n)
      <4>2. count'[c] = n /\ Uncounted(c)'
        BY <1>1, <3>4 DEF Uncounted
      <4>3. f = a
        <5>1. \A i \in 1..n : buffer'[i] = kernel[i] /\ kernel[i] \in Token
          BY <2>6, <3>4, <4>1
        <5>2. 1 \in Int /\ n \in Int /\ n - 1 + 1 = n /\ \A i \in 1..n : 1 + i - 1 = i
          BY <4>1
        <5>3. /\ a \in Seq(Token) /\ Len(a) = n /\ \A i \in 1..n : a[i] = kernel[i]
          BY <4>1, <5>1, <5>2, SubSeqProperties
        <5>4. /\ f \in Seq(Token) /\ Len(f) = n /\ \A i \in 1..n : f[i] = buffer'[i]
          BY <4>1, <5>1, <5>2, SubSeqProperties
        <5> HIDE DEF a, f
        <5>5. QED
          BY <5>1, <5>3, <5>4, SeqEqual
      <4>4. a \o b = kernel
        <5>1. /\ 1 \in 1..(Len(kernel) + 1) /\ n \in (1 - 1)..Len(kernel)
              /\ Len(kernel) \in n..Len(kernel)
          BY <4>1
        <5>2. QED
          BY <1>4, <5>1, ConcatAdjacentSubSeq, SubSeqFull
      <4>5. a \in Seq(Token)
        BY <4>1, SubSeqProperties
      <4>6. Held = <<>> /\ Held' = <<>> /\ Filling' = a
        <5>1. SubSeq(buffer, 1, 0) = <<>> /\ SubSeq(buffer', 1, 0) = <<>>
          BY SubSeqEmpty
        <5>2. Held = <<>> /\ Held' = <<>>
          BY <3>1, <5>1 DEF Held
        <5>3. QED
          BY <2>3, <4>2, <4>3, <5>2
      <4>7. /\ Unread = ((<<>> \o <<>>) \o kernel) \o outgoing
            /\ Unread' = ((<<>> \o a) \o b) \o outgoing
        BY <3>1, <3>2, <3>4, <4>6 DEF Unread
      <4> HIDE DEF a, b
      <4>8. <<>> \o <<>> = <<>> /\ <<>> \o kernel = kernel /\ <<>> \o a = a
        BY <1>4, <4>5, ConcatEmptySeq
      <4>9. QED
        BY <4>4, <4>7, <4>8
    <3>5. QED
      <4>1. \/ UNCHANGED <<buffer, count, kernel>>
            \/ \E n : /\ n = Smaller(Len(kernel), BufferSize) /\ pc'[c] = "filled"
                      /\ buffer' = [i \in 1..BufferSize |->
                                     IF i <= n THEN kernel[i] ELSE buffer[i]]
                      /\ count' = [count EXCEPT ![c] = n]
                      /\ kernel' = SubSeq(kernel, n + 1, Len(kernel))
        BY <1>1, <2>11 DEF KernelRead
      <4>2. QED
        BY <3>2, <3>3, <3>4, <4>1
  <2>12. CASE StoreCur(c)
    <3> DEFINE n == count[c]
               rest == kernel \o outgoing
    <3>1. /\ pc[c] = "advancing" /\ pc'[c] = "returned"
          /\ cur' = loaded[c] + n /\ UNCHANGED <<outgoing, kernel, buffer, end, got>>
      BY <1>1, <2>12 DEF StoreCur, AdvanceCursor, Finish
    <3>2. loaded[c] = cur /\ n <= end - cur /\ got[c] = SubSeq(Held, 1, n)
      BY <2>6, <3>1 DEF CursorAt
    <3>3. n \in 0..Len(Held)
      BY <1>4, <2>6, <3>2
    <3>4. Held' = SubSeq(Held, n + 1, Len(Held))
      <4>1. Held' = SubSeq(buffer, (cur + n) + 1, end)
        BY <3>1, <3>2 DEF Held
      <4>2. n \in Nat /\ n <= end - cur
        BY <2>6, <3>2
      <4> HIDE DEF n
      <4>3. QED
        BY <1>1, <1>3, <4>1, <4>2, HeldRest
    <3>5. Filling = <<>> /\ Filling' = <<>>
      BY <2>3, <3>1 DEF Uncounted
    <3>6. Held' \in Seq(Token) /\ rest \in Seq(Token)
      BY <1>4, <2>6, <3>2, <3>4, TailPart, ConcatProperties
    <3>7. /\ Held \o Filling = Held /\ Held' \o Filling' = Held'
          /\ Joined(Held, kernel, outgoing) /\ Joined(Held', kernel, outgoing)
      BY <1>4, <3>5, <3>6, ConcatEmptySeq, JoinedTexts
    <3>8. Unread = Held \o rest /\ Unread' = Held' \o rest
      BY <3>1, <3>7 DEF Unread, Joined
    <3>9. Taken' = [Taken EXCEPT ![c] = SubSeq(Held, 1, n)]
      BY <2>4, <3>1, <3>2
    <3> HIDE DEF n, rest
    <3>10. QED
      BY <1>4, <3>3, <3>4, <3>6, <3>8, <3>9, StreamTakes
  <2>13. QED
    BY <1>9, <2>7, <2>8, <2>9, <2>10, <2>11, <2>12 DEF Step, PollSteps, ReadSteps
<1>10. QED
  BY <1>6, <1>7, <1>8, <1>9 DEF AnyNext

(* Whoever reads takes text from the front of the stream, in order, and none is lost, *)
(* repeated or kept back, for any threads, any sizes of the buffers, any text and any  *)
(* faults of the line, until two commands overlap for the first time.                 *)
THEOREM TurnsAreStreams == Spec => TurnsAreAStream
<1>1. ChannelInv /\ ChannelInv' /\ [Next]_channelVars
        => [raced' \/ Stream!Next]_<<Unread, Taken>>
  <2> SUFFICES ASSUME ChannelInv, ChannelInv', [Next]_channelVars, ~raced'
               PROVE  [Stream!Next]_<<Unread, Taken>>
    OBVIOUS
  <2>1. QED
    BY NextIsAny, StreamNext
<1>2. QED
  BY <1>1, ChannelAlways, PTL DEF Spec, TurnsAreAStream

(* With one thread in the process no two commands overlap, and the port promises all  *)
(* that LineStream does.                                                             *)
THEOREM PortIsAStream ==
  ASSUME NEW me, Clients = {me}
  PROVE  Spec => ImplementsLineStream
<1>1. ChannelInit => Stream!Init /\ ~raced
  <2> SUFFICES ASSUME ChannelInit PROVE Stream!Init /\ ~raced
    OBVIOUS
  <2>1. \A c \in Clients : pc[c] = "idle"
    BY DEF ChannelInit
  <2>2. Held = <<>> /\ Filling = <<>>
    <3>1. SubSeq(buffer, 0 + 1, 0) = <<>>
      BY SubSeqEmpty
    <3>2. QED
      BY <2>1, <3>1 DEF ChannelInit, Held, Filling, Uncounted
  <2>3. <<>> \o <<>> = <<>>
    BY EmptySeq, ConcatEmptySeq
  <2>4. Unread = <<>> /\ Taken = [c \in Clients |-> <<>>]
    BY <2>1, <2>2, <2>3 DEF ChannelInit, Unread, Taken
  <2>5. QED
    BY <2>4 DEF ChannelInit, Stream!Init
<1>2. ChannelInv /\ ~raced /\ [Next]_channelVars
        => ChannelInv' /\ ~raced' /\ [Stream!Next]_<<Unread, Taken>>
  <2> SUFFICES ASSUME ChannelInv, ~raced, [Next]_channelVars
               PROVE  ChannelInv' /\ ~raced' /\ [Stream!Next]_<<Unread, Taken>>
    OBVIOUS
  <2>1. ChannelInv' /\ [AnyNext]_channelVars
    BY NextIsAny, ChannelNext
  <2>2. ~raced'
    <3>1. ASSUME NEW c \in Clients, Step(c)
          PROVE  ~raced'
      BY <3>1, StepFrame DEF ChannelInv
    <3>2. ASSUME NEW c \in Clients, NEW k \in AllCommands, Begin(c, k)
          PROVE  ~raced'
      BY <3>2 DEF Begin
    <3>3. QED
      BY <2>1, <3>1, <3>2
         DEF AnyNext, Modem, Deliver, Unsolicited, HangUp, Return, channelVars, historyVars
  <2>3. QED
    BY <2>1, <2>2, StreamNext
<1>3. QED
  BY <1>1, <1>2, ChannelFirst, PTL DEF Spec, ImplementsLineStream, Stream!Spec

===============================================================================
