---------------------------- MODULE ServeProofs -----------------------------
(***************************************************************************)
(* What the stdio server guarantees for every input, every limit and every *)
(* set of request objects: the descriptors and the count of replies, the   *)
(* framing of lines, and what a reply says of its request.                 *)
(***************************************************************************)
EXTENDS Serve, FiniteSetTheorems, WellFoundedInduction, TLAPS

Stages == {"silence", "load", "restore", "read", "parse", "write", "ended"}

(* The guard, and the lines that are answered. *)
LoopInv ==
  /\ stage \in Stages
  /\ sent \in [Sink -> [chatter : Nat, reply : Nat]]
  /\ lines \in Nat /\ blanks \in Nat
  /\ stage = "silence" => sent["stdout"].chatter = 0
  /\ stage \in {"silence", "load", "restore"} => sent["stdout"].reply = 0
  /\ \/ /\ fd1 = "stdout" /\ saved = "none" /\ lost = "no"
        /\ sent["stderr"].reply = 0
     \/ /\ stage \in {"load", "restore"}
        /\ fd1 = "stderr" /\ saved = "stdout" /\ lost = "no"
        /\ sent["stdout"].chatter = 0 /\ sent["stderr"].reply = 0
     \/ /\ stage \in {"read", "parse", "write", "ended"}
        /\ fd1 = "stderr" /\ saved = "none" /\ lost = "yes"
        /\ sent["stdout"].chatter = 0 /\ sent["stdout"].reply = 0
  /\ Answered + blanks =
       IF stage \in {"parse", "write"} \/ exit = "write" THEN lines - 1 ELSE lines
  /\ stage \in {"parse", "write"} => lines > 0
  /\ exit # "none" => stage = "ended"
  /\ stage = "write" /\ reply.stop = "yes" => request.method = "shutdown"
  /\ exit = "shutdown" => request.method = "shutdown"

(* A framed line is parsed, or it is rejected with a reply. *)
LEMMA FramedEffect ==
  ASSUME NEW long, Framed(long)
  PROVE  /\ lines' = lines + 1
         /\ \/ stage' = "parse" /\ UNCHANGED <<line, reply>>
            \/ /\ stage' = "write" /\ line' = "rejected"
               /\ reply' = Answer("", "invalid_request")
               /\ reply'.stop = "no" /\ reply'.id = ""
               /\ reply'.code = "invalid_request"
<1>1. /\ Answer("", "invalid_request").stop = "no"
      /\ Answer("", "invalid_request").id = ""
      /\ Answer("", "invalid_request").code = "invalid_request"
  BY DEF Answer
<1>. QED
  BY <1>1, Zenon DEF Framed

(* What Take and Eof do to the loop. *)
LEMMA ReadEffect ==
  ASSUME (\E end \in 1..MaxInput : Take(end)) \/ Eof
  PROVE  /\ stage = "read"
         /\ UNCHANGED <<fd1, saved, lost, engine, blanks, sent, request, asked, outcome>>
         /\ \/ UNCHANGED <<stage, line, reply, lines, exit>>
            \/ UNCHANGED exit /\ \E long : Framed(long)
            \/ UNCHANGED <<line, reply, lines>> /\ stage' = "ended" /\ exit' = "eof"
<1>1. ASSUME NEW end \in 1..MaxInput, Take(end)
      PROVE  UNCHANGED <<stage, line, reply, lines>> \/ \E long : Framed(long)
  BY <1>1, Zenon DEF Take
<1>2. ASSUME NEW end \in 1..MaxInput, Take(end)
      PROVE  /\ stage = "read"
             /\ UNCHANGED <<fd1, saved, lost, engine, exit, blanks, sent, request, asked,
                            outcome>>
  BY <1>2 DEF Take, descriptors
<1>3. ASSUME Eof
      PROVE  /\ stage = "read"
             /\ UNCHANGED <<fd1, saved, lost, engine, blanks, sent, request, asked, outcome>>
             /\ \/ UNCHANGED exit /\ \E long : Framed(long)
                \/ UNCHANGED <<line, reply, lines>> /\ stage' = "ended" /\ exit' = "eof"
  BY <1>3, Zenon DEF Eof, descriptors
<1>. QED
  BY <1>1, <1>2, <1>3

(* The counters of what was written where. *)
LEMMA WrittenEffect ==
  ASSUME NEW what \in {"chatter", "reply"}, fd1 \in Sink, Written(what),
         sent \in [Sink -> [chatter : Nat, reply : Nat]]
  PROVE  /\ sent' \in [Sink -> [chatter : Nat, reply : Nat]]
         /\ \A s \in Sink :
              /\ sent'[s].chatter = IF s = fd1 /\ what = "chatter"
                                    THEN sent[s].chatter + 1 ELSE sent[s].chatter
              /\ sent'[s].reply = IF s = fd1 /\ what = "reply"
                                  THEN sent[s].reply + 1 ELSE sent[s].reply
<1>1. CASE what = "chatter"
  <2>1. sent' = [sent EXCEPT ![fd1].chatter = @ + 1]
    BY <1>1 DEF Written
  <2>. QED
    BY <1>1, <2>1
<1>2. CASE what = "reply"
  <2>1. sent' = [sent EXCEPT ![fd1].reply = @ + 1]
    BY <1>2 DEF Written
  <2>. QED
    BY <1>2, <2>1
<1>. QED
  BY <1>1, <1>2

(* Only a shutdown that passes the envelope's checks stops the loop. *)
LEMMA StopsOnShutdown ==
  ASSUME NEW object \in Objects,
         Refuse(object) \/ Simple(object) \/ Embed(object)
  PROVE  reply'.stop = "yes" => request'.method = "shutdown"
<1>1. ASSUME NEW id, NEW code PROVE Answer(id, code).stop = "no"
  BY DEF Answer
<1>2. Envelope(object).stop = "no"
  BY <1>1 DEF Envelope
<1>3. CASE Refuse(object)
  BY <1>2, <1>3 DEF Refuse
<1>4. CASE Simple(object)
  BY <1>4 DEF Simple, Answer
<1>5. CASE Embed(object)
  BY <1>1, <1>5 DEF Embed
<1>. QED
  BY <1>3, <1>4, <1>5

(* Every behaviour of the server keeps the loop invariant. *)
THEOREM LoopInvariant == Spec => []LoopInv
<1>1. Init => LoopInv
  BY DEF Init, LoopInv, Answered, Stages, Sink
<1>2. LoopInv /\ [Next]_vars => LoopInv'
  <2> SUFFICES ASSUME LoopInv, [Next]_vars PROVE LoopInv'
    OBVIOUS
  <2> USE DEF LoopInv, Stages, Answered, reader, exchange, descriptors
  <2>1. CASE NotLoaded \/ Silence \/ LoadReturns \/ Restore
    BY <2>1 DEF NotLoaded, Silence, LoadReturns, Restore
  <2>2. CASE Chatter
    <3>1. /\ stage = "load" /\ fd1 \in Sink /\ Written("chatter")
          /\ UNCHANGED <<stage, fd1, saved, lost, exit, lines, blanks, reply, request>>
      BY <2>2 DEF Chatter, Sink
    <3>2. /\ sent' \in [Sink -> [chatter : Nat, reply : Nat]]
          /\ sent'["stdout"].reply = sent["stdout"].reply
          /\ sent'["stderr"].reply = sent["stderr"].reply
          /\ fd1 = "stderr" => sent'["stdout"].chatter = sent["stdout"].chatter
      BY <3>1, WrittenEffect DEF Sink
    <3>. QED
      BY <3>1, <3>2
  <2>3. CASE (\E end \in 1..MaxInput : Take(end)) \/ Eof
    <3>1. /\ stage = "read" /\ UNCHANGED <<fd1, saved, lost, blanks, sent, request>>
          /\ \/ UNCHANGED <<stage, line, reply, lines, exit>>
             \/ UNCHANGED exit /\ \E long : Framed(long)
             \/ /\ UNCHANGED <<line, reply, lines>>
                /\ stage' = "ended" /\ exit' = "eof"
      BY <2>3, ReadEffect
    <3>2. CASE UNCHANGED <<stage, line, reply, lines, exit>>
      BY <3>1, <3>2
    <3>3. CASE UNCHANGED exit /\ \E long : Framed(long)
      <4>1. /\ lines' = lines + 1 /\ stage' \in {"parse", "write"}
            /\ stage' = "write" => reply'.stop = "no"
        BY <3>3, FramedEffect
      <4>. QED
        BY <3>1, <3>3, <4>1
    <3>4. CASE /\ UNCHANGED <<line, reply, lines>>
               /\ stage' = "ended" /\ exit' = "eof"
      BY <3>1, <3>4
    <3>. QED
      BY <3>1, <3>2, <3>3, <3>4
  <2>4. CASE ReadFails
    BY <2>4 DEF ReadFails
  <2>5. CASE Blank
    <3>1. /\ stage = "parse" /\ stage' = "read" /\ blanks' = blanks + 1
          /\ UNCHANGED <<fd1, saved, lost, exit, lines, sent>>
      BY <2>5 DEF Blank, NextLine
    <3>2. sent["stdout"].reply \in Nat /\ sent["stderr"].reply \in Nat
      BY DEF Sink
    <3>3. exit = "none" /\ Answered + blanks = lines - 1 /\ Answered' = Answered
      BY <3>1
    <3>4. Answered \in Nat
      BY <3>2
    <3>5. Answered' + blanks' = lines'
      <4> HIDE DEF Answered
      <4>. QED
        BY <3>1, <3>3, <3>4
    <3>. QED
      BY <3>1, <3>3, <3>5
  <2>6. ASSUME NEW kind \in Malformations, Malformed(kind) PROVE LoopInv'
    <3>1. /\ stage = "parse" /\ stage' = "write" /\ reply'.stop = "no"
          /\ UNCHANGED <<fd1, saved, lost, exit, lines, blanks, sent, request>>
      BY <2>6 DEF Malformed, Answer
    <3>. QED
      BY <3>1
  <2>7. ASSUME NEW object \in Objects,
               Refuse(object) \/ Simple(object) \/ Embed(object)
        PROVE  LoopInv'
    BY <2>7, StopsOnShutdown DEF Refuse, Simple, Embed
  <2>8. CASE Write
    <3>1. /\ stage = "write" /\ fd1 \in Sink
          /\ Written("reply") /\ exit = "none"
          /\ UNCHANGED <<fd1, saved, lost, lines, blanks>>
          /\ \/ /\ stage' = "ended" /\ exit' = "shutdown" /\ UNCHANGED request
                /\ request.method = "shutdown"
             \/ stage' = "read" /\ UNCHANGED exit
      BY <2>8 DEF Write, NextLine, Sink
    <3>2. /\ sent' \in [Sink -> [chatter : Nat, reply : Nat]]
          /\ \A s \in Sink :
               /\ sent'[s].chatter = sent[s].chatter
               /\ sent'[s].reply =
                    IF s = fd1 THEN sent[s].reply + 1 ELSE sent[s].reply
      BY <3>1, WrittenEffect
    <3>3. sent["stdout"].reply \in Nat /\ sent["stderr"].reply \in Nat
      BY DEF Sink
    <3>4. Answered' + blanks' = lines'
      BY <3>1, <3>2, <3>3 DEF Sink
    <3>. QED
      BY <3>1, <3>2, <3>4 DEF Sink
  <2>9. CASE WriteFails
    BY <2>9 DEF WriteFails
  <2>10. CASE UNCHANGED vars
    BY <2>10 DEF vars
  <2>. QED
    BY <2>1, <2>2, <2>3, <2>4, <2>5, <2>6, <2>7, <2>8, <2>9, <2>10
       DEF Next, ProcessLine
<1>. QED
  BY <1>1, <1>2, PTL DEF Spec

(* Native output never reaches the client while the guard is active, and   *)
(* no reply goes astray, however the load ended (stdio_guard.rs:3-4),      *)
(* unless stdout could not be restored: then stdout carries nothing.       *)
THEOREM StdoutStaysPure == Spec => []StdoutPure
<1>1. LoopInv => StdoutPure
  BY DEF LoopInv, Stages, StdoutPure
<1>. QED
  BY <1>1, LoopInvariant, PTL

(* Every line but a blank one has its one reply (protocol.rs:3-6). *)
THEOREM LinesAreAnsweredOnce == Spec => []OneReplyPerLine
<1>1. LoopInv => OneReplyPerLine
  BY DEF LoopInv, Answered, OneReplyPerLine
<1>. QED
  BY <1>1, LoopInvariant, PTL

-----------------------------------------------------------------------------
(* Nothing of an earlier request is left when a line is parsed. *)
ExchangeInv ==
  /\ stage \in {"silence", "load", "restore", "read", "parse"}
       => request = NoRequest /\ asked = <<>>
  /\ ReplyFitsRequest

(* The request names itself. *)
Named(object) ==
  \/ object.request_id = "string"
  \/ object.request_id = "absent" /\ object.id = "string"

(* A reply to a request that the engine was not asked for fits if it has   *)
(* the request's name.                                                     *)
LEMMA UnaskedFits ==
  ASSUME asked' = <<>>, reply'.id = "string" <=> Named(request')
  PROVE  ReplyFitsRequest'
BY DEF ReplyFitsRequest, Named

(* The envelope's reply has the request's name. *)
LEMMA EnvelopeNamed ==
  ASSUME NEW object \in Objects
  PROVE  /\ Envelope(object).id = "string" <=> Named(object)
         /\ Envelope(object).code \in {"none", "invalid_request"}
<1>1. /\ object.request_id \in {"absent", "string", "bad"}
      /\ object.id \in {"absent", "string", "bad"}
  BY ServeAssumption DEF ObjectType
<1>2. ASSUME NEW id, NEW code
      PROVE  Answer(id, code).id = id /\ Answer(id, code).code = code
  BY DEF Answer
<1>3. GivenId(object) = "string" <=> Named(object)
  BY <1>1 DEF GivenId, Named
<1> DEFINE wrong == \/ object.schema = "bad" \/ object.version = "bad"
                    \/ object.method = "bad" \/ object.params = "bad"
           name == IF GivenId(object) = "absent" THEN "" ELSE GivenId(object)
<1>4. Envelope(object) = IF GivenId(object) = "bad"
                           THEN Answer("", "invalid_request")
                         ELSE IF wrong THEN Answer(name, "invalid_request")
                         ELSE Answer(name, "none")
  BY Zenon DEF Envelope
<1>5. name = "string" <=> GivenId(object) = "string"
  OBVIOUS
<1> HIDE DEF wrong, name
<1>6. CASE GivenId(object) = "bad"
  <2>1. Envelope(object) = Answer("", "invalid_request")
    BY <1>4, <1>6
  <2>2. /\ Answer("", "invalid_request").id = ""
        /\ Answer("", "invalid_request").code = "invalid_request"
    BY DEF Answer
  <2>3. Envelope(object).id = "" /\ Envelope(object).code = "invalid_request"
    BY <2>1, <2>2, Zenon
  <2>. QED
    BY <1>3, <1>6, <2>3
<1>7. CASE GivenId(object) # "bad"
  BY <1>2, <1>3, <1>4, <1>5, <1>7
<1>. QED
  BY <1>6, <1>7

LEMMA NoRequestUnnamed == ~Named(NoRequest)
BY DEF NoRequest, Named

(* Every behaviour of the server keeps the exchange invariant. *)
THEOREM ExchangeInvariant == Spec => []ExchangeInv
<1>1. Init => ExchangeInv
  BY DEF Init, ExchangeInv, ReplyFitsRequest
<1>2. ExchangeInv /\ [Next]_vars => ExchangeInv'
  <2> SUFFICES ASSUME ExchangeInv, [Next]_vars PROVE ExchangeInv'
    OBVIOUS
  <2>0. ASSUME NEW id, NEW code
        PROVE  Answer(id, code).id = id /\ Answer(id, code).code = code
    BY DEF Answer
  <2>1. CASE NotLoaded \/ Silence \/ Chatter \/ LoadReturns \/ Restore
    BY <2>1 DEF NotLoaded, Silence, Chatter, LoadReturns, Restore, exchange,
                ExchangeInv, ReplyFitsRequest
  <2>2. CASE (\E end \in 1..MaxInput : Take(end)) \/ Eof
    <3>1. /\ stage = "read" /\ UNCHANGED <<request, asked>>
          /\ stage' # "write" \/ reply'.id = ""
      BY <2>2, ReadEffect, FramedEffect
    <3>2. ReplyFitsRequest'
      <4>1. CASE stage' = "write"
        BY <3>1, <4>1, UnaskedFits, NoRequestUnnamed DEF ExchangeInv
      <4>2. CASE stage' # "write"
        BY <4>2 DEF ReplyFitsRequest
      <4>. QED
        BY <4>1, <4>2
    <3>. QED
      BY <3>1, <3>2 DEF ExchangeInv
  <2>3. CASE ReadFails \/ WriteFails
    BY <2>3 DEF ReadFails, WriteFails, ExchangeInv, ReplyFitsRequest
  <2>4. CASE Blank
    BY <2>4 DEF Blank, NextLine, ExchangeInv, ReplyFitsRequest
  <2>5. ASSUME NEW kind \in Malformations, Malformed(kind) PROVE ExchangeInv'
    <3>1. /\ stage' = "write" /\ reply'.id = ""
          /\ request' = NoRequest /\ asked' = <<>>
      BY <2>0, <2>5 DEF Malformed, ExchangeInv
    <3>. QED
      BY <3>1, UnaskedFits, NoRequestUnnamed DEF ExchangeInv
  <2>6. ASSUME NEW object \in Objects, Refuse(object) \/ Simple(object)
        PROVE  ExchangeInv'
    <3>1. /\ stage' = "write" /\ request' = object /\ asked' = <<>>
          /\ reply'.id = Envelope(object).id
      BY <2>0, <2>6 DEF Refuse, Simple, ExchangeInv, Answer
    <3>. QED
      BY <3>1, UnaskedFits, EnvelopeNamed DEF ExchangeInv
  <2>7. ASSUME NEW object \in Objects, Embed(object) PROVE ExchangeInv'
    <3>1. /\ stage' = "write" /\ request' = object /\ asked' = Texts(object)
          /\ reply'.id = Envelope(object).id
          /\ UNCHANGED engine
      BY <2>0, <2>7 DEF Embed
    <3>2. CASE Texts(object) = <<>>
      BY <3>1, <3>2, UnaskedFits, EnvelopeNamed DEF ExchangeInv
    <3>3. CASE Texts(object) # <<>>
      <4>1. /\ object.params = "object" /\ object.text # "bad"
            /\ \/ object.method = "embed_query" /\ Texts(object) = <<1>>
               \/ /\ object.method = "embed_batch" /\ Texts(object) = <<object.texts>>
                  /\ object.texts <= MaxBatchItems
        BY <3>3 DEF Texts, BatchFits
      <4>2. object.text = "string" /\ object.texts \in Nat
        BY <4>1, ServeAssumption DEF ObjectType
      <4>3. Texts(object)[1] <= IF object.method = "embed_query" THEN 1
                                ELSE MaxBatchItems
        BY <4>1, <4>2
      <4>4. /\ outcome' \in Outcomes
            /\ reply'.code = EmbedCode(outcome')
        BY <2>0, <2>7, <3>3 DEF Embed
      <4>5. /\ reply'.code \in {"result", "internal_error"}
            /\ reply'.code = "result"
                 => outcome' = "vectors" /\ engine' = "LlamaEngine"
        BY <3>1, <4>4 DEF EmbedCode, Outcomes
      <4>6. reply'.id = "string" <=> Named(object)
        BY <3>1, EnvelopeNamed
      <4>7. ReplyFitsRequest'
        BY <3>1, <4>1, <4>2, <4>3, <4>5, <4>6 DEF ReplyFitsRequest, Named
      <4>. QED
        BY <3>1, <4>7 DEF ExchangeInv
    <3>. QED
      BY <3>2, <3>3
  <2>8. CASE Write
    BY <2>8 DEF Write, NextLine, ExchangeInv, ReplyFitsRequest
  <2>9. CASE UNCHANGED vars
    BY <2>9 DEF vars, exchange, ExchangeInv, ReplyFitsRequest
  <2>. QED
    BY <2>1, <2>2, <2>3, <2>4, <2>5, <2>6, <2>7, <2>8, <2>9 DEF Next, ProcessLine
<1>. QED
  BY <1>1, <1>2, PTL DEF Spec

(* A reply is true of its request and carries its name (protocol.rs:69-71, *)
(* 315-384, 400-419, 462-496, 506-519).                                    *)
THEOREM RepliesFit == Spec => []ReplyFitsRequest
<1>1. ExchangeInv => ReplyFitsRequest
  BY DEF ExchangeInv
<1>. QED
  BY <1>1, ExchangeInvariant, PTL

-----------------------------------------------------------------------------
(* The newlines among the first p bytes, and the bytes of the line that    *)
(* has begun.                                                              *)
Newlines(p) == {j \in 1..p : input[j] = "n"}
Part == {i \in 1..pos : input[i] = "x" /\ Before(i) = lines}

ReaderTypes ==
  /\ input \in Seq({"x", "n"})
  /\ pos \in 0..Len(input)
  /\ buffer \subseteq 1..pos
  /\ oversized \in {"no", "yes"}
  /\ lines \in Nat

(* Every newline so far ended a line; so does the end of the input. *)
LinesCounted ==
  \/ lines = Cardinality(Newlines(pos))
  \/ pos = Len(input) /\ lines = Cardinality(Newlines(pos)) + 1

(* What was read of a line, and what a framed line is. *)
Reading ==
  /\ oversized = "no" => buffer = Part
  /\ oversized = "yes" => Cardinality(Part) > MaxRequestBytes

LineEnded == \A i \in 1..pos : input[i] = "x" => Before(i) < lines

FrameInv ==
  /\ ReaderTypes
  /\ stage # "ended" => LinesCounted
  /\ stage \in {"silence", "load", "restore", "read"} => Reading
  /\ stage \in {"parse", "write"} => LineEnded
  /\ stage \notin {"write", "ended"} => line # "rejected"
  /\ FramesExact

(* How the newlines grow with the prefix. *)
LEMMA CountType ==
  ASSUME NEW p \in Nat
  PROVE  /\ IsFiniteSet(Newlines(p))
         /\ Cardinality(Newlines(p)) \in Nat
         /\ Before(p + 1) = Cardinality(Newlines(p))
<1>1. IsFiniteSet(1..p)
  BY FS_Interval
<1>2. IsFiniteSet(Newlines(p)) /\ Cardinality(Newlines(p)) \in Nat
  BY <1>1, FS_Subset, FS_CardinalityType DEF Newlines
<1>3. (p + 1) - 1 = p
  OBVIOUS
<1>. QED
  BY <1>2, <1>3 DEF Before, Newlines

LEMMA CountMonotone ==
  ASSUME NEW p \in Nat, NEW q \in Nat, p <= q
  PROVE  Cardinality(Newlines(p)) <= Cardinality(Newlines(q))
<1>1. Newlines(p) \subseteq Newlines(q)
  BY DEF Newlines
<1>. QED
  BY <1>1, CountType, FS_Subset

LEMMA CountSame ==
  ASSUME NEW p \in Nat, NEW q \in Nat, p <= q,
         \A i \in (p + 1)..q : input[i] # "n"
  PROVE  Newlines(q) = Newlines(p)
<1>1. ASSUME NEW j \in 1..q, input[j] = "n" PROVE j \in 1..p
  BY <1>1
<1>. QED
  BY <1>1 DEF Newlines

LEMMA CountNext ==
  ASSUME NEW p \in Nat, input[p + 1] = "n"
  PROVE  Cardinality(Newlines(p + 1)) = Cardinality(Newlines(p)) + 1
<1>1. Newlines(p + 1) = Newlines(p) \cup {p + 1}
  BY DEF Newlines
<1>2. p + 1 \notin Newlines(p)
  BY DEF Newlines
<1>. QED
  BY <1>1, <1>2, CountType, FS_AddElement

(* Before(i) counts the newlines of the prefix that ends before i. *)
LEMMA BeforeIsCount ==
  ASSUME NEW i \in Nat \ {0}
  PROVE  Before(i) = Cardinality(Newlines(i - 1)) /\ Before(i) \in Nat
<1>1. i - 1 \in Nat /\ (i - 1) + 1 = i
  OBVIOUS
<1>. QED
  BY <1>1, CountType

(* A nonempty set of numbers has a least one. *)
LEMMA LeastExists ==
  ASSUME NEW S \in SUBSET Nat, S # {}
  PROVE  \E i \in S : \A j \in S : i <= j
<1> DEFINE R == {ss \in Nat \X Nat : ss[1] < ss[2]}
<1>1. IsWellFoundedOn(R, Nat)
  BY NatLessThanWellFounded, Zenon DEF OpToRel
<1>2. PICK i \in S : \A j \in S : ~ (<<j, i>> \in R)
  <2> HIDE DEF R
  <2>. QED
    BY <1>1, WFMin
<1>3. ASSUME NEW j \in S PROVE i <= j
  <2>1. <<j, i>> \notin R /\ <<j, i>> \in Nat \X Nat
    BY <1>2
  <2>2. ~ (j < i)
    BY <2>1, Zenon
  <2>. QED
    BY <2>2
<1>. QED
  BY <1>3

(* What Take reads: bytes up to the first newline of the chunk. *)
LEMMA TakeEffect ==
  ASSUME ReaderTypes, NEW end \in 1..MaxInput, Take(end)
  PROVE  \E stop \in (pos + 1)..(end + 1) :
           /\ end \in (pos + 1)..Len(input)
           /\ \A i \in (pos + 1)..(stop - 1) : input[i] = "x"
           /\ LET content == (pos + 1)..(stop - 1)
                  long == oversized = "yes" \/ TooLong(content)
              IN  /\ buffer' = IF long THEN {} ELSE buffer \cup content
                  /\ oversized' = IF long THEN "yes" ELSE "no"
                  /\ \/ /\ stop = end + 1 /\ pos' = end
                        /\ UNCHANGED <<stage, line, reply, lines>>
                     \/ /\ stop <= end /\ pos' = stop /\ input[stop] = "n"
                        /\ Framed(long)
<1> DEFINE newlines == {i \in (pos + 1)..end : input[i] = "n"}
           stop == IF newlines = {} THEN end + 1
                   ELSE CHOOSE i \in newlines : \A j \in newlines : i <= j
           content == (pos + 1)..(stop - 1)
           long == oversized = "yes" \/ TooLong(content)
<1>1. /\ buffer' = IF long THEN {} ELSE buffer \cup content
      /\ oversized' = Drained(long)
      /\ pos' = Consumed(end, stop)
      /\ IF newlines = {} THEN UNCHANGED <<stage, line, reply, lines>>
                          ELSE Framed(long)
  BY Zenon DEF Take
<1>2. end \in (pos + 1)..Len(input) /\ pos \in Nat /\ Len(input) \in Nat
  BY DEF Take, ReaderTypes
<1>3. /\ newlines = {} => stop = end + 1
      /\ newlines # {} => stop \in newlines /\ \A j \in newlines : stop <= j
  <2>1. newlines \in SUBSET Nat
    BY <1>2
  <2>2. newlines # {} => \E i \in newlines : \A j \in newlines : i <= j
    <3> HIDE DEF newlines
    <3>. QED
      BY <2>1, LeastExists
  <2> HIDE DEF newlines
  <2>. QED
    BY <2>2
<1> HIDE DEF stop
<1>4. stop \in (pos + 1)..(end + 1)
  BY <1>2, <1>3
<1>5. ASSUME NEW i \in (pos + 1)..(stop - 1) PROVE input[i] = "x"
  <2>1. i \in (pos + 1)..end /\ i < stop
    BY <1>2, <1>4
  <2>2. i \notin newlines
    BY <1>2, <1>3, <2>1
  <2>3. input[i] \in {"x", "n"}
    BY <1>2, <2>1 DEF ReaderTypes
  <2>. QED
    BY <2>1, <2>2, <2>3
<1>6. CASE newlines = {}
  <2>1. stop = end + 1 /\ pos' = end
    BY <1>1, <1>2, <1>3, <1>6 DEF Consumed
  <2>2. UNCHANGED <<stage, line, reply, lines>>
    BY <1>1, <1>6, Zenon
  <2> HIDE DEF newlines
  <2>. QED
    BY <1>1, <1>2, <1>4, <1>5, <2>1, <2>2 DEF Drained
<1>7. CASE newlines # {}
  <2>1. stop <= end /\ pos' = stop /\ input[stop] = "n"
    BY <1>1, <1>2, <1>3, <1>7 DEF Consumed
  <2>2. Framed(long)
    BY <1>1, <1>7, Zenon
  <2> HIDE DEF newlines
  <2>. QED
    BY <1>1, <1>2, <1>4, <1>5, <2>1, <2>2 DEF Drained
<1>. QED
  BY <1>6, <1>7

(* The bytes taken extend the line that has begun, and are held against    *)
(* the limit together with what was collected of it.                       *)
LEMMA TakeExtends ==
  ASSUME ReaderTypes, Reading, Cardinality(buffer) <= MaxRequestBytes,
         lines = Cardinality(Newlines(pos)),
         NEW stop \in Nat, pos < stop, stop - 1 <= Len(input),
         \A i \in (pos + 1)..(stop - 1) : input[i] = "x"
  PROVE  LET content == (pos + 1)..(stop - 1)
             long == oversized = "yes" \/ TooLong(content)
         IN  /\ Part \cup content =
                  {i \in 1..(stop - 1) : input[i] = "x" /\ Before(i) = lines}
             /\ Newlines(stop - 1) = Newlines(pos)
             /\ long => Cardinality(Part \cup content) > MaxRequestBytes
             /\ ~long => /\ buffer \cup content = Part \cup content
                         /\ Cardinality(Part \cup content) <= MaxRequestBytes
<1> DEFINE content == (pos + 1)..(stop - 1)
           long == oversized = "yes" \/ TooLong(content)
<1>0. pos \in Nat /\ Len(input) \in Nat /\ stop - 1 \in Nat /\ pos <= stop - 1
  BY DEF ReaderTypes
<1>1. Newlines(stop - 1) = Newlines(pos)
  <2>1. \A i \in (pos + 1)..(stop - 1) : input[i] # "n"
    OBVIOUS
  <2>. QED
    BY <1>0, <2>1, CountSame
<1>2. ASSUME NEW i \in content PROVE Before(i) = lines
  <2>1. i \in Nat \ {0} /\ i - 1 \in Nat /\ pos <= i - 1
    BY <1>0
  <2>2. \A j \in (pos + 1)..(i - 1) : input[j] # "n"
    <3>1. ASSUME NEW j \in (pos + 1)..(i - 1) PROVE j \in (pos + 1)..(stop - 1)
      BY <1>0, <1>2
    <3>. QED
      BY <3>1
  <2>3. Newlines(i - 1) = Newlines(pos)
    BY <1>0, <2>1, <2>2, CountSame
  <2>. QED
    BY <2>1, <2>3, BeforeIsCount
<1>3. Part \cup content =
        {i \in 1..(stop - 1) : input[i] = "x" /\ Before(i) = lines}
  <2>1. ASSUME NEW i \in content PROVE i \in 1..(stop - 1) /\ input[i] = "x"
    BY <1>0
  <2>2. ASSUME NEW i \in Part PROVE i \in 1..(stop - 1)
    BY <1>0 DEF Part
  <2>3. ASSUME NEW i \in 1..(stop - 1), i \notin content PROVE i \in 1..pos
    BY <1>0, <2>3
  <2> HIDE DEF content
  <2>. QED
    BY <1>2, <2>1, <2>2, <2>3 DEF Part
<1>4. /\ IsFiniteSet(Part) /\ IsFiniteSet(content) /\ IsFiniteSet(Part \cup content)
      /\ Cardinality(Part) \in Nat /\ Cardinality(content) \in Nat
      /\ Part \cap content = {}
  <2>1. IsFiniteSet(1..pos) /\ IsFiniteSet(content)
    BY <1>0, FS_Interval
  <2>2. IsFiniteSet(Part)
    BY <2>1, FS_Subset DEF Part
  <2>3. Part \cap content = {}
    BY <1>0 DEF Part
  <2> HIDE DEF content
  <2>. QED
    BY <2>1, <2>2, <2>3, FS_Union, FS_CardinalityType
<1> HIDE DEF content
<1>5. /\ Cardinality(Part \cup content) = Cardinality(Part) + Cardinality(content)
      /\ Cardinality(Part) <= Cardinality(Part \cup content)
  <2>1. Cardinality(Part \cup content)
          = Cardinality(Part) + Cardinality(content) - Cardinality(Part \cap content)
    BY <1>4, FS_Union
  <2>2. Cardinality(Part \cap content) = 0
    BY <1>4, FS_EmptySet
  <2>. QED
    BY <1>4, <2>1, <2>2
<1>6. ASSUME long PROVE Cardinality(Part \cup content) > MaxRequestBytes
  <2>1. CASE oversized = "yes"
    BY <1>4, <1>5, <2>1, ServeAssumption DEF Reading
  <2>2. CASE oversized = "no" /\ TooLong(content)
    BY <1>5, <2>2 DEF Reading, TooLong
  <2>. QED
    BY <1>6, <2>1, <2>2 DEF ReaderTypes
<1>7. ASSUME ~long
      PROVE  /\ buffer \cup content = Part \cup content
             /\ Cardinality(Part \cup content) <= MaxRequestBytes
  <2>1. oversized = "no" /\ ~TooLong(content)
    BY <1>7 DEF ReaderTypes
  <2>. QED
    BY <1>4, <1>5, <2>1, ServeAssumption DEF Reading, TooLong
<1>. QED
  BY <1>1, <1>3, <1>6, <1>7 DEF content

(* The names of the prefix depend on the input alone. *)
LEMMA SameInput ==
  ASSUME UNCHANGED input
  PROVE  /\ \A i : Before(i)' = Before(i)
         /\ \A p : Newlines(p)' = Newlines(p)
         /\ \A k : Line(k)' = Line(k)
BY DEF Before, Newlines, Line

(* Taking a chunk keeps the framing. *)
LEMMA TakeKeepsFrames ==
  ASSUME FrameInv, LoopInv, NEW end \in 1..MaxInput, Take(end)
  PROVE  FrameInv'
<1>1. PICK stop \in (pos + 1)..(end + 1) :
        /\ end \in (pos + 1)..Len(input)
        /\ \A i \in (pos + 1)..(stop - 1) : input[i] = "x"
        /\ LET content == (pos + 1)..(stop - 1)
               long == oversized = "yes" \/ TooLong(content)
           IN  /\ buffer' = IF long THEN {} ELSE buffer \cup content
               /\ oversized' = IF long THEN "yes" ELSE "no"
               /\ \/ /\ stop = end + 1 /\ pos' = end
                     /\ UNCHANGED <<stage, line, reply, lines>>
                  \/ /\ stop <= end /\ pos' = stop /\ input[stop] = "n"
                     /\ Framed(long)
  BY TakeEffect DEF FrameInv
<1> DEFINE content == (pos + 1)..(stop - 1)
           long == oversized = "yes" \/ TooLong(content)
           whole == Part \cup content
<1>2. /\ stage = "read" /\ exit = "none" /\ UNCHANGED <<exit, input>>
      /\ input \in Seq({"x", "n"}) /\ Len(input) \in Nat /\ lines \in Nat
      /\ pos \in Nat /\ pos < Len(input) /\ stop \in Nat /\ pos < stop
      /\ stop - 1 <= Len(input) /\ stop - 1 \in Nat
      /\ lines = Cardinality(Newlines(pos))
      /\ line # "rejected"
  <2>1. stage = "read" /\ UNCHANGED <<exit, input>>
    BY DEF Take
  <2>2. exit = "none" /\ lines \in Nat /\ line # "rejected"
    BY <2>1 DEF LoopInv, FrameInv
  <2>3. /\ input \in Seq({"x", "n"}) /\ Len(input) \in Nat /\ pos \in Nat
        /\ LinesCounted
    BY <2>1 DEF FrameInv, ReaderTypes
  <2>4. /\ pos < Len(input) /\ stop \in Nat /\ pos < stop
        /\ stop - 1 <= Len(input) /\ stop - 1 \in Nat
    BY <1>1, <2>3
  <2>. QED
    BY <2>1, <2>2, <2>3, <2>4 DEF LinesCounted
<1>3. /\ whole = {i \in 1..(stop - 1) : input[i] = "x" /\ Before(i) = lines}
      /\ Newlines(stop - 1) = Newlines(pos)
      /\ long => Cardinality(whole) > MaxRequestBytes
      /\ ~long => /\ buffer \cup content = whole
                  /\ Cardinality(whole) <= MaxRequestBytes
  BY <1>1, <1>2, TakeExtends DEF FrameInv, FramesExact
<1>4. /\ buffer' = IF long THEN {} ELSE whole
      /\ oversized' = IF long THEN "yes" ELSE "no"
      /\ \/ /\ stop = end + 1 /\ pos' = end
            /\ UNCHANGED <<stage, line, reply, lines>>
         \/ /\ stop <= end /\ pos' = stop /\ input[stop] = "n"
            /\ Framed(long)
  BY <1>1, <1>3
<1>5. /\ Cardinality(buffer') <= MaxRequestBytes
      /\ oversized' = "yes" => buffer' = {}
  <2>1. CASE long
    BY <1>4, <2>1, FS_EmptySet, ServeAssumption
  <2>2. CASE ~long
    BY <1>3, <1>4, <2>2
  <2>. QED
    BY <2>1, <2>2
<1>6. /\ \A i : Before(i)' = Before(i)
      /\ \A p : Newlines(p)' = Newlines(p)
      /\ \A k : Line(k)' = Line(k)
  BY <1>2, SameInput
<1> HIDE DEF long, content
<1>7. pos' \in 0..Len(input)' /\ stop - 1 <= pos'
  BY <1>1, <1>2, <1>4
<1>8. ReaderTypes'
  <2>1. lines' \in Nat
    <3>1. lines' = lines \/ lines' = lines + 1
      BY <1>4, Zenon DEF Framed
    <3>. QED
      BY <1>2, <3>1
  <2>2. buffer' \subseteq 1..pos'
    BY <1>2, <1>3, <1>4, <1>7
  <2>3. oversized' \in {"no", "yes"}
    BY <1>4
  <2>. QED
    BY <1>2, <1>7, <2>1, <2>2, <2>3 DEF ReaderTypes
<1>9. CASE /\ stop = end + 1 /\ pos' = end
           /\ UNCHANGED <<stage, line, reply, lines>>
  <2>1. pos' = stop - 1
    BY <1>1, <1>2, <1>9
  <2>2. Part' = whole
    BY <1>2, <1>3, <1>6, <1>9, <2>1 DEF Part
  <2>3. LinesCounted'
    BY <1>2, <1>3, <1>9, <2>1 DEF LinesCounted, Newlines
  <2>4. Reading'
    BY <1>3, <1>4, <2>2 DEF Reading
  <2>5. FramesExact'
    BY <1>2, <1>5, <1>9 DEF FramesExact
  <2>. QED
    BY <1>2, <1>8, <1>9, <2>3, <2>4, <2>5 DEF FrameInv
<1>10. CASE /\ stop <= end /\ pos' = stop /\ input[stop] = "n"
            /\ Framed(long)
  <2>1. /\ lines' = lines + 1
        /\ \/ ~long /\ stage' = "parse" /\ line' = line
           \/ long /\ stage' = "write" /\ line' = "rejected"
    BY <1>10, Zenon DEF Framed
  <2>2. Cardinality(Newlines(stop)) = lines + 1
    BY <1>2, <1>3, <1>10, CountNext
  <2>3. LinesCounted'
    BY <1>2, <1>10, <2>1, <2>2 DEF LinesCounted, Newlines
  <2>4. ASSUME NEW i \in 1..stop, input[i] = "x" PROVE Before(i) <= lines
    <3>1. i \in Nat \ {0} /\ i - 1 \in Nat /\ i - 1 <= stop - 1
      BY <1>2, <2>4
    <3>2. Cardinality(Newlines(i - 1)) <= Cardinality(Newlines(stop - 1))
      BY <1>2, <3>1, CountMonotone
    <3>. QED
      BY <1>2, <1>3, <3>1, <3>2, BeforeIsCount
  <2>5. LineEnded'
    <3>1. ASSUME NEW i \in 1..stop, input[i] = "x" PROVE Before(i) < lines + 1
      <4>1. Before(i) \in Nat
        BY <1>2, BeforeIsCount
      <4>. QED
        BY <1>2, <2>4, <3>1, <4>1
    <3>. QED
      BY <1>2, <1>6, <1>10, <2>1, <3>1 DEF LineEnded
  <2>6. ASSUME NEW i \in 1..Len(input), stop < i PROVE Before(i) > lines
    <3>1. i \in Nat \ {0} /\ i - 1 \in Nat /\ stop <= i - 1
      BY <1>2, <2>6
    <3>2. Cardinality(Newlines(stop)) <= Cardinality(Newlines(i - 1))
      BY <1>2, <3>1, CountMonotone
    <3>3. /\ Before(i) = Cardinality(Newlines(i - 1))
          /\ Cardinality(Newlines(i - 1)) \in Nat
      BY <3>1, BeforeIsCount, CountType
    <3>. QED
      BY <1>2, <2>2, <3>2, <3>3
  <2>7. Line(lines') = whole
    <3>1. lines' - 1 = lines
      BY <1>2, <2>1
    <3>2. ASSUME NEW i \in 1..Len(input), input[i] = "x", Before(i) = lines
          PROVE  i \in 1..(stop - 1)
      <4>1. i # stop /\ ~(stop < i)
        BY <1>2, <1>10, <2>6, <3>2
      <4>. QED
        BY <1>2, <3>2, <4>1
    <3>3. ASSUME NEW i \in 1..(stop - 1) PROVE i \in 1..Len(input)
      BY <1>2
    <3>. QED
      BY <1>3, <3>1, <3>2, <3>3 DEF Line
  <2>8. FramesExact'
    <3>1. Line(lines)' = whole
      BY <1>2, <1>6, <2>7 DEF Line, Before
    <3>. QED
      BY <1>2, <1>3, <1>4, <1>5, <2>1, <3>1 DEF FramesExact
  <2>. QED
    BY <1>2, <1>8, <2>1, <2>3, <2>5, <2>8 DEF FrameInv
<1>. QED
  BY <1>4, <1>9, <1>10

(* So does the end of the input, which ends a line that has begun. *)
LEMMA EofKeepsFrames ==
  ASSUME FrameInv, LoopInv, Eof
  PROVE  FrameInv'
<1>1. /\ stage = "read" /\ pos = Len(input) /\ exit = "none"
      /\ UNCHANGED <<input, pos, buffer, oversized>>
  BY DEF Eof, reader, LoopInv
<1>2. /\ pos \in Nat /\ lines \in Nat /\ ReaderTypes /\ LinesCounted /\ Reading
      /\ line # "rejected" /\ FramesExact
  BY <1>1 DEF FrameInv, ReaderTypes
<1>3. /\ \A j : Before(j)' = Before(j)
      /\ \A p : Newlines(p)' = Newlines(p)
      /\ \A k : Line(k)' = Line(k)
  BY <1>1, SameInput
<1>4. ASSUME NEW j \in 1..pos
      PROVE  Before(j) \in Nat /\ Before(j) <= Cardinality(Newlines(pos))
  <2>1. j \in Nat \ {0} /\ j - 1 \in Nat /\ j - 1 <= pos
    BY <1>2
  <2>. QED
    BY <1>2, <2>1, BeforeIsCount, CountMonotone
<1>5. Cardinality(Newlines(pos)) \in Nat
  BY <1>2, CountType
<1>6. CASE oversized = "no" /\ buffer = {}
  <2>1. stage' = "ended" /\ exit' = "eof" /\ UNCHANGED <<line, lines>>
    BY <1>6, Zenon DEF Eof
  <2>2. ASSUME NEW j \in 1..Len(input), input[j] = "x" PROVE Before(j) < lines
    <3>1. j \notin Part
      BY <1>2, <1>6 DEF Reading
    <3>2. Before(j) # lines
      BY <1>1, <2>2, <3>1 DEF Part
    <3>. QED
      BY <1>1, <1>2, <1>4, <1>5, <3>2 DEF LinesCounted
  <2>3. FramesExact'
    BY <1>1, <1>2, <1>3, <2>1, <2>2 DEF FramesExact
  <2>. QED
    BY <1>1, <1>2, <2>1, <2>3 DEF FrameInv, ReaderTypes
<1>7. CASE ~(oversized = "no" /\ buffer = {})
  <2>1. /\ UNCHANGED exit /\ lines' = lines + 1
        /\ \/ oversized = "no" /\ stage' = "parse" /\ line' = line
           \/ oversized = "yes" /\ stage' = "write" /\ line' = "rejected"
    <3>1. Framed(oversized = "yes") /\ UNCHANGED exit
      BY <1>7, Zenon DEF Eof
    <3>2. CASE oversized = "yes"
      BY <3>1, <3>2 DEF Framed
    <3>3. CASE oversized = "no"
      BY <3>1, <3>3 DEF Framed
    <3>. QED
      BY <1>2, <3>2, <3>3 DEF ReaderTypes
  <2>2. lines = Cardinality(Newlines(pos))
    <3>1. Part # {}
      <4>1. CASE oversized = "yes"
        BY <1>2, <4>1, FS_EmptySet, ServeAssumption DEF Reading
      <4>2. CASE oversized = "no"
        BY <1>2, <1>7, <4>2 DEF Reading
      <4>. QED
        BY <1>2, <4>1, <4>2 DEF ReaderTypes
    <3>2. PICK j \in 1..pos : Before(j) = lines
      BY <3>1 DEF Part
    <3>. QED
      BY <1>2, <1>4, <1>5, <3>2 DEF LinesCounted
  <2>3. Line(lines') = Part
    <3>1. lines' - 1 = lines
      BY <1>2, <2>1
    <3>. QED
      BY <1>1, <3>1 DEF Line, Part
  <2>4. Line(lines)' = Part
    BY <1>1, <2>3 DEF Line, Before
  <2>5. FramesExact'
    BY <1>1, <1>2, <2>1, <2>4 DEF FramesExact, Reading
  <2>6. LineEnded'
    BY <1>1, <1>2, <1>3, <1>4, <2>1, <2>2 DEF LineEnded
  <2>7. LinesCounted'
    BY <1>1, <1>3, <2>1, <2>2 DEF LinesCounted
  <2>. QED
    BY <1>1, <1>2, <2>1, <2>5, <2>6, <2>7 DEF FrameInv, ReaderTypes
<1>. QED
  BY <1>6, <1>7

(* The next line begins empty. *)
LEMMA NextLineKeepsFrames ==
  ASSUME FrameInv, LoopInv, stage \in {"parse", "write"}, NextLine,
         UNCHANGED <<input, pos, lines, exit>>
  PROVE  FrameInv'
<1>1. /\ ReaderTypes /\ LinesCounted /\ LineEnded /\ exit = "none"
      /\ buffer' = {} /\ oversized' = "no" /\ stage' = "read" /\ line' = "none"
  BY DEF FrameInv, LoopInv, NextLine
<1>2. /\ \A j : Before(j)' = Before(j)
      /\ \A p : Newlines(p)' = Newlines(p)
  BY SameInput
<1>3. Part' = {}
  <2>1. ASSUME NEW j \in 1..pos, input[j] = "x" PROVE Before(j) # lines
    <3>1. j \in Nat \ {0} /\ Before(j) < lines
      BY <1>1, <2>1 DEF LineEnded, ReaderTypes
    <3>2. Before(j) \in Nat
      BY <3>1, BeforeIsCount
    <3>. QED
      BY <1>1, <3>1, <3>2 DEF ReaderTypes
  <2>. QED
    BY <1>2, <2>1 DEF Part
<1>4. LinesCounted' /\ Reading'
  BY <1>1, <1>2, <1>3 DEF LinesCounted, Reading
<1>5. FramesExact'
  BY <1>1, FS_EmptySet, ServeAssumption DEF FramesExact
<1>. QED
  BY <1>1, <1>4, <1>5 DEF FrameInv, ReaderTypes

(* Other steps leave the reader alone. *)
LEMMA OthersKeepFrames ==
  ASSUME FrameInv, LoopInv, UNCHANGED <<reader, lines>>, stage' \in Stages,
         stage' # stage => stage # "ended" /\ stage' # "parse",
         stage' \in {"load", "restore", "read"}
           => stage' = stage \/ stage \in {"silence", "load", "restore"},
         stage' = "silence" => stage = "silence",
         stage' = "write" => stage \in {"parse", "write"},
         UNCHANGED line \/ line' # "rejected",
         exit' = "eof" => UNCHANGED exit
  PROVE  FrameInv'
<1>1. UNCHANGED <<input, pos, buffer, oversized, lines>>
  BY DEF reader
<1>2. /\ \A j : Before(j)' = Before(j)
      /\ \A p : Newlines(p)' = Newlines(p)
      /\ \A k : Line(k)' = Line(k)
  BY <1>1, SameInput
<1>3. UNCHANGED Part
  BY <1>1, <1>2 DEF Part
<1>4. Line(lines)' = Line(lines)
  BY <1>1 DEF Line, Before
<1>5. ReaderTypes' /\ (LinesCounted => LinesCounted') /\ (Reading => Reading')
      /\ (LineEnded => LineEnded')
  BY <1>1, <1>2, <1>3
     DEF FrameInv, ReaderTypes, LinesCounted, Reading, LineEnded
<1>6. FramesExact'
  BY <1>1, <1>2, <1>4 DEF FrameInv, FramesExact, LoopInv, Stages
<1>. QED
  BY <1>5, <1>6 DEF FrameInv, LoopInv, Stages

(* Every behaviour of the server keeps the framing. *)
THEOREM FrameInvariant == Spec => []FrameInv
<1>1. Init => FrameInv
  <2> SUFFICES ASSUME Init PROVE FrameInv
    OBVIOUS
  <2>1. PICK n \in 0..MaxInput : input \in [1..n -> {"x", "n"}]
    BY DEF Init
  <2>2. input \in Seq({"x", "n"}) /\ Len(input) \in Nat
    BY <2>1, ServeAssumption
  <2>3. Newlines(0) = {} /\ Part = {} /\ Cardinality({}) = 0
    BY FS_EmptySet DEF Init, Newlines, Part
  <2>4. /\ pos = 0 /\ buffer = {} /\ oversized = "no" /\ lines = 0
    BY DEF Init
  <2>5. ReaderTypes /\ LinesCounted /\ Reading
    <3>1. ReaderTypes
      BY <2>2, <2>4 DEF ReaderTypes
    <3>2. Cardinality(Newlines(pos)) = 0
      BY <2>3, <2>4, Zenon
    <3>. QED
      BY <2>3, <2>4, <3>1, <3>2 DEF LinesCounted, Reading
  <2>6. FramesExact
    BY <2>3, ServeAssumption DEF Init, FramesExact
  <2>. QED
    BY <2>5, <2>6 DEF Init, FrameInv
<1>2. LoopInv /\ FrameInv /\ [Next]_vars => FrameInv'
  <2> SUFFICES ASSUME LoopInv, FrameInv, [Next]_vars PROVE FrameInv'
    OBVIOUS
  <2>1. CASE NotLoaded \/ Silence \/ Chatter \/ LoadReturns \/ Restore
    BY <2>1, OthersKeepFrames
       DEF NotLoaded, Silence, Chatter, LoadReturns, Restore, exchange, Stages
  <2>2. ASSUME NEW end \in 1..MaxInput, Take(end) PROVE FrameInv'
    BY <2>2, TakeKeepsFrames
  <2>3. CASE Eof
    BY <2>3, EofKeepsFrames
  <2>4. CASE ReadFails \/ WriteFails
    BY <2>4, OthersKeepFrames DEF ReadFails, WriteFails, exchange, Stages
  <2>5. CASE Blank
    BY <2>5, NextLineKeepsFrames DEF Blank
  <2>6. ASSUME NEW kind \in Malformations, Malformed(kind) PROVE FrameInv'
    BY <2>6, OthersKeepFrames DEF Malformed, Malformations, Stages
  <2>7. ASSUME NEW object \in Objects,
               Refuse(object) \/ Simple(object) \/ Embed(object)
        PROVE  FrameInv'
    BY <2>7, OthersKeepFrames DEF Refuse, Simple, Embed, Stages
  <2>8. CASE Write
    <3>1. CASE reply.stop = "yes"
      <4>1. /\ stage = "write" /\ stage' = "ended" /\ exit' = "shutdown"
            /\ UNCHANGED <<reader, lines, line>>
        BY <2>8, <3>1 DEF Write, reader, exchange
      <4>. QED
        BY <4>1, OthersKeepFrames DEF Stages
    <3>2. CASE reply.stop # "yes"
      BY <2>8, <3>2, NextLineKeepsFrames DEF Write
    <3>. QED
      BY <3>1, <3>2
  <2>9. CASE UNCHANGED vars
    BY <2>9, OthersKeepFrames DEF vars, exchange, LoopInv
  <2>. QED
    BY <2>1, <2>2, <2>3, <2>4, <2>5, <2>6, <2>7, <2>8, <2>9 DEF Next, ProcessLine
<1>. QED
  BY <1>1, <1>2, LoopInvariant, PTL DEF Spec

(* However the bytes arrive, the k-th request is the k-th line of the      *)
(* input and exactly the lines over the limit are rejected                 *)
(* (protocol.rs:178-224).                                                  *)
THEOREM LinesAreFramed == Spec => []FramesExact
<1>1. FrameInv => FramesExact
  BY DEF FrameInv
<1>. QED
  BY <1>1, FrameInvariant, PTL

-----------------------------------------------------------------------------
(* The part of TypeOK that the other invariants do not give. *)
Replies == [id : {"", "string"}, code : Codes, stop : {"no", "yes"}]

RestTypes ==
  /\ engine \in {"none", "LlamaEngine", "UnreadyEngine", "error", "panic"}
  /\ exit \in {"none", "load", "eof", "read", "write", "shutdown"}
  /\ filled \in pos..Len(input)
  /\ line \in {"none", "rejected", "object"} \cup Malformations
  /\ request \in ObjectType
  /\ asked \in Seq(Nat)
  /\ outcome \in {"none", "vectors", "error", "count", "dims"}
  /\ reply \in Replies

(* Every answer is a reply. *)
LEMMA AnswerIsReply ==
  ASSUME NEW id \in {"", "string"}, NEW code \in Codes
  PROVE  Answer(id, code) \in Replies
BY DEF Answer, Replies

LEMMA EnvelopeIsReply ==
  ASSUME NEW object \in Objects
  PROVE  Envelope(object) \in Replies /\ Envelope(object).id \in {"", "string"}
<1> DEFINE wrong == \/ object.schema = "bad" \/ object.version = "bad"
                    \/ object.method = "bad" \/ object.params = "bad"
           name == IF GivenId(object) = "absent" THEN "" ELSE GivenId(object)
<1>1. Envelope(object) = IF GivenId(object) = "bad"
                           THEN Answer("", "invalid_request")
                         ELSE IF wrong THEN Answer(name, "invalid_request")
                         ELSE Answer(name, "none")
  BY Zenon DEF Envelope
<1>2. GivenId(object) \in {"absent", "string", "bad"}
  BY ServeAssumption DEF GivenId, ObjectType
<1>3. GivenId(object) # "bad" => name \in {"", "string"}
  BY <1>2
<1>4. "none" \in Codes /\ "invalid_request" \in Codes /\ "" \in {"", "string"}
  BY DEF Codes
<1> HIDE DEF wrong, name
<1>5. Envelope(object) \in Replies
  BY <1>1, <1>3, <1>4, AnswerIsReply
<1>. QED
  BY <1>5 DEF Replies

(* Every behaviour of the server keeps the types. *)
THEOREM ServeTypeCorrect == Spec => []TypeOK
<1>1. Init => RestTypes
  <2> SUFFICES ASSUME Init PROVE RestTypes
    OBVIOUS
  <2>1. NoReply \in Replies
    BY DEF NoReply, Replies, Codes
  <2>2. NoRequest \in ObjectType
    BY ServeAssumption DEF NoRequest, ObjectType, Methods
  <2>3. Len(input) \in Nat
    BY ServeAssumption DEF Init
  <2>. QED
    BY <2>1, <2>2, <2>3 DEF Init, RestTypes
<1>2. LoopInv /\ FrameInv /\ FrameInv' /\ RestTypes /\ [Next]_vars => RestTypes'
  <2> SUFFICES ASSUME LoopInv, FrameInv, FrameInv', RestTypes, [Next]_vars
               PROVE  RestTypes'
    OBVIOUS
  <2>0. /\ NoReply \in Replies /\ NoRequest \in ObjectType
        /\ Objects \subseteq ObjectType /\ MaxBatchItems \in Nat
    BY ServeAssumption DEF NoReply, Replies, Codes, NoRequest, ObjectType, Methods
  <2> USE DEF RestTypes, reader, exchange
  <2>1. CASE NotLoaded \/ Silence \/ Chatter \/ LoadReturns \/ Restore
    BY <2>1 DEF NotLoaded, Silence, Chatter, LoadReturns, Restore
  <2>2. CASE (\E end \in 1..MaxInput : Take(end)) \/ Eof
    <3>1. /\ UNCHANGED <<engine, request, asked, outcome, input>>
          /\ exit' \in {exit, "eof"}
      BY <2>2, ReadEffect DEF Take, Eof
    <3>2. /\ line' \in {line, "rejected"}
          /\ reply' \in {reply, Answer("", "invalid_request")}
      BY <2>2, ReadEffect, FramedEffect, Zenon
    <3>3. Answer("", "invalid_request") \in Replies
      BY AnswerIsReply DEF Codes
    <3>4. filled' \in pos'..Len(input)
      <4>1. CASE Eof
        BY <4>1 DEF Eof
      <4>2. ASSUME NEW end \in 1..MaxInput, Take(end) PROVE filled' \in pos'..Len(input)
        <5>1. filled' = end /\ end \in (pos + 1)..Len(input) /\ pos \in Nat
              /\ Len(input) \in Nat
          BY <4>2 DEF Take, FrameInv, ReaderTypes
        <5>2. pos' <= end /\ pos' \in Nat
          <6>1. PICK stop \in (pos + 1)..(end + 1) :
                  (pos' = stop /\ stop <= end) \/ pos' = end
            BY <4>2, TakeEffect DEF FrameInv
          <6>. QED
            BY <5>1, <6>1
        <5>. QED
          BY <5>1, <5>2
      <4>. QED
        BY <2>2, <4>1, <4>2
    <3>. QED
      BY <3>1, <3>2, <3>3, <3>4
  <2>3. CASE ReadFails \/ WriteFails
    BY <2>3 DEF ReadFails, WriteFails
  <2>4. CASE Blank
    BY <2>0, <2>4 DEF Blank, NextLine
  <2>5. ASSUME NEW kind \in Malformations, Malformed(kind) PROVE RestTypes'
    <3>1. reply' \in Replies
      BY <2>5, AnswerIsReply DEF Malformed, Codes
    <3>. QED
      BY <2>5, <3>1 DEF Malformed
  <2>6. ASSUME NEW object \in Objects, Refuse(object) PROVE RestTypes'
    BY <2>0, <2>6, EnvelopeIsReply DEF Refuse
  <2>7. ASSUME NEW object \in Objects, Simple(object) PROVE RestTypes'
    <3>1. reply' \in Replies
      <4>1. PICK code \in {"unknown_method", "result"}, stop \in {"no", "yes"} :
                reply' = [Answer(Envelope(object).id, code) EXCEPT !.stop = stop]
        BY <2>7 DEF Simple
      <4>2. Answer(Envelope(object).id, code) \in Replies
        BY AnswerIsReply, EnvelopeIsReply DEF Codes
      <4>. QED
        BY <4>1, <4>2 DEF Replies
    <3>. QED
      BY <2>0, <2>7, <3>1 DEF Simple
  <2>8. ASSUME NEW object \in Objects, Embed(object) PROVE RestTypes'
    <3>1. object.texts \in Nat
      BY <2>0 DEF ObjectType
    <3>2. Texts(object) \in Seq(Nat)
      BY <3>1 DEF Texts
    <3>3. /\ outcome' \in {"none", "vectors", "error", "count", "dims"}
          /\ reply' \in Replies
      <4>1. CASE Texts(object) = <<>>
        BY <2>8, <4>1, AnswerIsReply, EnvelopeIsReply DEF Embed, Codes
      <4>2. CASE Texts(object) # <<>>
        <5>1. PICK result \in Outcomes :
                     /\ outcome' = result
                     /\ reply' = Answer(Envelope(object).id, EmbedCode(result))
          BY <2>8, <4>2 DEF Embed
        <5>2. EmbedCode(result) \in Codes
          BY DEF EmbedCode, Codes
        <5>. QED
          BY <5>1, <5>2, AnswerIsReply, EnvelopeIsReply DEF Outcomes
      <4>. QED
        BY <4>1, <4>2
    <3>. QED
      BY <2>0, <2>8, <3>2, <3>3 DEF Embed
  <2>9. CASE Write
    <3>1. CASE reply.stop = "yes"
      <4>1. /\ exit' = "shutdown"
            /\ UNCHANGED <<engine, filled, pos, input, line, request, asked, outcome,
                           reply>>
        BY <2>9, <3>1, Zenon DEF Write
      <4>. QED
        BY <4>1
    <3>2. CASE reply.stop # "yes"
      <4>1. /\ line' = "none" /\ request' = NoRequest /\ asked' = <<>>
            /\ outcome' = "none" /\ reply' = NoReply
            /\ UNCHANGED <<engine, filled, pos, input, exit>>
        BY <2>9, <3>2, Zenon DEF Write, NextLine
      <4>. QED
        BY <2>0, <4>1
    <3>. QED
      BY <3>1, <3>2
  <2>10. CASE UNCHANGED vars
    BY <2>10 DEF vars
  <2>. QED
    BY <2>1, <2>2, <2>3, <2>4, <2>5, <2>6, <2>7, <2>8, <2>9, <2>10
       DEF Next, ProcessLine
<1>3. LoopInv /\ FrameInv /\ RestTypes => TypeOK
  <2> SUFFICES ASSUME LoopInv, FrameInv, RestTypes PROVE TypeOK
    OBVIOUS
  <2>1. blanks \in 0..lines
    BY DEF LoopInv, Answered, Sink
  <2>2. fd1 \in Sink /\ saved \in Sink \cup {"none"} /\ lost \in {"no", "yes"}
    BY DEF LoopInv, Sink
  <2>3. stage \in Stages /\ sent \in [Sink -> [chatter : Nat, reply : Nat]]
    BY DEF LoopInv
  <2>4. ReaderTypes
    BY DEF FrameInv
  <2>5. reply \in [id : {"", "string"}, code : Codes, stop : {"no", "yes"}]
    BY DEF RestTypes, Replies
  <2>. QED
    BY <2>1, <2>2, <2>3, <2>4, <2>5, Zenon
       DEF Stages, ReaderTypes, RestTypes, TypeOK
<1>. QED
  BY <1>1, <1>2, <1>3, LoopInvariant, FrameInvariant, PTL DEF Spec

-----------------------------------------------------------------------------
(***************************************************************************)
(* The broker has its lines answered by the same process_line.  B is the   *)
(* broker's model beside this one, which has of process_line only the      *)
(* outcomes it may have.                                                   *)
(***************************************************************************)
CONSTANTS Conns, Lines, QUEUE_CAPACITY, INTERACTIVE_BURST, Nothing
VARIABLES interactive, batch, interactive_since_batch_waited, expired, scheduler,
          taken, alive, conn, line_of, reply_to, step, active_since

B == INSTANCE Broker WITH line <- line_of, reply <- reply_to

(* A line as the broker's model sees it: a shutdown is one that dispatch   *)
(* accepts, any other line that is not an embed_batch is like a query.     *)
BrokerLine ==
  IF line # "object" THEN [method |-> "embed_query", key |-> "none"]
  ELSE [method |-> IF request.method = "embed_batch" THEN "embed_batch"
                   ELSE IF /\ request.method = "shutdown"
                           /\ Envelope(request).code = "none"
                   THEN "shutdown" ELSE "embed_query",
        key |-> IF request.request_id = "string" THEN "request_id"
                ELSE IF request.request_id = "absent" /\ request.id = "string"
                THEN "id" ELSE "none"]

BrokerReply ==
  [kind |-> IF line = "rejected" THEN "oversized" ELSE "answer",
   id |-> IF reply.id = "string" THEN "echoed" ELSE "",
   stop |-> reply.stop = "yes"]

(* What is written for a line is an outcome the broker's model expects of  *)
(* it: the id of the request under either key, and the end of the          *)
(* connection after an accepted shutdown only (protocol.rs:315-384,        *)
(* 506-519; mod.rs:91, 137-140).                                           *)
AnswersAsInBroker ==
  stage = "write" =>
    IF line = "rejected"
      THEN BrokerReply = [kind |-> "oversized", id |-> "", stop |-> FALSE]
      ELSE BrokerReply \in B!ProcessLine(BrokerLine)

(* The id a reply gets from the envelope. *)
LEMMA EnvelopeId ==
  ASSUME NEW object \in ObjectType
  PROVE  /\ Envelope(object).stop = "no"
         /\ Envelope(object).id = "string" <=>
              \/ object.request_id = "string"
              \/ object.request_id = "absent" /\ object.id = "string"
<1>1. /\ object.request_id \in {"absent", "string", "bad"}
      /\ object.id \in {"absent", "string", "bad"}
  BY DEF ObjectType
<1> DEFINE id == IF GivenId(object) = "absent" THEN "" ELSE GivenId(object)
<1>2. id = "string" <=> \/ object.request_id = "string"
                        \/ object.request_id = "absent" /\ object.id = "string"
  BY <1>1 DEF GivenId
<1>3. GivenId(object) = "bad" => id # "string"
  OBVIOUS
<1>4. \/ GivenId(object) = "bad" /\ Envelope(object) = Answer("", "invalid_request")
      \/ Envelope(object) = Answer(id, "invalid_request")
      \/ Envelope(object) = Answer(id, "none")
  BY DEF Envelope
<1> HIDE DEF id
<1>5. CASE GivenId(object) = "bad" /\ Envelope(object) = Answer("", "invalid_request")
  <2>1. /\ Answer("", "invalid_request").id = ""
        /\ Answer("", "invalid_request").stop = "no"
    BY DEF Answer
  <2>2. Envelope(object).id # "string" /\ Envelope(object).stop = "no"
    BY <1>5, <2>1
  <2>. QED
    BY <1>2, <1>3, <1>5, <2>2
<1>6. CASE \E code : Envelope(object) = Answer(id, code)
  <2>1. PICK code : Envelope(object) = Answer(id, code)
    BY <1>6
  <2>2. Answer(id, code).id = id /\ Answer(id, code).stop = "no"
    BY DEF Answer
  <2>. QED
    BY <1>2, <2>1, <2>2
<1>. QED
  BY <1>4, <1>5, <1>6

(* An answer to an object, with its id. *)
LEMMA AnswerIsExpected ==
  ASSUME NEW object \in ObjectType, line' = "object", request' = object,
         reply'.id = Envelope(object).id,
         reply'.stop = "yes" <=>
           object.method = "shutdown" /\ Envelope(object).code = "none"
  PROVE  AnswersAsInBroker'
<1>1. BrokerLine'.method # "blank"
      /\ (BrokerLine'.method = "shutdown" <=> reply'.stop = "yes")
  BY DEF BrokerLine
<1>2. BrokerLine'.key \in {"request_id", "id"} <=> reply'.id = "string"
  BY EnvelopeId DEF BrokerLine
<1>3. BrokerReply' = [kind |-> "answer",
                      id |-> IF reply'.id = "string" THEN "echoed" ELSE "",
                      stop |-> reply'.stop = "yes"]
  BY DEF BrokerReply
<1>4. B!ExtractRequestId(BrokerLine') = IF reply'.id = "string" THEN "echoed" ELSE ""
  BY <1>2 DEF B!ExtractRequestId
<1>5. (BrokerLine'.method = "shutdown") = (reply'.stop = "yes")
  BY <1>1
<1>6. BrokerReply' \in B!ProcessLine(BrokerLine')
  BY <1>1, <1>3, <1>4, <1>5 DEF B!ProcessLine
<1>. QED
  BY <1>6 DEF AnswersAsInBroker

(* What the broker's model takes for granted of process_line, the          *)
(* protocol does.                                                          *)
THEOREM ProtocolMeetsBroker == Spec => []AnswersAsInBroker
<1>1. Init => AnswersAsInBroker
  BY DEF Init, AnswersAsInBroker
<1>2. ASSUME AnswersAsInBroker, [Next]_vars PROVE AnswersAsInBroker'
  <2> USE <1>2
  <2>1. CASE \/ NotLoaded \/ Silence \/ Chatter \/ LoadReturns \/ Restore
             \/ ReadFails \/ WriteFails \/ Blank
    <3>1. stage' # "write"
      BY <2>1 DEF NotLoaded, Silence, Chatter, LoadReturns, Restore, ReadFails,
                  WriteFails, Blank, NextLine
    <3>. QED
      BY <3>1 DEF AnswersAsInBroker
  <2>2. CASE Write
    <3>1. stage' # "write"
      BY <2>2 DEF Write, NextLine
    <3>. QED
      BY <3>1 DEF AnswersAsInBroker
  <2>3. ASSUME NEW long, Framed(long) PROVE AnswersAsInBroker'
    <3>1. CASE stage' = "parse"
      BY <3>1 DEF AnswersAsInBroker
    <3>2. CASE line' = "rejected" /\ reply'.stop = "no" /\ reply'.id = ""
      BY <3>2 DEF AnswersAsInBroker, BrokerReply
    <3>. QED
      BY <2>3, <3>1, <3>2, FramedEffect
  <2>4. CASE (\E end \in 1..MaxInput : Take(end)) \/ Eof
    <3>1. stage' # "write" \/ \E long \in BOOLEAN : Framed(long)
      <4>1. ASSUME NEW end \in 1..MaxInput, Take(end)
            PROVE  stage' # "write" \/ \E long \in BOOLEAN : Framed(long)
        BY <4>1 DEF Take
      <4>2. CASE Eof
        BY <4>2 DEF Eof
      <4>. QED
        BY <2>4, <4>1, <4>2
    <3>. QED
      BY <2>3, <3>1 DEF AnswersAsInBroker
  <2>5. ASSUME NEW kind \in Malformations, Malformed(kind) PROVE AnswersAsInBroker'
    <3>1. /\ line' \notin {"object", "rejected"}
          /\ reply'.id = "" /\ reply'.stop = "no"
      <4>1. line' = kind /\ kind \notin {"object", "rejected"}
        BY <2>5 DEF Malformed, Malformations
      <4>2. PICK code : reply' = Answer("", code)
        BY <2>5 DEF Malformed
      <4>3. Answer("", code).id = "" /\ Answer("", code).stop = "no"
        BY DEF Answer
      <4>. QED
        BY <4>1, <4>2, <4>3
    <3>2. BrokerReply' = [kind |-> "answer", id |-> "", stop |-> FALSE]
      BY <3>1 DEF BrokerReply
    <3>3. BrokerLine' = [method |-> "embed_query", key |-> "none"]
      BY <3>1 DEF BrokerLine
    <3>4. BrokerReply' \in B!ProcessLine(BrokerLine')
      BY <3>2, <3>3 DEF B!ProcessLine, B!ExtractRequestId
    <3>. QED
      BY <3>1, <3>4 DEF AnswersAsInBroker
  <2>6. ASSUME NEW object \in Objects,
               Refuse(object) \/ Simple(object) \/ Embed(object)
        PROVE  AnswersAsInBroker'
    <3>1. object \in ObjectType /\ line' = "object" /\ request' = object
      BY <2>6, ServeAssumption DEF Refuse, Simple, Embed
    <3>2. /\ reply'.id = Envelope(object).id
          /\ reply'.stop = "yes" <=>
               object.method = "shutdown" /\ Envelope(object).code = "none"
      <4>1. CASE Refuse(object)
        BY <3>1, <4>1, EnvelopeId DEF Refuse
      <4>2. CASE Simple(object)
        BY <4>2 DEF Simple, Answer
      <4>3. CASE Embed(object)
        <5>1. \E code : reply' = Answer(Envelope(object).id, code)
          BY <4>3 DEF Embed
        <5>2. object.method # "shutdown"
          BY <4>3 DEF Embed
        <5>. QED
          BY <5>1, <5>2 DEF Answer
      <4>. QED
        BY <2>6, <4>1, <4>2, <4>3
    <3>. QED
      BY <3>1, <3>2, AnswerIsExpected
  <2>7. CASE UNCHANGED vars
    BY <2>7 DEF vars, exchange, AnswersAsInBroker, BrokerReply, BrokerLine
  <2>. QED
    BY <2>1, <2>2, <2>4, <2>5, <2>6, <2>7 DEF Next, ProcessLine
<1>. QED
  BY <1>1, <1>2, PTL DEF Spec

=============================================================================
