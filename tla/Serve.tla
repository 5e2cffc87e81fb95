------------------------------- MODULE Serve --------------------------------
(***************************************************************************)
(* The stdio server, src/protocol.rs: the model is loaded while a guard    *)
(* keeps native output away from stdout (src/stdio_guard.rs); then request *)
(* lines are framed, checked, dispatched to the engine and answered one at *)
(* a time.                                                                 *)
(*                                                                         *)
(* The input is a sequence of newlines ("n") and other bytes ("x"), read   *)
(* in chunks of any size.  What a line says is chosen when it is parsed    *)
(* and lives until the next line: dispatch depends on nothing earlier.     *)
(***************************************************************************)
EXTENDS Naturals, Sequences, FiniteSets

CONSTANTS
  MaxInput,         (* bound: the bytes of the input                       *)
  MaxRequestBytes,  (* Limits::max_request_bytes                           *)
  MaxBatchItems,    (* Limits::max_batch_items                             *)
  Objects           (* the JSON objects a line may hold                    *)

Methods == {"health", "embed_query", "embed_batch", "shutdown", "other"}

(* What dispatch reads of a request object.  text: embed_query's text, or  *)
(* every member of embed_batch's texts, is a string; array: texts is an    *)
(* array, of this many members.                                            *)
ObjectType ==
  [request_id : {"absent", "string", "bad"}, id : {"absent", "string", "bad"},
   schema : {"ok", "bad"}, version : {"ok", "bad"},
   method : Methods \cup {"bad"}, params : {"absent", "object", "bad"},
   text : {"string", "bad"}, array : {"yes", "no"},
   texts : 0..(MaxBatchItems + 1)]

(* The empty object. *)
NoRequest ==
  [request_id |-> "absent", id |-> "absent", schema |-> "ok", version |-> "ok",
   method |-> "bad", params |-> "absent", text |-> "bad", array |-> "no",
   texts |-> 0]

ASSUME ServeAssumption ==
  /\ MaxInput \in Nat /\ MaxRequestBytes \in Nat /\ MaxBatchItems \in Nat
  /\ Objects \subseteq ObjectType

VARIABLES
  (* the process *)
  stage,      (* silence, load, restore, read, parse, write, ended         *)
  engine,     (* none; LlamaEngine or UnreadyEngine; error or panic        *)
  fd1,        (* where descriptor 1 leads: stdout or stderr                *)
  saved,      (* the guard's saved descriptor, or "none"                   *)
  exit,       (* how run_loop or serve returned                            *)
  (* the input *)
  input,      (* the bytes the client sends before it closes the stream    *)
  pos,        (* how many of them are consumed                             *)
  filled,     (* the end of what the reader has buffered                   *)
  buffer,     (* the positions of the bytes collected for this line        *)
  oversized,  (* "yes" once this line is longer than allowed               *)
  (* this line *)
  line,       (* none, rejected, not_utf8, not_json, not_object, object    *)
  request,    (* the request object                                        *)
  asked,      (* <<n>>: the engine was given n texts                       *)
  outcome,    (* what the engine did with them                             *)
  reply,      (* the reply                                                 *)
  (* history *)
  lines,      (* lines framed                                              *)
  blanks,     (* blank ones                                                *)
  sent,       (* what arrived where: <<"stdout" or "stderr", what>> counts *)
  lost        (* "yes" if stdout could not be restored                     *)

reader == <<input, pos, filled, buffer, oversized>>
exchange == <<line, request, asked, outcome, reply>>
descriptors == <<fd1, saved, lost>>
vars == <<stage, engine, descriptors, exit, reader, exchange, lines, blanks,
          sent>>

NoReply == [id |-> "", code |-> "none", stop |-> "no"]
Answer(id, code) == [id |-> id, code |-> code, stop |-> "no"]

Sink == {"stdout", "stderr"}
Written(what) == sent' = [sent EXCEPT ![fd1][what] = @ + 1]

-----------------------------------------------------------------------------
Init ==
  /\ stage = "silence"
  /\ engine = "none"
  /\ fd1 = "stdout"
  /\ saved = "none"
  /\ exit = "none"
  /\ \E n \in 0..MaxInput : input \in [1..n -> {"x", "n"}]
  /\ pos = 0
  /\ filled = 0
  /\ buffer = {}
  /\ oversized = "no"
  /\ line = "none"
  /\ request = NoRequest
  /\ asked = <<>>
  /\ outcome = "none"
  /\ reply = NoReply
  /\ lines = 0
  /\ blanks = 0
  /\ sent = [s \in Sink |-> [chatter |-> 0, reply |-> 0]]
  /\ lost = "no"

(***************************************************************************)
(* serve, guarded, SilencedStdout                                          *)
(***************************************************************************)
(* An unknown model, no cache directory, a model that is not there or has  *)
(* the wrong digest: no native call is made.                               *)
NotLoaded ==
  /\ stage = "silence"
  /\ \/ engine' = "UnreadyEngine" /\ stage' = "read" /\ UNCHANGED exit
     \/ engine' = "error" /\ stage' = "ended" /\ exit' = "load"
  /\ UNCHANGED <<descriptors, reader, exchange, lines, blanks, sent>>

(* SilencedStdout::new: dup and dup2, either of which may fail and leave   *)
(* an inert guard.                                                         *)
Silence ==
  /\ stage = "silence"
  /\ stage' = "load"
  /\ \/ saved' = fd1 /\ fd1' = "stderr"
     \/ UNCHANGED <<saved, fd1>>
  /\ UNCHANGED <<lost, engine, exit, reader, exchange, lines, blanks, sent>>

(* llama.cpp prints to descriptor 1 while it loads. *)
Chatter ==
  /\ stage = "load"
  /\ sent[fd1].chatter = 0
  /\ Written("chatter")
  /\ UNCHANGED <<stage, engine, descriptors, exit, reader, exchange, lines, blanks>>

(* load_guarded returns or panics. *)
LoadReturns ==
  /\ stage = "load"
  /\ engine' \in {"LlamaEngine", "error", "panic"}
  /\ stage' = "restore"
  /\ UNCHANGED <<descriptors, exit, reader, exchange, lines, blanks, sent>>

(* Mutant: the saved descriptor is closed unused. *)
RestoreNothing ==
  /\ stage = "restore"
  /\ saved' = "none"
  /\ stage' = IF engine = "LlamaEngine" THEN "read" ELSE "ended"
  /\ UNCHANGED <<engine, fd1, lost, exit, reader, exchange, lines, blanks, sent>>

(* SilencedStdout::drop, which runs on every way out; nobody looks whether *)
(* its dup2 succeeded.                                                     *)
Restore ==
  /\ stage = "restore"
  /\ \/ fd1' = (IF saved = "none" THEN fd1 ELSE saved) /\ UNCHANGED lost
     \/ saved # "none" /\ lost' = "yes" /\ UNCHANGED fd1
  /\ saved' = "none"
  /\ IF engine = "LlamaEngine"
       THEN stage' = "read" /\ UNCHANGED exit
       ELSE stage' = "ended" /\ exit' = "load"
  /\ UNCHANGED <<engine, reader, exchange, lines, blanks, sent>>

(***************************************************************************)
(* read_line_capped, read_request                                          *)
(***************************************************************************)
(* Mutant: only the new bytes are held against the limit. *)
ChunkTooLong(content) == Cardinality(content) > MaxRequestBytes

TooLong(content) ==
  Cardinality(buffer) + Cardinality(content) > MaxRequestBytes

(* One line is framed: a request, or one that was drained unread. *)
Framed(long) ==
  /\ lines' = lines + 1
  /\ IF long
       THEN /\ line' = "rejected"
            /\ reply' = Answer("", "invalid_request")
            /\ stage' = "write"
       ELSE stage' = "parse" /\ UNCHANGED <<line, reply>>

(* Mutant: a line that was too long is forgotten at the end of its chunk. *)
ForgetLong(long) == "no"

Drained(long) == IF long THEN "yes" ELSE "no"

(* The newline is consumed too, if it is in the chunk. *)
Consumed(end, stop) == IF stop <= end THEN stop ELSE end

(* fill_buf gives what the reader has, or else a new chunk that ends at    *)
(* `end`; up to a newline it is collected, or dropped.                     *)
Take(end) ==
  /\ stage = "read"
  /\ end \in (pos + 1)..Len(input)
  /\ pos < filled => end = filled
  /\ LET newlines == {i \in (pos + 1)..end : input[i] = "n"}
         stop == IF newlines = {} THEN end + 1
                 ELSE CHOOSE i \in newlines : \A j \in newlines : i <= j
         content == (pos + 1)..(stop - 1)
         long == oversized = "yes" \/ TooLong(content)
     IN  /\ buffer' = IF long THEN {} ELSE buffer \cup content
         /\ oversized' = Drained(long)
         /\ pos' = Consumed(end, stop)
         /\ IF newlines = {} THEN UNCHANGED <<stage, line, reply, lines>>
                             ELSE Framed(long)
  /\ filled' = end
  /\ UNCHANGED <<engine, descriptors, exit, input, request, asked, outcome, blanks,
                 sent>>

(* The client closed the stream: what is left of a line is a line. *)
Eof ==
  /\ stage = "read"
  /\ pos = Len(input)
  /\ IF oversized = "no" /\ buffer = {}
       THEN stage' = "ended" /\ exit' = "eof" /\ UNCHANGED <<line, reply, lines>>
       ELSE Framed(oversized = "yes") /\ UNCHANGED exit
  /\ UNCHANGED <<engine, descriptors, reader, request, asked, outcome, blanks, sent>>

(* An error of fill_buf other than an interruption. *)
ReadFails ==
  /\ stage = "read"
  /\ stage' = "ended"
  /\ exit' = "read"
  /\ UNCHANGED <<engine, descriptors, reader, exchange, lines, blanks, sent>>

(***************************************************************************)
(* process_line, handle_line, dispatch                                     *)
(***************************************************************************)
(* The next line is read into an empty buffer. *)
NextLine ==
  /\ stage' = "read"
  /\ buffer' = {}
  /\ oversized' = "no"
  /\ line' = "none"
  /\ request' = NoRequest
  /\ asked' = <<>>
  /\ outcome' = "none"
  /\ reply' = NoReply

(* Mutant: a blank line is taken for a broken request. *)
BlankAnswered ==
  /\ stage = "parse"
  /\ line' = "not_json"
  /\ reply' = Answer("", "invalid_json")
  /\ stage' = "write"
  /\ blanks' = blanks + 1
  /\ UNCHANGED <<engine, descriptors, exit, reader, request, asked, outcome,
                 lines, sent>>

Blank ==
  /\ stage = "parse"
  /\ NextLine
  /\ blanks' = blanks + 1
  /\ UNCHANGED <<engine, descriptors, exit, input, pos, filled, lines, sent>>

(* extract_request_id. *)
GivenId(object) ==
  IF object.request_id # "absent" THEN object.request_id ELSE object.id

(* Mutant: the batch may be one too long. *)
BatchFitsLoosely(object) ==
  object.array = "yes" /\ object.texts <= MaxBatchItems + 1

(* embed_batch's checks before it embeds. *)
BatchFits(object) == object.array = "yes" /\ object.texts <= MaxBatchItems

(* The texts handed to the engine: no params, no texts. *)
Texts(object) ==
  IF object.params # "object" \/ object.text = "bad" THEN <<>>
  ELSE IF object.method = "embed_query" THEN <<1>>
  ELSE IF object.method = "embed_batch" /\ BatchFits(object) THEN <<object.texts>>
  ELSE <<>>

(* What embed does: the trait promises one vector of `dims` per text and   *)
(* dispatch does not rely on it.  UnreadyEngine refuses.                   *)
Outcomes ==
  IF engine = "LlamaEngine" THEN {"vectors", "error", "count", "dims"}
  ELSE {"error"}

EmbedCode(result) == IF result = "vectors" THEN "result" ELSE "internal_error"

(* Mutant: an error in the envelope loses the id. *)
EnvelopeUnidentified(object) ==
  IF GivenId(object) = "bad" \/ object.schema = "bad" \/ object.version = "bad"
    THEN Answer("", "invalid_request")
  ELSE Answer(IF GivenId(object) = "absent" THEN "" ELSE GivenId(object), "none")

(* The checks dispatch makes of every request, in its order. *)
Envelope(object) ==
  LET id == IF GivenId(object) = "absent" THEN "" ELSE GivenId(object)
  IN  IF GivenId(object) = "bad" THEN Answer("", "invalid_request")
      ELSE IF \/ object.schema = "bad" \/ object.version = "bad"
              \/ object.method = "bad" \/ object.params = "bad"
        THEN Answer(id, "invalid_request")
      ELSE Answer(id, "none")

(* Not UTF-8, not JSON, or not an object. *)
Malformed(kind) ==
  /\ stage = "parse"
  /\ buffer # {}
  /\ line' = kind
  /\ reply' = Answer("", IF kind = "not_object" THEN "invalid_request"
                         ELSE "invalid_json")
  /\ stage' = "write"
  /\ UNCHANGED <<engine, descriptors, exit, reader, request, asked, outcome,
                 lines, blanks, sent>>

(* A request whose envelope is wrong. *)
Refuse(object) ==
  /\ stage = "parse"
  /\ buffer # {}
  /\ Envelope(object).code # "none"
  /\ line' = "object"
  /\ request' = object
  /\ reply' = Envelope(object)
  /\ stage' = "write"
  /\ UNCHANGED <<engine, descriptors, exit, reader, asked, outcome, lines,
                 blanks, sent>>

(* health, which neither engine refuses, shutdown, an unknown method. *)
Simple(object) ==
  /\ stage = "parse"
  /\ buffer # {}
  /\ Envelope(object).code = "none"
  /\ object.method \in {"health", "shutdown", "other"}
  /\ line' = "object"
  /\ request' = object
  /\ reply' = [Answer(Envelope(object).id,
                      IF object.method = "other" THEN "unknown_method"
                      ELSE "result") EXCEPT
                  !.stop = IF object.method = "shutdown" THEN "yes" ELSE "no"]
  /\ stage' = "write"
  /\ UNCHANGED <<engine, descriptors, exit, reader, asked, outcome, lines,
                 blanks, sent>>

(* embed_query, embed_batch. *)
Embed(object) ==
  /\ stage = "parse"
  /\ buffer # {}
  /\ Envelope(object).code = "none"
  /\ object.method \in {"embed_query", "embed_batch"}
  /\ line' = "object"
  /\ request' = object
  /\ asked' = Texts(object)
  /\ IF Texts(object) = <<>>
       THEN /\ reply' = Answer(Envelope(object).id, "invalid_request")
            /\ UNCHANGED outcome
       ELSE \E result \in Outcomes :
              /\ outcome' = result
              /\ reply' = Answer(Envelope(object).id, EmbedCode(result))
  /\ stage' = "write"
  /\ UNCHANGED <<engine, descriptors, exit, reader, lines, blanks, sent>>

(***************************************************************************)
(* run_loop_with_limits                                                    *)
(***************************************************************************)
Write ==
  /\ stage = "write"
  /\ Written("reply")
  /\ IF reply.stop = "yes"
       THEN /\ stage' = "ended"
            /\ exit' = "shutdown"
            /\ UNCHANGED <<buffer, oversized, exchange>>
       ELSE NextLine /\ UNCHANGED exit
  /\ UNCHANGED <<engine, descriptors, input, pos, filled, lines, blanks>>

(* write_all or flush fails. *)
WriteFails ==
  /\ stage = "write"
  /\ stage' = "ended"
  /\ exit' = "write"
  /\ UNCHANGED <<engine, descriptors, reader, exchange, lines, blanks, sent>>

-----------------------------------------------------------------------------
Malformations == {"not_utf8", "not_json", "not_object"}

ProcessLine ==
  /\ stage = "parse"
  /\ \/ Blank
     \/ \E kind \in Malformations : Malformed(kind)
     \/ \E object \in Objects : Refuse(object) \/ Simple(object) \/ Embed(object)

Next ==
  \/ NotLoaded \/ Silence \/ Chatter \/ LoadReturns \/ Restore
  \/ \E end \in 1..MaxInput : Take(end)
  \/ Eof \/ ReadFails
  \/ ProcessLine
  \/ Write \/ WriteFails

Spec == Init /\ [][Next]_vars

-----------------------------------------------------------------------------
Codes == {"none", "result", "invalid_request", "invalid_json",
          "unknown_method", "internal_error"}

(* The state has its type. *)
TypeOK ==
  /\ stage \in {"silence", "load", "restore", "read", "parse", "write", "ended"}
  /\ engine \in {"none", "LlamaEngine", "UnreadyEngine", "error", "panic"}
  /\ fd1 \in Sink /\ saved \in Sink \cup {"none"}
  /\ exit \in {"none", "load", "eof", "read", "write", "shutdown"}
  /\ input \in Seq({"x", "n"})
  /\ pos \in 0..Len(input) /\ filled \in pos..Len(input)
  /\ buffer \subseteq 1..pos
  /\ oversized \in {"no", "yes"}
  /\ line \in {"none", "rejected", "object"} \cup Malformations
  /\ request \in ObjectType
  /\ asked \in Seq(Nat)
  /\ outcome \in {"none", "vectors", "error", "count", "dims"}
  /\ reply \in [id : {"", "string"}, code : Codes, stop : {"no", "yes"}]
  /\ lines \in Nat /\ blanks \in 0..lines
  /\ sent \in [Sink -> [chatter : Nat, reply : Nat]]
  /\ lost \in {"no", "yes"}

(* The k-th line of the input: the bytes between its k-1st and k-th        *)
(* newline.                                                                *)
Before(i) == Cardinality({j \in 1..(i - 1) : input[j] = "n"})
Line(k) == {i \in 1..Len(input) : input[i] = "x" /\ Before(i) = k - 1}

(* However the bytes arrive, the k-th request is the k-th line, whole and  *)
(* alone, also after a line that was too long; exactly the lines over the  *)
(* limit are rejected, "never buffering more than max_bytes"; and at the   *)
(* end none is missing (protocol.rs:178-224).                              *)
FramesExact ==
  /\ stage = "parse" => buffer = Line(lines)
  /\ line = "rejected" => Cardinality(Line(lines)) > MaxRequestBytes
  /\ Cardinality(buffer) <= MaxRequestBytes
  /\ oversized = "yes" => buffer = {}
  /\ exit = "eof" => \A i \in 1..Len(input) : input[i] = "x" => Before(i) < lines

Answered == sent["stdout"].reply + sent["stderr"].reply

(* "exactly one compact response line per answered request"; "Blank lines  *)
(* are skipped without a response"; every failure is answered so that the  *)
(* loop survives (protocol.rs:3-6): between two lines, every line but the  *)
(* blank ones has had its one reply, and only a shutdown ends the loop     *)
(* before the end of the input.                                            *)
OneReplyPerLine ==
  /\ stage = "read" /\ buffer = {} /\ oversized = "no"
       => Answered + blanks = lines
  /\ exit \in {"eof", "shutdown"}
       => /\ Answered + blanks = lines
          /\ exit = "eof" \/ request.method = "shutdown"

(* A reply is true of its request.  The engine is asked only for what the  *)
(* limits that health advertises allow; nothing that is refused has been   *)
(* embedded, and no vectors are claimed that the engine did not produce,   *)
(* one per text and of the right dimension (protocol.rs:69-71, 400-419,    *)
(* 462-496).  A client that multiplexes can tell which request the reply   *)
(* is for: one that names itself is answered under its name, errors        *)
(* included (protocol.rs:315-384, 506-519).                                *)
ReplyFitsRequest ==
  stage = "write" =>
    /\ asked # <<>> =>
         /\ asked[1] <= IF request.method = "embed_query" THEN 1 ELSE MaxBatchItems
         /\ request.params = "object" /\ request.text = "string"
    /\ reply.code \in {"invalid_request", "invalid_json", "unknown_method"}
         => asked = <<>>
    /\ asked # <<>> /\ reply.code = "result"
         => outcome = "vectors" /\ engine = "LlamaEngine"
    /\ reply.id = "string" <=>
         \/ request.request_id = "string"
         \/ request.request_id = "absent" /\ request.id = "string"

(* "a single stray byte on stdout desyncs the consumer's line reader"      *)
(* (stdio_guard.rs:3-4): native output never reaches it while the guard is *)
(* active, and no reply goes astray after the load, however it ended,      *)
(* unless the restoring dup2 fails, which is not looked at                 *)
(* (stdio_guard.rs:76).  Then the client gets nothing: stdout carries no   *)
(* byte at all, neither of the library nor of a reply.                     *)
StdoutPure ==
  /\ saved # "none" => sent["stdout"].chatter = 0
  /\ stage \in {"read", "parse", "write", "ended"} =>
       saved = "none" /\ (fd1 = "stdout" <=> lost = "no")
  /\ IF lost = "no" THEN sent["stderr"].reply = 0
     ELSE sent["stdout"].reply = 0 /\ sent["stdout"].chatter = 0

=============================================================================
