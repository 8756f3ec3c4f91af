------------------------------ MODULE QueryStream ------------------------------
(***************************************************************************)
(* A question on its way to the browser: run_query_stream of the backend,  *)
(* which runs the agent graph and yields an event after each node, the     *)
(* connection that carries the events as Server-Sent Events, and the relay *)
(* (the POST handler of /api/chat), which cuts what it reads into events   *)
(* again and writes them to the browser as message parts.                  *)
(*                                                                         *)
(* The graph moves along the edges of ChainStages; of what its nodes do    *)
(* only the two writes that outlive the request are kept.  The two halves  *)
(* share the connection alone, which may be lost, and which the browser    *)
(* may leave, at any time.                                                 *)
(***************************************************************************)
EXTENDS ChainStages, Naturals, Sequences, SequencesExt

CONSTANTS
  MaxRetries,  \* the larger retry budget of the graph
  Window       \* tokens that fit in between the two sides

ASSUME StreamAssumption == MaxRetries \in Nat /\ Window \in Nat \ {0}

VARIABLES
  \* run_query_stream
  backend,     \* "idle", "running", "result", "failed", "ended", "stopped"
  node,        \* the node that the graph is running
  retry_count, \* retries of the graph so far
  cached,      \* state["cached"]
  stores,      \* the writes that were made: "answer", "question"
  lost,        \* the write of the Question node failed and was swallowed
  emitted,     \* the events that were yielded
  \* the connection
  conn,        \* "open", "lost", "left"
  wire,        \* tokens sent and not yet read
  \* the relay
  relay,       \* "new", "reading", "ended", "refused"
  buffer,      \* tokens read and not yet parsed
  hasResult,   \* a result event was seen
  parts        \* the message parts written for the browser

backendVars == <<backend, node, retry_count, cached, stores, lost, emitted>>
relayVars == <<relay, buffer, hasResult, parts>>
vars == <<backendVars, conn, wire, relayVars>>

Events == Stages \cup {"result", "error"}
Data == "data: "
NL == "\n"
Tokens == Events \cup {Data, NL}

\* f"data: {event.model_dump_json()}\n\n", which may be cut between any two
\* of these tokens.
Frame(event) == <<Data, event, NL, NL>>

-----------------------------------------------------------------------------
Init ==
  /\ backend = "idle" /\ node = "check_cache" /\ retry_count = 0
  /\ cached = FALSE /\ stores = {} /\ lost = FALSE /\ emitted = <<>>
  /\ conn = "open" /\ wire = <<>>
  /\ relay = "new" /\ buffer = <<>> /\ hasResult = FALSE /\ parts = <<>>

(* The backend.                                                            *)

\* An event is yielded when there is room for its frame; nobody reads what is
\* sent on a connection that is gone.
Yield(event) ==
  /\ Len(wire) + Len(Frame(event)) <= Window \/ conn # "open"
  /\ emitted' = Append(emitted, event)
  /\ wire' = IF conn = "open" THEN wire \o Frame(event) ELSE wire

\* What a node leaves behind it, "done" or not.
Effect(done) ==
  /\ stores' = stores \cup
       {s \in {"answer", "question"} :
          done /\ node = (IF s = "answer" THEN "write_cache"
                                          ELSE "write_question")}
  /\ lost' = (node = "write_question" /\ ~done)

\* As MayRetry, but one retry more.
MayRetryOnceMore == retry_count <= MaxRetries

MayRetry == retry_count < MaxRetries

\* A node completes and the graph takes one of its edges; a failed write of
\* the Question node is swallowed by write_question_node.
NodeDone ==
  /\ backend = "running"
  /\ Yield(node)
  /\ \E done \in {TRUE, node # "write_question"} : Effect(done)
  /\ \E next \in Successors(node) :
       /\ node = "validator" /\ next = "refiner" => MayRetry
       /\ node' = next
       /\ retry_count' = IF node = "validator" /\ next = "refiner"
                         THEN retry_count + 1 ELSE retry_count
       /\ cached' = (cached \/ (node = "check_cache" /\ next = "END"))
       /\ backend' = IF next = "END" THEN "result" ELSE "running"
  /\ UNCHANGED <<conn, relayVars>>

\* A node raises, or what astream makes of its update does: its write may
\* have been made.
NodeRaises ==
  /\ backend = "running"
  /\ backend' = "failed"
  /\ \E done \in BOOLEAN : Effect(done)
  /\ UNCHANGED <<node, retry_count, cached, emitted, conn, wire, relayVars>>

YieldResult ==
  /\ backend = "result"
  /\ Yield("result")
  /\ backend' = "ended"
  /\ UNCHANGED <<node, retry_count, cached, stores, lost, conn, relayVars>>

YieldError ==
  /\ backend = "failed"
  /\ Yield("error")
  /\ backend' = "ended"
  /\ UNCHANGED <<node, retry_count, cached, stores, lost, conn, relayVars>>

\* The generator stops at an await: within the node, or before an event is out.
Stops ==
  /\ \/ /\ backend = "running"
        /\ \E done \in BOOLEAN : Effect(done)
     \/ /\ backend \in {"result", "failed"}
        /\ UNCHANGED <<stores, lost>>
  /\ backend' = "stopped"
  /\ UNCHANGED <<node, retry_count, cached, emitted, relayVars>>

\* The server cancels the generator of a connection that is gone;
\* CancelledError is no Exception.
Cancelled == conn # "open" /\ Stops /\ UNCHANGED <<conn, wire>>

\* The backend dies, and its connection with it.
Crash == conn = "open" /\ Stops /\ conn' = "lost" /\ wire' = <<>>

-----------------------------------------------------------------------------
(* The relay.                                                              *)

\* Without an Authorization header, a JSON body or a question there is no
\* stream.
Refuse ==
  /\ relay = "new"
  /\ relay' = "refused"
  /\ UNCHANGED <<backendVars, conn, wire, buffer, hasResult, parts>>

\* The relay asks the backend, which authenticates the user first.
Fetch ==
  /\ relay = "new"
  /\ \/ relay' = "reading" /\ backend' = "running" /\ UNCHANGED parts
     \/ relay' = "ended" /\ parts' = <<"error">> /\ UNCHANGED backend
  /\ UNCHANGED <<node, retry_count, cached, stores, lost, emitted, conn, wire,
                 buffer, hasResult>>

\* A token more in the relay's buffer: a blank line completes a chunk, and the
\* chunk that reads "data: " and a JSON event is one; others are skipped.
Cut(split, token) ==
  LET chunk == Front(split.rest)
      isEvent == Len(chunk) = 2 /\ chunk[1] = Data /\ chunk[2] \in Events
  IN IF token = NL /\ split.rest # <<>> /\ Last(split.rest) = NL
     THEN [events |-> IF isEvent THEN Append(split.events, chunk[2]) ELSE split.events,
           rest |-> <<>>]
     ELSE [events |-> split.events, rest |-> Append(split.rest, token)]

\* The events in a text, and what is left of it.
Split(text) ==
  LET split[n \in 0..Len(text)] ==
        IF n = 0 THEN [events |-> <<>>, rest |-> <<>>]
        ELSE Cut(split[n - 1], text[n])
  IN split[Len(text)]

\* As TextRead, but the buffer starts empty with every read.
TextOfOneRead(n) == SubSeq(wire, 1, n)

\* What there is to parse when n more tokens are read.
TextRead(n) == buffer \o SubSeq(wire, 1, n)

\* The part an event becomes: a tool call with its output, a text, an error.
PartOf(event) == IF event = "result" THEN "text" ELSE event
PartsOf(events) == [i \in DOMAIN events |-> PartOf(events[i])]

\* One read returns what has arrived so far, or its beginning.
Read ==
  /\ relay = "reading" /\ conn = "open"
  /\ \E n \in 1..Len(wire) :
       LET parsed == Split(TextRead(n))
       IN /\ wire' = SubSeq(wire, n + 1, Len(wire))
          /\ buffer' = parsed.rest
          /\ hasResult' = (hasResult \/ "result" \in Range(parsed.events))
          /\ parts' = parts \o PartsOf(parsed.events)
  /\ UNCHANGED <<backendVars, conn, relay>>

\* The stream is read to its end; what is left in the buffer is not parsed.
Done ==
  /\ relay = "reading" /\ conn = "open"
  /\ backend = "ended" /\ wire = <<>>
  /\ relay' = "ended"
  /\ parts' = IF ~hasResult THEN Append(parts, "error") ELSE parts
  /\ UNCHANGED <<backendVars, conn, wire, buffer, hasResult>>

\* As ReadRaises, but nothing tells the browser.
ReadRaisesSilently ==
  /\ relay = "reading" /\ conn = "lost"
  /\ relay' = "ended"
  /\ UNCHANGED <<backendVars, conn, wire, buffer, hasResult, parts>>

\* reader.read raises, and createUIMessageStream writes what onError returns.
ReadRaises ==
  /\ relay = "reading" /\ conn = "lost"
  /\ relay' = "ended"
  /\ parts' = Append(parts, "error")
  /\ UNCHANGED <<backendVars, conn, wire, buffer, hasResult>>

\* The connection breaks between the two, with what is in it.
Break ==
  /\ relay = "reading" /\ conn = "open"
  /\ conn' = "lost" /\ wire' = <<>>
  /\ UNCHANGED <<backendVars, relayVars>>

\* The browser goes away: req.signal aborts the fetch.
Leave ==
  /\ relay = "reading" /\ conn = "open"
  /\ conn' = "left" /\ wire' = <<>>
  /\ relay' = "ended"
  /\ UNCHANGED <<backendVars, buffer, hasResult, parts>>

-----------------------------------------------------------------------------
Backend == NodeDone \/ NodeRaises \/ YieldResult \/ YieldError \/ Cancelled

Relay == Refuse \/ Fetch \/ Read \/ Done \/ ReadRaises

\* Nothing is left to happen.
Over ==
  /\ relay \in {"ended", "refused"} /\ backend \in {"idle", "ended", "stopped"}
  /\ UNCHANGED vars

Next == Backend \/ Relay \/ Crash \/ Break \/ Leave \/ Over

Spec == Init /\ [][Next]_vars

\* The event loops of both sides run; nothing breaks a connection or makes a
\* browser leave.
FairSpec == Spec /\ WF_vars(Backend) /\ WF_vars(Relay)

-----------------------------------------------------------------------------
(* Properties.                                                             *)

\* The values of the variables.
TypeOK ==
  /\ backend \in {"idle", "running", "result", "failed", "ended", "stopped"}
  /\ node \in Stages \cup {"END"}
  /\ retry_count \in 0..MaxRetries
  /\ cached \in BOOLEAN /\ lost \in BOOLEAN /\ hasResult \in BOOLEAN
  /\ stores \subseteq {"answer", "question"}
  /\ emitted \in Seq(Events)
  /\ conn \in {"open", "lost", "left"}
  /\ wire \in Seq(Tokens) /\ Len(wire) <= Window
  /\ relay \in {"new", "reading", "ended", "refused"}
  /\ buffer \in Seq(Tokens)
  /\ parts \in Seq(Stages \cup {"text", "error"})

\* The parts that the events of the backend are due.
Said == PartsOf(emitted)

\* However the stream is cut on its way, the browser has been told what the
\* backend said, from its first event on, each once and in order, and nothing
\* else but, at the end, one error of the relay's own; and it was told all of
\* it, if the stream was read to its end.
RelayIsFaithful ==
  \E told \in Prefixes(Said) :
    /\ \/ parts = told
       \/ relay = "ended" /\ parts = Append(told, "error")
    /\ relay = "ended" /\ conn = "open" => told = Said

\* When the browser shows an answer that was not replayed, the answer is in
\* the query cache, and it is in the history or its write failed: the user
\* who asks again, or looks at the history, meets what was shown.
ShownIsStored ==
  "text" \in Range(parts) /\ ~cached =>
    "answer" \in stores /\ ("question" \in stores \/ lost)

-----------------------------------------------------------------------------
(* The stream as StreamContract.                                           *)

Outcome ==
  IF "text" \in Range(parts) THEN "answer"
  ELSE IF "error" \in Range(parts) \/ relay = "refused" THEN "error"
  ELSE IF conn = "left" THEN "left" ELSE "none"

\* The parts that are tool calls, one for each stage.
StagesIn(list) ==
  LET stages[n \in 0..Len(list)] ==
        IF n = 0 THEN <<>>
        ELSE IF list[n] \in Stages THEN Append(stages[n - 1], list[n])
        ELSE stages[n - 1]
  IN stages[Len(list)]

Browser == INSTANCE StreamContract
             WITH shown <- StagesIn(parts), outcome <- Outcome

\* The browser sees the stages of the graph in their order and then one
\* outcome; an answer only after the last stage.
StreamKept == Browser!Spec

\* It is not left waiting: with the nodes of the graph and both event loops
\* running, each question gets an answer or an error, or its user left.
StreamEnds == Browser!Answered
=============================================================================
