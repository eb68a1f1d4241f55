------------------------------- MODULE Serve --------------------------------
(* The HTTP server (crates/llmpager-serve/src/main.rs): the main loop, which *)
(* serves one request at a time, the thread that every streaming request     *)
(* starts, the registry's lock between them, and the text that a stream      *)
(* sends, from tokens to the bytes a client reads.                           *)
(*                                                                           *)
(* A request is named by its number. The registry is reduced to the models   *)
(* that are warm (module Registry), a generation to its tokens.              *)
EXTENDS Integers, Sequences, SequencesExt

CONSTANTS
  Models,     \* the configured models,
  Kimi,       \*   and those of them that take the Kimi template
  MaxWarm,    \* max_warm
  Requests,   \* what a client may ask: op, model, chat, valid
  Tokens,     \* tokens that are not an end of sequence
  Bytes,      \* of each token: its bytes, each a character and a position in it
  Width,      \* of each character: its length in UTF-8
  Faults,     \* may the decoder panic or wait for ever?
  MaxTokens,  \* bound: max_tokens, or what is left of max_seq
  MaxRequests \* bound: requests

ASSUME ServeAssumption ==
  /\ Kimi \subseteq Models
  /\ Faults \in BOOLEAN
  /\ MaxWarm \in Nat \ {0} /\ MaxTokens \in Nat /\ MaxRequests \in Nat
  /\ \A r \in Requests : r.op \in {"unknown", "query", "plain", "stream"}
  /\ \A c \in DOMAIN Width : Width[c] \in Nat \ {0}
  /\ \A t \in Tokens :
       /\ Bytes[t] \in Seq((DOMAIN Width) \X (Nat \ {0}))
       /\ \A i \in DOMAIN Bytes[t] : Bytes[t][i][2] <= Width[Bytes[t][i][1]]

VARIABLES
  warm,      \* the warm models, most recently used first
  lock,      \* who holds the registry's mutex,
  poisoned,  \*   and whether a thread has panicked with it
  pc,        \* where main is,
  req,       \*   the requests so far,
  kimi,      \*   the template chosen for each,
  status,    \*   and what each was answered
  th,        \* of each request: its thread,
  out,       \*   the tokens generated,
  printed,   \*   the text passed to on_delta,
  sent,      \*   and the events sent to its channel
  client,    \* of cur: here, stalled (its connection takes and gives no more), left
  taken, pos, got  \* ChannelReader: events taken, units read of the last, all read

threads == <<th, out, printed, sent>>
reader == <<client, taken, pos, got>>
vars == <<warm, lock, poisoned, pc, req, kimi, status, threads, reader>>

Ids == 1..MaxRequests
Free == 0
Main == MaxRequests + 1
cur == Len(req)  \* the request that main is at

-----------------------------------------------------------------------------
(* Text.                                                                    *)

Bad == "U+FFFD"
WidthOf(c) == IF c = Bad THEN 3 ELSE Width[c]
\* len() of a String.
SizeAfter(n, c) == n + WidthOf(c)
Size(text) == FoldLeft(SizeAfter, 0, text)

\* One more byte of UTF-8 after the text in d, whose last character may be begun
\* (part); a sequence that is broken off becomes one U+FFFD, a stray byte another.
DecodeByte(d, b) ==
  LET begun == d.part # <<>>
      goes == IF begun THEN b[1] = d.part[1] /\ b[2] = d.part[2] + 1 ELSE b[2] = 1
      text == IF begun /\ ~goes THEN Append(d.text, Bad) ELSE d.text
  IN  CASE (goes \/ b[2] = 1) /\ b[2] = Width[b[1]] -> [text |-> Append(text, b[1]), part |-> <<>>]
        [] (goes \/ b[2] = 1) /\ b[2] < Width[b[1]] -> [text |-> text, part |-> b]
        [] OTHER -> [text |-> Append(text, Bad), part |-> <<>>]

DecodeToken(d, t) == FoldLeft(DecodeByte, d, Bytes[t])

\* tok.decode(ids, true): special tokens have no bytes.
Decode(ids) ==
  LET d == FoldLeft(DecodeToken, [text |-> <<>>, part |-> <<>>], ids)
  IN  IF d.part = <<>> THEN d.text ELSE Append(d.text, Bad)

\* The characters of full from byte at on: &full[at..] panics unless at lies
\* between two characters.
Cuts(full, at) == {k \in 0..Len(full) : Size(SubSeq(full, 1, k)) = at}

-----------------------------------------------------------------------------
(* The registry.                                                            *)

\* What warm_up(m) may do. A model that is warm moves to the front. Otherwise the
\* least recent ones go, and a load follows; when it fails all others go before a
\* second one. It may fail before it loads, in loading, or after it.
WarmUps(m) ==
  LET kept == SubSeq(warm, 1, IF Len(warm) < MaxWarm THEN Len(warm) ELSE MaxWarm - 1)
      places == {i \in DOMAIN warm : warm[i] = m}
  IN  IF places # {}
      THEN {[ok |-> TRUE, warm |-> <<m>> \o RemoveAt(warm, i)] : i \in places}
      ELSE IF m \notin Models
      THEN {[ok |-> FALSE, warm |-> warm]}
      ELSE [ok : {TRUE}, warm : {<<m>> \o kept, <<m>>}]
           \cup [ok : {FALSE}, warm : {kept, <<>>, <<m>> \o kept}]

\* The second warm_up of a request, when it has the lock for good. Mutant: the
\* model is taken to be in front still.
WarmAgainSkipped(m) == {[ok |-> TRUE, warm |-> warm]}
WarmAgain(m) == WarmUps(m)

-----------------------------------------------------------------------------
(* The main loop.                                                           *)

\* The next request.
Accept(r) ==
  /\ pc = "accept" /\ cur < MaxRequests
  /\ req' = Append(req, r)
  /\ pc' = "body"
  /\ client' = "here" /\ taken' = 0 /\ pos' = 0 /\ got' = <<>>
  /\ UNCHANGED <<warm, lock, poisoned, kimi, status, threads>>

\* Its body is read, which has no timeout. A body that is no JSON, such as one
\* that a client broke off, or an unknown url is answered with an error.
ReadBody ==
  /\ pc = "body" /\ client # "stalled"
  /\ \/ pc' = IF req[cur].op = "unknown" THEN "error"
              ELSE IF req[cur].op = "query" THEN "query" ELSE "warm"
     \/ client = "left" /\ pc' = "error"
  /\ UNCHANGED <<warm, lock, poisoned, req, kimi, status, threads, reader>>

\* An endpoint that reads or changes the registry and answers under its lock.
Query ==
  /\ pc = "query" /\ lock = Free
  /\ IF poisoned THEN pc' = "dead" ELSE pc' \in {"json", "error"}
  /\ UNCHANGED <<warm, lock, poisoned, req, kimi, status, threads, reader>>

\* handle warms the model up to learn its template, and lets go of the lock; then
\* it goes its way by the form of the request, or finds it lacking.
WarmFirst ==
  /\ pc = "warm" /\ lock = Free
  /\ IF poisoned
     THEN pc' = "dead" /\ UNCHANGED <<warm, kimi>>
     ELSE \E u \in WarmUps(req[cur].model) :
            /\ warm' = u.warm
            /\ kimi' = IF u.ok THEN [kimi EXCEPT ![cur] = u.warm[1] \in Kimi] ELSE kimi
            /\ pc' = IF u.ok /\ req[cur].valid THEN req[cur].op ELSE "error"
  /\ UNCHANGED <<lock, poisoned, req, status, threads, reader>>

\* A plain or a batch request takes the lock again, and warms up again.
PlainBegin ==
  /\ pc = "plain" /\ lock = Free
  /\ IF poisoned
     THEN pc' = "dead" /\ UNCHANGED <<warm, lock>>
     ELSE \E u \in WarmAgain(req[cur].model) :
            /\ warm' = u.warm
            /\ lock' = IF u.ok THEN Main ELSE Free
            /\ pc' = IF u.ok THEN "generate" ELSE "error"
  /\ UNCHANGED <<poisoned, req, kimi, status, threads, reader>>

\* It has generated, or failed to.
PlainEnd ==
  /\ pc = "generate"
  /\ lock' = Free
  /\ pc' \in {"json", "error"}
  /\ UNCHANGED <<warm, poisoned, req, kimi, status, threads, reader>>

\* The answer is written, or its client gone; there is no timeout here either.
Respond ==
  /\ pc \in {"json", "error"} /\ client # "stalled"
  /\ status' = [status EXCEPT ![cur] = pc]
  /\ pc' = "accept"
  /\ UNCHANGED <<warm, lock, poisoned, req, kimi, threads, reader>>

\* A stream: its thread is spawned.
Spawn ==
  /\ pc = "stream"
  /\ th' = [th EXCEPT ![cur] = "start"]
  /\ pc' = "headers"
  /\ UNCHANGED <<warm, lock, poisoned, req, kimi, status, out, printed, sent, reader>>

\* main writes the headers, then what the channel yields. When the client has left
\* the headers may fail, before the thread has even begun.
WriteHeaders ==
  /\ pc = "headers" /\ client # "stalled"
  /\ \/ pc' = "respond" /\ UNCHANGED status
     \/ client = "left" /\ pc' = "accept" /\ status' = [status EXCEPT ![cur] = "lost"]
  /\ UNCHANGED <<warm, lock, poisoned, req, kimi, threads, reader>>

\* The sender of thread i has been dropped. Mutant: one is kept while the server runs.
GoneNever(i) == FALSE
Gone(i) == th[i] \in {"done", "panicked", "crashed"}

\* Is the last event used up? Mutant: one read is taken to be enough.
UsedUpHasty == TRUE
UsedUp == taken = 0 \/ pos = 2

\* ChannelReader::read into a buffer of k units; an event has two of them.
Read(k) ==
  /\ pc = "respond" /\ client # "stalled"
  /\ LET event == IF UsedUp THEN taken + 1 ELSE taken
         from == IF UsedUp THEN 0 ELSE pos
         upto == IF from + k > 2 THEN 2 ELSE from + k
     IN  /\ event <= Len(sent[cur])
         /\ taken' = event
         /\ pos' = upto
         /\ got' = got \o [j \in 1..(upto - from) |-> <<event, from + j>>]
  /\ UNCHANGED <<warm, lock, poisoned, pc, req, kimi, status, threads, client>>

\* The channel is empty and its sender gone: end of the response.
ReadEnd ==
  /\ pc = "respond" /\ client # "stalled"
  /\ UsedUp /\ taken = Len(sent[cur]) /\ Gone(cur)
  /\ status' = [status EXCEPT ![cur] = "streamed"]
  /\ pc' = "accept"
  /\ UNCHANGED <<warm, lock, poisoned, req, kimi, threads, reader>>

\* A write to a client that has left fails, and the receiver is dropped; while
\* nothing comes from the channel, nothing is written.
WriteFails ==
  /\ pc = "respond" /\ client = "left"
  /\ ~UsedUp \/ taken < Len(sent[cur]) \/ Gone(cur)
  /\ status' = [status EXCEPT ![cur] = "lost"]
  /\ pc' = "accept"
  /\ UNCHANGED <<warm, lock, poisoned, req, kimi, threads, reader>>

\* The client closes its connection, or stays and neither sends nor reads any
\* more. The rest of the time main does not look at the connection.
Leave(how) ==
  /\ pc \in {"body", "json", "error", "headers", "respond"}
  /\ how = "stalled" => client = "here"
  /\ client' = how
  /\ UNCHANGED <<warm, lock, poisoned, pc, req, kimi, status, threads, taken, pos, got>>

-----------------------------------------------------------------------------
(* The thread of a stream.                                                  *)

Role == [kind |-> "role"]
Delta(text) == [kind |-> "delta", text |-> text]
Final == [kind |-> "final"]
Done == [kind |-> "[DONE]"]
Error == [kind |-> "error"]

\* The thread ends: its last events go out, the lock is released, then the sender.
End(i, events) ==
  /\ sent' = [sent EXCEPT ![i] = @ \o events]
  /\ th' = [th EXCEPT ![i] = "done"]
  /\ lock' = Free

\* It gets the lock, warms the model up once more and acquires its session; the
\* first event of a chat is the role.
Begin(i) ==
  /\ th[i] = "start" /\ lock = Free
  /\ IF poisoned
     THEN th' = [th EXCEPT ![i] = "panicked"] /\ UNCHANGED <<warm, lock, sent>>
     ELSE \E u \in WarmAgain(req[i].model), acquired \in BOOLEAN :
            /\ warm' = u.warm
            /\ IF u.ok /\ acquired
               THEN /\ lock' = i
                    /\ th' = [th EXCEPT ![i] = "generate"]
                    /\ sent' = [sent EXCEPT ![i] = IF req[i].chat THEN <<Role>> ELSE <<>>]
               ELSE End(i, <<Error>>)
  /\ UNCHANGED <<poisoned, pc, req, kimi, status, out, printed, reader>>

\* The bytes printed so far. Mutant: they are counted in characters.
PrintedChars(i) == Len(printed[i])
PrintedLen(i) == Size(printed[i])

\* generate, generate_session: one more token. All tokens are decoded again, and
\* what has become longer than the text printed so far is sent as a delta. A
\* slice inside a character panics, which poisons the lock.
Token(i, t) ==
  LET full == Decode(Append(out[i], t))
      cuts == Cuts(full, PrintedLen(i))
  IN  /\ th[i] = "generate" /\ Len(out[i]) < MaxTokens
      /\ out' = [out EXCEPT ![i] = Append(@, t)]
      /\ IF Size(full) <= PrintedLen(i)
         THEN UNCHANGED <<th, lock, poisoned, printed, sent>>
         ELSE \/ /\ \E k \in cuts :
                      sent' = [sent EXCEPT ![i] = Append(@, Delta(SubSeq(full, k + 1, Len(full))))]
                 /\ printed' = [printed EXCEPT ![i] = full]
                 /\ UNCHANGED <<th, lock, poisoned>>
              \/ /\ cuts = {}
                 /\ th' = [th EXCEPT ![i] = "panicked"]
                 /\ lock' = Free /\ poisoned' = TRUE
                 /\ UNCHANGED <<printed, sent>>
      /\ UNCHANGED <<warm, pc, req, kimi, status, reader>>

\* The prefill, a step of the decoder, or the tokenizer fails.
StepFails(i) ==
  /\ th[i] = "generate"
  /\ End(i, <<Error>>)
  /\ UNCHANGED <<warm, poisoned, pc, req, kimi, status, out, printed, reader>>

\* An end of sequence, or the last token: the usage, and [DONE].
Finish(i) ==
  /\ th[i] = "generate"
  /\ End(i, <<Final, Done>>)
  /\ UNCHANGED <<warm, poisoned, pc, req, kimi, status, out, printed, reader>>

-----------------------------------------------------------------------------
(* What the decoder may do under the lock besides (module Pager, PagerKept in *)
(* module Registry): panic, because its workers are gone or its pager is      *)
(* missing, or wait for ever. What a panic leaves of the registry nobody sees. *)

MainPanics ==
  /\ \/ pc \in {"query", "warm", "plain"} /\ lock = Free /\ ~poisoned
     \/ pc = "generate"
  /\ pc' = "dead"
  /\ lock' = Free /\ poisoned' = TRUE
  /\ UNCHANGED <<warm, req, kimi, status, threads, reader>>

MainHangs ==
  /\ pc = "generate"
  /\ pc' = "hung"
  /\ UNCHANGED <<warm, lock, poisoned, req, kimi, status, threads, reader>>

\* In warm_up, in acquire_session or in generate.
ThreadPanics(i) ==
  /\ \/ th[i] = "start" /\ lock = Free /\ ~poisoned
     \/ th[i] = "generate"
  /\ th' = [th EXCEPT ![i] = "crashed"]
  /\ lock' = Free /\ poisoned' = TRUE
  /\ UNCHANGED <<warm, pc, req, kimi, status, out, printed, sent, reader>>

ThreadHangs(i) ==
  /\ th[i] = "generate"
  /\ th' = [th EXCEPT ![i] = "hung"]
  /\ UNCHANGED <<warm, lock, poisoned, pc, req, kimi, status, out, printed, sent, reader>>

-----------------------------------------------------------------------------
\* main has warmed the first model up before it listens.
Init ==
  /\ \E m \in Models : warm = <<m>>
  /\ lock = Free /\ poisoned = FALSE
  /\ pc = "accept" /\ req = <<>>
  /\ kimi = [i \in Ids |-> FALSE] /\ status = [i \in Ids |-> "none"]
  /\ th = [i \in Ids |-> "none"]
  /\ out = [i \in Ids |-> <<>>] /\ printed = [i \in Ids |-> <<>>] /\ sent = [i \in Ids |-> <<>>]
  /\ client = "left" /\ taken = 0 /\ pos = 0 /\ got = <<>>

\* What main and the threads do of themselves; a process that has exited does
\* nothing more.
Work == \/ ReadBody \/ Query \/ WarmFirst \/ PlainBegin \/ PlainEnd \/ Respond
        \/ Spawn \/ WriteHeaders \/ ReadEnd \/ WriteFails \/ \E k \in 1..2 : Read(k)
Run(i) == /\ pc # "dead"
          /\ \/ Begin(i) \/ StepFails(i) \/ Finish(i)
             \/ \E t \in Tokens : Token(i, t)
Client == \/ \E r \in Requests : Accept(r)
          \/ \E how \in {"stalled", "left"} : Leave(how)
Fault == /\ Faults /\ pc # "dead"
         /\ MainPanics \/ MainHangs \/ \E i \in Ids : ThreadPanics(i) \/ ThreadHangs(i)

Next == Work \/ Client \/ Fault \/ \E i \in Ids : Run(i)

Spec == Init /\ [][Next]_vars

\* A thread that can run does; nothing is asked of a client, and a fault need not
\* come. The lock is not fair, but every thread takes it at most once.
Fairness == WF_vars(Work) /\ \A i \in Ids : WF_vars(Run(i))

FairSpec == Spec /\ Fairness

-----------------------------------------------------------------------------
(* Properties.                                                              *)

\* No token so far has ended inside a character.
WholeSoFar(i) == \A k \in 0..Len(out[i]) : Bad \notin Range(Decode(SubSeq(out[i], 1, k)))

\* The text of the deltas among events.
TextAfter(s, e) == IF e.kind = "delta" THEN s \o e.text ELSE s
TextOf(events) == FoldLeft(TextAfter, <<>>, events)

\* In the midst of a generation, which may never end.
Busy == {"generate", "hung"}

\* Although handle lets go of the lock after it has chosen the template, and other
\* requests may evict the model or put another one in front, every generation
\* runs, alone, on the model its request names, and a chat with its template.
EngineMatchesPrompt ==
  \A i \in DOMAIN req :
    th[i] \in Busy \/ (i = cur /\ pc \in Busy) =>
      /\ lock = IF th[i] \in Busy THEN i ELSE Main
      /\ warm # <<>> /\ Head(warm) = req[i].model
      /\ req[i].chat => kimi[i] = (Head(warm) \in Kimi)

\* A thread that has ended has sent the role in a chat, its deltas, the usage and
\* [DONE], or else an error at the end; the deltas are at all times the text of
\* the tokens, which a token that ends inside a character may spoil. A thread ends
\* without a last event only if the registry is lost with it: the lock is poisoned
\* by a panic of the decoder, or by such a token, or was when the thread began.
StreamsWhole ==
  \A i \in DOMAIN req :
    LET e == sent[i]
    IN  /\ th[i] = "done" => e # <<>> /\ Last(e) \in {Done, Error}
        /\ WholeSoFar(i) => TextOf(e) = Decode(out[i])
        /\ th[i] \in {"crashed", "panicked"} => poisoned
        /\ th[i] = "panicked" => out[i] = <<>> \/ ~WholeSoFar(i)
        /\ \A k \in DOMAIN e : /\ e[k] = Role => k = 1 /\ req[i].chat
                               /\ e[k] \in {Done, Error} => k = Len(e)

\* A client reads the events of its own stream, all units in order and none twice
\* (ChannelReader), and when the response ends it has all that were sent.
ClientGetsStream ==
  pc = "respond" \/ (cur > 0 /\ pc = "accept" /\ status[cur] = "streamed") =>
    LET units == [m \in 1..(2 * Len(sent[cur])) |-> <<(m + 1) \div 2, 2 - (m % 2)>>]
    IN  /\ IsPrefix(got, units)
        /\ pc = "accept" => got = units

\* Every request is answered or lost with its client, even when it waits for the
\* lock behind streams nobody reads any more, and when its client has left. There
\* are three exceptions, none of which the code bounds in time: a panic poisons the
\* lock; a generation never returns and keeps the lock; the client of the request
\* stays but stops sending its body or reading its answer.
RequestAnswered ==
  pc # "accept" ~> \/ pc = "accept"
                   \/ poisoned \/ pc = "hung" \/ (\E i \in Ids : th[i] = "hung")
                   \/ client = "stalled"

\* "[DONE] terminator": a stream ends with it, or with an error.
StreamTerminated ==
  \A i \in Ids : Gone(i) => sent[i] # <<>> /\ Last(sent[i]) \in {Done, Error}
=============================================================================
