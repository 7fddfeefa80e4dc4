--------------------------- MODULE GatewayStream ---------------------------
(***************************************************************************)
(* One generation request at the gateway (server.ts): the generator of its *)
(* protocol turns the runner's events into server-sent events, or the      *)
(* whole result into one body; streamAbort aborts it when nothing was      *)
(* written for a while or the client's socket closes; withStreamLog and    *)
(* runLogged write its row of the request log.                             *)
(*                                                                         *)
(* The generators are pulled by the response: one runs from a pull to its  *)
(* next yield, and waits for the runner, or for the store, in between; it  *)
(* may be returned at a yield.  A chunk is what the client can tell apart: *)
(* neighbouring events about one block are one chunk, and texts are left   *)
(* out.  The idle time, or a timeout, passes at any moment.                *)
(***************************************************************************)
EXTENDS Integers, Sequences, FiniteSets, SequencesExt

CONSTANT MaxEvents      \* bound: events of the runner

ASSUME EventsAssumption == MaxEvents \in Nat

VARIABLES kind,    \* the protocol's stream, or "json" for a whole body
          option,  \* what of the request matters to it
          gen,     \* "new", "wait" for something, "held" at a yield, "over"
          next,    \* what it waits for, or does at the next pull
          out,     \* chunks still to be yielded before that
          sent,    \* chunks handed to the response
          open,    \* kind of the open block
          blocks,  \* nextOutputIndex, nextIndex
          result,  \* of the runner's done event
          events,  \* how many events there were
          reason,  \* abortReason, and whether the signal has fired
          socket,  \* whether the client's socket is open
          closing, \* return() was called while the generator ran
          saved,   \* the response is in the store
          log      \* status in the request's log row; 0 when there is none

vars == <<kind, option, gen, next, out, sent, open, blocks, result, events, reason, socket,
          closing, saved, log>>

fixed == <<kind, option>>
signal == <<reason, socket>>
rendering == <<open, blocks, result, events>>

Options == [chat |-> {"usage", "plain"}, responses |-> {"store", "nostore"},
            anthropic |-> {"off", "omitted", "full"}, json |-> {"store", "nostore"}]

Plain == [t |-> "plain", i |-> 0]
Final == [t |-> "final", i |-> 0]
Error(s) == [t |-> "error", i |-> s]
Start(i) == [t |-> "start", i |-> i]
Delta(i) == [t |-> "delta", i |-> i]
Stop(i) == [t |-> "stop", i |-> i]

Init == /\ kind \in DOMAIN Options
        /\ option \in Options[kind]
        /\ gen = "new" /\ next = "events" /\ out = <<>> /\ sent = <<>>
        /\ open = "none" /\ blocks = 0 /\ result = "none" /\ events = 0
        /\ \/ socket = TRUE /\ reason = "none"
           \/ socket = FALSE /\ reason = "client_disconnect" /\ kind # "json"
        /\ closing = FALSE /\ saved = FALSE /\ log = 0

----------------------------------------------------------------------------
(* Mutant: the later status replaces the earlier one. *)
FinishAgain(s) == log' = s

(* finishLog writes once. *)
FinishLog(s) == log' = IF log = 0 THEN s ELSE log

(* The generators are over: withStreamLog's finally. *)
Over == gen' = "over" /\ out' = <<>> /\ next' = "end"

(* The first of chunks is yielded, the others and what comes after wait    *)
(* for pulls.  With return() called meanwhile, nobody takes it.            *)
Yield(chunks, after) ==
  IF closing THEN Over /\ UNCHANGED sent
  ELSE /\ gen' = "held"
       /\ sent' = Append(sent, Head(chunks))
       /\ out' = Tail(chunks)
       /\ next' = after

(* A disconnect found at the yield is logged as 499. *)
Logged == IF closing THEN FinishLog(499) ELSE UNCHANGED log

(* Yield, or go on waiting when an event has no chunk. *)
Give(chunks, after) ==
  IF chunks = <<>> THEN gen' = "wait" /\ next' = after /\ UNCHANGED <<sent, out, log>>
                   ELSE Yield(chunks, after) /\ Logged

(* The catch of a generator: reportStreamError.  An abort for idleness is  *)
(* 504; nothing is written when the client aborted and is gone.            *)
Report(s) ==
  LET status == IF s = 499 /\ reason = "idle_timeout" THEN 504 ELSE s
  IN /\ FinishLog(status)
     /\ IF status = 499 /\ reason # "none" /\ ~socket
        THEN Over /\ UNCHANGED sent
        ELSE Yield(<<Error(status)>>, "end")

----------------------------------------------------------------------------
(* What the generators make of an event.                                   *)

(* Mutant: the open block is left open. *)
LeaveOpen == <<>>

(* closeOpenItem, closeOpenBlock *)
CloseOpen == IF open = "none" THEN <<>>
             ELSE IF kind = "responses" \/ open = "thinking"
                  THEN <<Delta(blocks - 1), Stop(blocks - 1)>>
                  ELSE <<Stop(blocks - 1)>>

Opening == IF kind = "responses" THEN <<Plain, Plain>> ELSE <<Plain>>

Hidden(e) == kind = "anthropic" /\ option = "off" /\ e = "thinking"

(* Chunks of a text or thinking event: a block of its kind is opened. *)
Text(e) ==
  LET i == IF open = e THEN blocks - 1 ELSE blocks
      delta == IF kind = "anthropic" /\ option = "omitted" /\ e = "thinking" THEN <<>>
               ELSE <<Delta(i)>>
  IN IF kind = "chat" THEN <<Plain>>
     ELSE IF Hidden(e) THEN <<>>
     ELSE IF open = e THEN delta ELSE CloseOpen \o <<Start(i)>> \o delta

Block(i) == <<Start(i), Delta(i), Stop(i)>>
Tool == IF kind = "chat" THEN <<Plain>> ELSE CloseOpen \o Block(blocks)

(* Responses without an item so far take them from the runner's result:    *)
(* reasoning, message and call, or an empty message.                       *)
Fallback == IF blocks > 0 THEN <<>>
            ELSE IF result = "full" THEN Block(0) \o Block(1) \o Block(2) ELSE Block(0)

(* The chunks that follow the runner's last event. *)
Closing == CASE kind = "chat" -> IF option = "usage" THEN <<Plain, Plain, Final>> ELSE <<Plain, Final>>
             [] kind = "anthropic" -> CloseOpen \o <<Plain, Final>>
             [] kind = "responses" -> CloseOpen \o Fallback

Waits(for) == gen = "wait" /\ next = for
Steady == UNCHANGED <<fixed, signal, closing, saved>>

(* The runner's next event. *)
Event(e) ==
  /\ Waits("events") /\ reason = "none" /\ kind # "json"
  /\ events < MaxEvents
  /\ events' = events + 1
  /\ CASE e \in {"text", "thinking"} ->
            /\ Give(Text(e), "events")
            /\ open' = IF kind = "chat" \/ Hidden(e) THEN open ELSE e
            /\ blocks' = IF kind = "chat" \/ Hidden(e) \/ open = e THEN blocks ELSE blocks + 1
            /\ UNCHANGED result
       [] e = "tool_call" ->
            /\ Give(Tool, "events")
            /\ open' = "none"
            /\ blocks' = IF kind = "chat" THEN 0 ELSE blocks + 1
            /\ UNCHANGED result
       [] e \in {"full", "empty"} ->       \* done, with its result
            /\ result' = e
            /\ Give(<<>>, "events")
            /\ UNCHANGED <<open, blocks>>
  /\ Steady

(* The runner's events end. *)
EventsEnd ==
  /\ Waits("events") /\ reason = "none" /\ kind # "json"
  /\ Give(Closing, IF kind = "responses" THEN "save" ELSE "end")
  /\ open' = "none"
  /\ UNCHANGED <<blocks, result, events>>
  /\ Steady

(* The runner fails, with an abort of its own or otherwise. *)
EventsFail(s) ==
  /\ Waits("events") /\ reason = "none" /\ kind # "json"
  /\ Report(s)
  /\ UNCHANGED <<rendering, fixed, signal, closing, saved>>

(* Mutant: the runner is waited for although the signal has fired. *)
NoRace == FALSE

(* deferRunnerStream: the signal wins over a runner that does not heed it. *)
Race == /\ Waits("events") /\ reason # "none" /\ kind # "json"
        /\ Report(499)
        /\ UNCHANGED <<rendering, fixed, signal, closing, saved>>

(* Mutant: the response is completed first and stored then. *)
CompleteFirst ==
  /\ Waits("save")
  /\ Yield(<<Final>>, "end")
  /\ Logged
  /\ UNCHANGED <<rendering, fixed, signal, closing, saved>>

(* saveResponse, where the request allows it, and response.completed. *)
Complete ==
  /\ Waits("save")
  /\ saved' = (option = "store")
  /\ Yield(<<Final>>, "end")
  /\ Logged
  /\ UNCHANGED <<rendering, fixed, signal, closing>>

SaveFails ==
  /\ Waits("save") /\ option = "store"
  /\ Report(500)
  /\ UNCHANGED <<rendering, fixed, signal, closing, saved>>

(* The response asks for more; withStreamLog ends the row with the stream. *)
Pull ==
  /\ kind # "json"
  /\ \/ /\ gen = "new"
        /\ Yield(Opening, "events") /\ UNCHANGED log
     \/ /\ gen = "held" /\ out # <<>>
        /\ Yield(out, next) /\ UNCHANGED log
     \/ /\ gen = "held" /\ out = <<>> /\ next # "end"
        /\ gen' = "wait" /\ UNCHANGED <<next, out, sent, log>>
     \/ /\ gen = "held" /\ out = <<>> /\ next = "end"
        /\ Over /\ FinishLog(200) /\ UNCHANGED sent
  /\ UNCHANGED <<rendering, fixed, signal, closing, saved>>

----------------------------------------------------------------------------
(* runLogged and the handler, for a whole body.  The log row is written    *)
(* before the response is stored.                                          *)

Answer == /\ kind = "json" /\ gen = "new"
          /\ FinishLog(200)
          /\ gen' = "wait" /\ next' = "save"
          /\ UNCHANGED <<out, sent, rendering, fixed, signal, closing, saved>>

Reply(chunk) == /\ gen' = "over" /\ sent' = <<chunk>>
                /\ UNCHANGED <<next, out, rendering, fixed, signal, closing>>

(* The runner fails, or runWithTimeout gives up on it. *)
RunFails == /\ kind = "json" /\ gen = "new"
            /\ FinishLog(502) /\ Reply(Error(502))
            /\ UNCHANGED saved

RunTimeout == /\ kind = "json" /\ gen = "new"
              /\ FinishLog(504) /\ Reply(Error(504))
              /\ UNCHANGED saved

JsonComplete == /\ kind = "json" /\ Waits("save")
                /\ saved' = (option = "store")
                /\ Reply(Final)
                /\ UNCHANGED log

JsonSaveFails == /\ kind = "json" /\ Waits("save") /\ option = "store"
                 /\ Reply(Error(500))
                 /\ UNCHANGED <<saved, log>>

----------------------------------------------------------------------------
(* streamAbort.  The reason first noted stays.                             *)

Listening == gen # "over" /\ kind # "json"

IdleTimeout == /\ Listening /\ reason = "none"
               /\ reason' = "idle_timeout"
               /\ UNCHANGED <<gen, next, out, sent, rendering, fixed, socket, closing, saved, log>>

SocketClose == /\ Listening /\ socket
               /\ socket' = FALSE
               /\ reason' = IF reason = "none" THEN "client_disconnect" ELSE reason
               /\ UNCHANGED <<gen, next, out, sent, rendering, fixed, closing, saved, log>>

(* The response is destroyed with its socket: return() runs the finally of *)
(* a generator at a yield, is kept for one that waits, and runs nothing of *)
(* one that was not begun.                                                 *)
Destroy ==
  /\ Listening /\ ~socket /\ ~closing
  /\ CASE gen = "new" -> Over /\ UNCHANGED <<log, closing>>
       [] gen = "held" -> Over /\ FinishLog(499) /\ UNCHANGED closing
       [] gen = "wait" -> closing' = TRUE /\ UNCHANGED <<gen, next, out, log>>
  /\ UNCHANGED <<sent, rendering, fixed, signal, saved>>

Next == \/ \E e \in {"text", "thinking", "tool_call", "full", "empty"} : Event(e)
        \/ EventsEnd
        \/ \E s \in {499, 502} : EventsFail(s)
        \/ Race
        \/ kind # "json" /\ (Complete \/ SaveFails)
        \/ Pull
        \/ Answer \/ RunFails \/ RunTimeout \/ JsonComplete \/ JsonSaveFails
        \/ IdleTimeout \/ SocketClose \/ Destroy

(* Timers fire and the store answers; a client reads on or its response is *)
(* destroyed.  The runner may be silent for ever.                          *)
Fairness == /\ WF_vars(Race) /\ WF_vars(IdleTimeout) /\ WF_vars(Pull \/ Destroy)
            /\ WF_vars(kind # "json" /\ (Complete \/ SaveFails))
            /\ WF_vars(RunTimeout) /\ WF_vars(JsonComplete \/ JsonSaveFails)

Spec == Init /\ [][Next]_vars /\ Fairness

----------------------------------------------------------------------------
(* The chunks follow the protocols: blocks are numbered in order, opened   *)
(* and closed one after another, written to while open, all closed before  *)
(* the stream completes; and nothing follows its completion or an error    *)
(* (chatStream, responsesStream, anthropicStream).                         *)
WellFormed ==
  LET Count(t, k) == Cardinality({j \in 1..k : sent[j].t = t})
  IN \A k \in DOMAIN sent :
       LET c == sent[k]
           started == Count("start", k - 1)
           between == started = Count("stop", k - 1)
       IN /\ c.t \in {"start", "plain", "final"} => between
          /\ c.t = "start" => c.i = started
          /\ c.t \in {"delta", "stop"} => ~between /\ c.i = started - 1
          /\ c.t \in {"final", "error"} => k = Len(sent)

(* The log tells how a stream that was begun has ended: 200 only if it was *)
(* completed, the status of the error the client was sent, and a client    *)
(* that is still there was sent one of the two (reportStreamError,         *)
(* withStreamLog).  A whole body that could not be stored is the one       *)
(* exception: it was logged before.                                        *)
LogTellsEnd ==
  gen = "over" /\ sent # <<>> =>
    LET end == Last(sent)
    IN /\ log # 0
       /\ log = 200 => end = Final \/ (kind = "json" /\ end = Error(500))
       /\ end.t = "error" => log = end.i \/ (kind = "json" /\ end.i = 500)
       /\ socket => end.t \in {"final", "error"} /\ (end = Final => log = 200)

(* A client that saw its response completed can refer to it in the next    *)
(* request: it is in the store by then (responsesStream, saveResponse).    *)
StoredBeforeCompleted ==
  kind \in {"responses", "json"} /\ option = "store" /\ Contains(sent, Final) => saved

(* However silent the runner, a request that was begun ends, while its     *)
(* client reads or goes (streamAbort, deferRunnerStream, runWithTimeout).  *)
BegunEnds == (kind = "json" \/ gen # "new") ~> gen = "over"
=============================================================================
