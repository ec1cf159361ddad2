---------------------------- MODULE TransformStream ----------------------------
(***************************************************************************)
(* The event stream of /transform/stream in rostran/web/server.py.         *)
(*                                                                         *)
(* A worker coroutine has the conversion run in a thread.  The thread hands*)
(* each line of its log, and at last its outcome, to the event loop, which *)
(* runs what it is handed in order.  Lines go to the queue from there; the *)
(* outcome wakes the worker, which puts it into the queue.  The response's *)
(* generator takes events from the queue and sends them.                   *)
(*                                                                         *)
(* The event loop itself (asyncio), the connection and the browser's end of*)
(* it are external.                                                        *)
(***************************************************************************)
EXTENDS Naturals, Sequences

CONSTANTS
  Requests,  \* the requests that may be sent
  MaxLines   \* bound: the lines of a conversion's log

ASSUME StreamAssumption == MaxLines \in Nat

Line(n) == [kind |-> "log", line |-> n]

Final(k) == [kind |-> k, line |-> 0]

Outcomes == {"result", "error"}

Event == {Line(n) : n \in 1..MaxLines} \cup {Final(k) : k \in Outcomes}

VARIABLES
  serving,    \* whether the server runs
  link,       \* what the client sees of the connection
  worker,     \* the state of the coroutine worker()
  thread,     \* the state of the thread of to_thread
  lines,      \* the lines the thread has logged
  ready,      \* what call_soon_threadsafe was called with, in order
  queue,      \* queue of event_gen
  generator,  \* the state of event_gen()
  wire,       \* the events sent and not received yet
  got         \* the events the client has received, while it reads

streamVars ==
  <<serving, link, worker, thread, lines, ready, queue, generator, wire, got>>

loopVars == <<worker, thread, lines, ready, queue, generator>>

StreamInit ==
  /\ serving = TRUE
  /\ link = [s \in Requests |-> "none"]
  /\ worker = [s \in Requests |-> "none"]
  /\ thread = [s \in Requests |-> "none"]
  /\ lines = [s \in Requests |-> 0]
  /\ ready = [s \in Requests |-> <<>>]
  /\ queue = [s \in Requests |-> <<>>]
  /\ generator = [s \in Requests |-> "none"]
  /\ wire = [s \in Requests |-> <<>>]
  /\ got = [s \in Requests |-> <<>>]

----------------------------------------------------------------------------
Ask(s) ==
  /\ link[s] = "none"
  /\ link' = [link EXCEPT ![s] = IF serving THEN "asked" ELSE "broken"]
  /\ UNCHANGED <<serving, loopVars, wire, got>>

\* The framework answers with a status that is not ok.
Reject(s) ==
  /\ serving
  /\ link[s] = "asked"
  /\ link' = [link EXCEPT ![s] = "rejected"]
  /\ UNCHANGED <<serving, loopVars, wire, got>>

\* The response begins: create_task(worker()), which calls to_thread.
Accept(s) ==
  /\ serving
  /\ link[s] = "asked"
  /\ link' = [link EXCEPT ![s] = "open"]
  /\ worker' = [worker EXCEPT ![s] = "waiting"]
  /\ thread' = [thread EXCEPT ![s] = "running"]
  /\ generator' = [generator EXCEPT ![s] = "open"]
  /\ UNCHANGED <<serving, lines, ready, queue, wire, got>>

\* early_error is the only event.
Refuse(s) ==
  /\ serving
  /\ link[s] = "asked"
  /\ link' = [link EXCEPT ![s] = "eof"]
  /\ wire' = [wire EXCEPT ![s] = <<Final("error")>>]
  /\ UNCHANGED <<serving, loopVars, got>>

CallSoon(s, event) == ready' = [ready EXCEPT ![s] = Append(@, event)]

\* on_log, called by the thread.
OnLog(s) ==
  /\ thread[s] = "running"
  /\ lines[s] < MaxLines
  /\ lines' = [lines EXCEPT ![s] = @ + 1]
  /\ CallSoon(s, Line(lines[s] + 1))
  /\ UNCHANGED <<serving, link, worker, thread, queue, generator, wire, got>>

\* transform returns or raises: the worker's future is to be set.
Return(s, k) ==
  /\ thread[s] = "running"
  /\ thread' = [thread EXCEPT ![s] = "ended"]
  /\ CallSoon(s, Final(k))
  /\ UNCHANGED <<serving, link, worker, lines, queue, generator, wire, got>>

\* Slip: what the worker puts overtakes the lines in the queue.
EnqueueFirst(q, event) == IF event.kind = "log" THEN Append(q, event) ELSE <<event>> \o q

Enqueue(q, event) == Append(q, event)

\* The loop runs the first thing it was handed.  The outcome is lost if the
\* worker was cancelled.
RunCallback(s) ==
  /\ ready[s] # <<>>
  /\ LET event == Head(ready[s])
         wakes == event.kind \in Outcomes
     IN  /\ queue' = IF wakes /\ worker[s] # "waiting" THEN queue
                     ELSE [queue EXCEPT ![s] = Enqueue(@, event)]
         /\ worker' = IF wakes /\ worker[s] = "waiting"
                        THEN [worker EXCEPT ![s] = "done"] ELSE worker
  /\ ready' = [ready EXCEPT ![s] = Tail(@)]
  /\ UNCHANGED <<serving, link, thread, lines, generator, wire, got>>

\* Slip: only a result ends the loop.
EndsWithResult(event) == event.kind = "result"

Ends(event) == event.kind \in Outcomes

\* One turn of the loop of event_gen.  After the outcome the generator awaits
\* the worker, which has ended, and the response ends.
Yield(s) ==
  /\ generator[s] = "open"
  /\ queue[s] # <<>>
  /\ LET last == Ends(Head(queue[s]))
     IN  /\ generator' = IF last THEN [generator EXCEPT ![s] = "closed"] ELSE generator
         /\ link' = IF last /\ link[s] = "open" THEN [link EXCEPT ![s] = "eof"] ELSE link
  /\ wire' = IF link[s] = "open" THEN [wire EXCEPT ![s] = Append(@, Head(queue[s]))] ELSE wire
  /\ queue' = [queue EXCEPT ![s] = Tail(@)]
  /\ UNCHANGED <<serving, worker, thread, lines, ready, got>>

\* The framework cancels the generator of a client that has left; the await in
\* its finally cancels the worker.  The thread goes on.
Cancel(s) ==
  /\ link[s] = "left"
  /\ generator[s] = "open"
  /\ generator' = [generator EXCEPT ![s] = "closed"]
  /\ worker' = [worker EXCEPT ![s] = IF @ = "done" THEN @ ELSE "cancelled"]
  /\ UNCHANGED <<serving, link, thread, lines, ready, queue, wire, got>>

\* `server stop`: os._exit after at most three seconds.
Exit ==
  /\ serving
  /\ serving' = FALSE
  /\ link' = [s \in Requests |-> IF link[s] \in {"asked", "open"} THEN "broken" ELSE link[s]]
  /\ worker' = [s \in Requests |->
                  IF worker[s] = "waiting" THEN "cancelled" ELSE worker[s]]
  /\ thread' = [s \in Requests |-> IF thread[s] = "running" THEN "ended" ELSE thread[s]]
  /\ generator' = [s \in Requests |-> IF generator[s] = "open" THEN "closed" ELSE generator[s]]
  /\ ready' = [s \in Requests |-> <<>>]
  /\ queue' = [s \in Requests |-> <<>>]
  /\ UNCHANGED <<lines, wire, got>>

Start ==
  /\ ~serving
  /\ serving' = TRUE
  /\ UNCHANGED <<link, loopVars, wire, got>>

\* The client receives an event, or is done with the response.
Receive(s) ==
  /\ link[s] \in {"open", "eof", "broken"}
  /\ wire[s] # <<>>
  /\ got' = [got EXCEPT ![s] = Append(@, Head(wire[s]))]
  /\ wire' = [wire EXCEPT ![s] = Tail(@)]
  /\ UNCHANGED <<serving, link, loopVars>>

Leave(s) ==
  /\ link' = [link EXCEPT ![s] = IF @ \in {"asked", "open"} THEN "left" ELSE @]
  /\ wire' = [wire EXCEPT ![s] = <<>>]
  /\ got' = [got EXCEPT ![s] = <<>>]
  /\ UNCHANGED <<serving, loopVars>>

\* What the server does about one request by itself.
Serve(s) ==
  \/ Accept(s) \/ Refuse(s) \/ Reject(s)
  \/ \E k \in Outcomes : Return(s, k)
  \/ RunCallback(s)
  \/ Yield(s)

----------------------------------------------------------------------------
StreamTypeOK ==
  /\ serving \in BOOLEAN
  /\ link \in [Requests -> {"none", "asked", "open", "eof", "rejected", "broken", "left"}]
  /\ worker \in [Requests -> {"none", "waiting", "done", "cancelled"}]
  /\ thread \in [Requests -> {"none", "running", "ended"}]
  /\ lines \in [Requests -> 0..MaxLines]
  /\ ready \in [Requests -> Seq(Event)]
  /\ queue \in [Requests -> Seq(Event)]
  /\ generator \in [Requests -> {"none", "open", "closed"}]
  /\ wire \in [Requests -> Seq(Event)]
  /\ got \in [Requests -> Seq(Event)]

\* A client receives the lines of the conversion's log, in order and each once,
\* and after all of them, and only then, the outcome (transform_stream).
StreamIsWhole ==
  \A s \in Requests :
    LET sent == got[s] \o wire[s]
    IN  \A i \in 1..Len(sent) :
          \/ sent[i] = Line(i)
          \/ sent[i].kind \in Outcomes /\ i = Len(sent) /\ i = lines[s] + 1
=============================================================================
