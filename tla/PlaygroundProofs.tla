--------------------------- MODULE PlaygroundProofs ---------------------------
(***************************************************************************)
(* Theorems about Playground: any number of requests, any length of a log, *)
(* any formats and examples.                                               *)
(***************************************************************************)
EXTENDS Playground, SequenceTheorems, TLAPS

\* e is the i-th thing a conversion says whose thread is in state th and has
\* logged n lines.
Says(e, i, n, th) ==
  IF i <= n THEN e = Line(i) ELSE th # "running" /\ i = n + 1 /\ e.kind \in Outcomes

\* q holds what it says after the first k of them.
InOrder(q, k, n, th) == \A i \in 1..Len(q) : Says(q[i], k + i, n, th)

\* What the client has or will have.
Delivered(n, th, w, g) == InOrder(g, 0, n, th) /\ InOrder(w, Len(g), n, th)

\* While the connection is open nothing is missing between thread and client.
Underway(wk, th, n, r, q, w, g) ==
  /\ InOrder(q, Len(g) + Len(w), n, th)
  /\ InOrder(r, Len(g) + Len(w) + Len(q), n, th)
  /\ Len(g) + Len(w) + Len(q) + Len(r) = IF th = "running" THEN n ELSE n + 1
  /\ wk = "waiting" \/ (th # "running" /\ r = <<>>)

FlowOf(l, wk, th, n, r, q, w, g) ==
  /\ Delivered(n, th, w, g)
  /\ l \in {"none", "asked"} =>
       n = 0 /\ th = "none" /\ g = <<>> /\ w = <<>> /\ q = <<>> /\ r = <<>>
  /\ l = "open" => Underway(wk, th, n, r, q, w, g)
  /\ l \in {"eof", "broken"} => th # "running"
  /\ l \in {"rejected", "left"} => g = <<>> /\ w = <<>>

Flow(s) ==
  FlowOf(link[s], worker[s], thread[s], lines[s], ready[s], queue[s], wire[s], got[s])

FlowInv == StreamTypeOK /\ \A s \in Requests : Flow(s)

----------------------------------------------------------------------------
(***************************************************************************)
(* Sequences of events.                                                    *)
(***************************************************************************)
LEMMA EventsAre ==
  /\ \A n \in 1..MaxLines : Line(n) \in Event /\ Line(n).kind = "log"
  /\ \A k \in Outcomes : Final(k) \in Event /\ Final(k).kind = k
  /\ \A e \in Event : e.kind = "log" \/ e.kind \in Outcomes
  /\ "log" \notin Outcomes
  BY DEF Event, Line, Final, Outcomes

LEMMA NothingInOrder ==
  ASSUME NEW k, NEW n, NEW th
  PROVE  InOrder(<<>>, k, n, th)
  BY DEF InOrder

\* What comes next, after the rest.
LEMMA SaidNext ==
  ASSUME NEW q \in Seq(Event), NEW k \in Nat, NEW n \in Nat, NEW th, NEW e \in Event,
         InOrder(q, k, n, th), Says(e, k + Len(q) + 1, n, th)
  PROVE  /\ Append(q, e) \in Seq(Event) /\ Len(Append(q, e)) = Len(q) + 1
         /\ InOrder(Append(q, e), k, n, th)
<1>1. /\ Append(q, e) \in Seq(Event) /\ Len(Append(q, e)) = Len(q) + 1
      /\ \A i \in 1..Len(q) : Append(q, e)[i] = q[i]
      /\ Append(q, e)[Len(q) + 1] = e /\ Len(q) \in Nat
  BY AppendProperties
<1>2. ASSUME NEW i \in 1..Len(Append(q, e))
      PROVE  Says(Append(q, e)[i], k + i, n, th)
  <2>1. CASE i \in 1..Len(q)
    BY <1>1, <2>1 DEF InOrder
  <2>2. CASE i = Len(q) + 1
    <3>1. k + i = k + Len(q) + 1
      BY <1>1, <2>2
    <3>2. Append(q, e)[i] = e
      BY <1>1, <2>2
    <3>3. QED
      BY <3>1, <3>2
  <2>3. i \in 1..Len(q) \/ i = Len(q) + 1
    BY <1>1
  <2>4. QED
    BY <2>1, <2>2, <2>3
<1>3. InOrder(Append(q, e), k, n, th)
  BY <1>2 DEF InOrder
<1>4. QED
  BY <1>1, <1>3

\* An event moves from the front of one sequence to the end of the one before.
LEMMA MoveInOrder ==
  ASSUME NEW q \in Seq(Event), NEW r \in Seq(Event), r # <<>>,
         NEW k \in Nat, NEW n \in Nat, NEW th,
         InOrder(q, k, n, th), InOrder(r, k + Len(q), n, th)
  PROVE  /\ Append(q, Head(r)) \in Seq(Event) /\ Tail(r) \in Seq(Event)
         /\ Len(Append(q, Head(r))) = Len(q) + 1 /\ Len(Tail(r)) = Len(r) - 1
         /\ InOrder(Append(q, Head(r)), k, n, th)
         /\ InOrder(Tail(r), k + Len(q) + 1, n, th)
         /\ Says(Head(r), k + Len(q) + 1, n, th)
<1>1. Len(r) \in Nat \ {0} /\ Len(q) \in Nat /\ Head(r) = r[1] /\ Head(r) \in Event
  BY EmptySeq, HeadTailProperties
<1>2. Says(Head(r), k + Len(q) + 1, n, th)
  BY <1>1 DEF InOrder
<1>3. /\ Append(q, Head(r)) \in Seq(Event) /\ Len(Append(q, Head(r))) = Len(q) + 1
      /\ InOrder(Append(q, Head(r)), k, n, th)
  BY <1>1, <1>2, SaidNext
<1>5. /\ Tail(r) \in Seq(Event) /\ Len(Tail(r)) = Len(r) - 1
      /\ \A i \in 1..Len(Tail(r)) : Tail(r)[i] = r[i + 1]
  BY HeadTailProperties
<1>6. InOrder(Tail(r), k + Len(q) + 1, n, th)
  BY <1>1, <1>5 DEF InOrder
<1>7. QED
  BY <1>2, <1>3, <1>5, <1>6

\* The thread logs a line more: what is in order stays so.
LEMMA OneMoreLine ==
  ASSUME NEW q \in Seq(Event), NEW k \in Nat, NEW n \in Nat,
         InOrder(q, k, n, "running")
  PROVE  /\ InOrder(q, k, n + 1, "running")
         /\ \A th : InOrder(q, k, n, th)
<1>1. \A i \in 1..Len(q) : k + i <= n /\ k + i <= n + 1 /\ q[i] = Line(k + i)
  BY DEF InOrder, Says
<1>2. QED
  BY <1>1 DEF InOrder, Says

----------------------------------------------------------------------------
(***************************************************************************)
(* What each action does to the flow of one request.                       *)
(***************************************************************************)
LEMMA NothingYet ==
  ASSUME NEW wk, NEW th, NEW n
  PROVE  Delivered(n, th, <<>>, <<>>)
  BY NothingInOrder DEF Delivered

LEMMA OneMore ==
  ASSUME NEW a \in Nat, NEW b \in Nat, NEW c \in Nat, NEW d \in Nat, NEW e, e = d + 1
  PROVE  a + b + c + e = a + b + c + d + 1
  OBVIOUS

LEMMA BeginFlow ==
  ASSUME NEW wk, NEW l, FlowOf("asked", wk, "none", 0, <<>>, <<>>, <<>>, <<>>)
  PROVE  FlowOf("open", "waiting", "running", 0, <<>>, <<>>, <<>>, <<>>)
  BY NothingInOrder DEF FlowOf, Delivered, Underway

LEMMA RefusedFlow ==
  ASSUME NEW wk
  PROVE  FlowOf("eof", wk, "none", 0, <<>>, <<>>, <<Final("error")>>, <<>>)
<1>1. InOrder(<<Final("error")>>, 0, 0, "none")
  BY EventsAre DEF InOrder, Says, Outcomes
<1>2. QED
  BY <1>1, NothingInOrder DEF FlowOf, Delivered

LEMMA LogFlow ==
  ASSUME NEW l, NEW wk, NEW n \in Nat, Line(n + 1) \in Event,
         NEW r \in Seq(Event), NEW q \in Seq(Event), NEW w \in Seq(Event), NEW g \in Seq(Event),
         FlowOf(l, wk, "running", n, r, q, w, g)
  PROVE  FlowOf(l, wk, "running", n + 1, Append(r, Line(n + 1)), q, w, g)
<1>1. Delivered(n + 1, "running", w, g)
  BY OneMoreLine DEF FlowOf, Delivered
<1>2. ASSUME l = "open" PROVE Underway(wk, "running", n + 1, Append(r, Line(n + 1)), q, w, g)
  <2>0. Len(g) \in Nat /\ Len(w) \in Nat /\ Len(q) \in Nat /\ Len(r) \in Nat
    OBVIOUS
  <2>1. Underway(wk, "running", n, r, q, w, g)
    BY <1>2 DEF FlowOf
  <2>b. Len(g) + Len(w) + Len(q) + Len(r) = n
    BY <2>1 DEF Underway
  <2>2. /\ InOrder(q, Len(g) + Len(w), n + 1, "running")
        /\ InOrder(r, Len(g) + Len(w) + Len(q), n + 1, "running")
    BY <2>1, OneMoreLine DEF Underway
  <2>3. Says(Line(n + 1), Len(g) + Len(w) + Len(q) + Len(r) + 1, n + 1, "running")
    BY <2>1 DEF Underway, Says
  <2>4. /\ InOrder(Append(r, Line(n + 1)), Len(g) + Len(w) + Len(q), n + 1, "running")
        /\ Len(Append(r, Line(n + 1))) = Len(r) + 1
    BY <2>2, <2>3, SaidNext
  <2>5. Len(g) + Len(w) + Len(q) + Len(Append(r, Line(n + 1))) = n + 1
    <3>1. Len(g) + Len(w) + Len(q) + Len(Append(r, Line(n + 1))) = Len(g) + Len(w) + Len(q) + Len(r) + 1
      BY <2>0, <2>4, OneMore
    <3>2. QED
      BY <2>b, <3>1
  <2>6. wk = "waiting"
    BY <2>1 DEF Underway
  <2>7. QED
    BY <2>2, <2>4, <2>5, <2>6 DEF Underway
<1>3. QED
  BY <1>1, <1>2 DEF FlowOf

LEMMA ReturnFlow ==
  ASSUME NEW l, NEW wk, NEW n \in Nat, NEW o \in Outcomes,
         NEW r \in Seq(Event), NEW q \in Seq(Event), NEW w \in Seq(Event), NEW g \in Seq(Event),
         FlowOf(l, wk, "running", n, r, q, w, g)
  PROVE  FlowOf(l, wk, "ended", n, Append(r, Final(o)), q, w, g)
<1>1. Delivered(n, "ended", w, g)
  BY OneMoreLine DEF FlowOf, Delivered
<1>2. ASSUME l = "open" PROVE Underway(wk, "ended", n, Append(r, Final(o)), q, w, g)
  <2>0. Len(g) \in Nat /\ Len(w) \in Nat /\ Len(q) \in Nat /\ Len(r) \in Nat
    OBVIOUS
  <2>1. Underway(wk, "running", n, r, q, w, g)
    BY <1>2 DEF FlowOf
  <2>b. Len(g) + Len(w) + Len(q) + Len(r) = n
    BY <2>1 DEF Underway
  <2>2. /\ InOrder(q, Len(g) + Len(w), n, "ended")
        /\ InOrder(r, Len(g) + Len(w) + Len(q), n, "ended")
    BY <2>1, OneMoreLine DEF Underway
  <2>3. Says(Final(o), Len(g) + Len(w) + Len(q) + Len(r) + 1, n, "ended")
    <3>1. Says(Final(o), n + 1, n, "ended")
      BY EventsAre DEF Says
    <3>2. QED
      BY <2>b, <3>1
  <2>4. /\ InOrder(Append(r, Final(o)), Len(g) + Len(w) + Len(q), n, "ended")
        /\ Len(Append(r, Final(o))) = Len(r) + 1
    BY <2>2, <2>3, SaidNext, EventsAre
  <2>5. Len(g) + Len(w) + Len(q) + Len(Append(r, Final(o))) = n + 1
    <3>1. Len(g) + Len(w) + Len(q) + Len(Append(r, Final(o))) = Len(g) + Len(w) + Len(q) + Len(r) + 1
      BY <2>0, <2>4, OneMore
    <3>2. QED
      BY <2>b, <3>1
  <2>6. wk = "waiting"
    BY <2>1 DEF Underway
  <2>7. QED
    BY <2>2, <2>4, <2>5, <2>6 DEF Underway
<1>3. QED
  BY <1>1, <1>2 DEF FlowOf

LEMMA LastOfFour ==
  ASSUME NEW a \in Nat, NEW b \in Nat, NEW c \in Nat, NEW d \in Nat, a + b + c + d = a + b + c + 1
  PROVE  d = 1
  OBVIOUS

LEMMA CallbackFlow ==
  ASSUME NEW l, NEW wk, NEW th, NEW n \in Nat, NEW wk2, NEW q2,
         NEW r \in Seq(Event), NEW q \in Seq(Event), NEW w \in Seq(Event), NEW g \in Seq(Event),
         r # <<>>, FlowOf(l, wk, th, n, r, q, w, g),
         wk = "waiting" => /\ q2 = Append(q, Head(r))
                           /\ wk2 = IF Head(r).kind \in Outcomes THEN "done" ELSE wk
  PROVE  FlowOf(l, wk2, th, n, Tail(r), q2, w, g)
<1>1. l \notin {"none", "asked"}
  BY DEF FlowOf
<1>2. ASSUME l = "open" PROVE Underway(wk2, th, n, Tail(r), q2, w, g)
  <2>0. /\ Len(g) \in Nat /\ Len(w) \in Nat /\ Len(q) \in Nat /\ Len(r) \in Nat
        /\ Len(g) + Len(w) \in Nat
    OBVIOUS
  <2>1. Underway(wk, th, n, r, q, w, g)
    BY <1>2 DEF FlowOf
  <2>2. wk = "waiting" /\ q2 = Append(q, Head(r))
    BY <2>1 DEF Underway
  <2>3. /\ InOrder(q, Len(g) + Len(w), n, th)
        /\ InOrder(r, (Len(g) + Len(w)) + Len(q), n, th)
    BY <2>1 DEF Underway
  <2>4. /\ q2 \in Seq(Event) /\ Len(q2) = Len(q) + 1 /\ Len(Tail(r)) = Len(r) - 1
        /\ Tail(r) \in Seq(Event)
        /\ InOrder(q2, Len(g) + Len(w), n, th)
        /\ InOrder(Tail(r), (Len(g) + Len(w)) + Len(q) + 1, n, th)
        /\ Says(Head(r), (Len(g) + Len(w)) + Len(q) + 1, n, th)
    BY <2>0, <2>2, <2>3, MoveInOrder
  <2>5. (Len(g) + Len(w)) + Len(q2) = (Len(g) + Len(w)) + Len(q) + 1
    BY <2>0, <2>4
  <2>6. (Len(g) + Len(w)) + Len(q) + Len(r) = IF th = "running" THEN n ELSE n + 1
    BY <2>1 DEF Underway
  <2>7. (Len(g) + Len(w)) + Len(q2) + Len(Tail(r)) = (Len(g) + Len(w)) + Len(q) + Len(r)
    BY <2>0, <2>4, <2>5
  <2>8. ASSUME Head(r).kind \in Outcomes PROVE th # "running" /\ Tail(r) = <<>>
    <3>1. /\ ~((Len(g) + Len(w)) + Len(q) + 1 <= n)
          /\ th # "running" /\ (Len(g) + Len(w)) + Len(q) + 1 = n + 1
      BY <2>4, <2>8 DEF Says, Line, Outcomes
    <3>2. Len(r) = 1
      BY <2>0, <2>6, <3>1, LastOfFour
    <3>3. Len(Tail(r)) = 0
      BY <2>4, <3>2
    <3>4. QED
      BY <2>4, <3>1, <3>3, EmptySeq
  <2>9. wk2 = "waiting" \/ (th # "running" /\ Tail(r) = <<>>)
    BY <2>2, <2>8
  <2>10. InOrder(Tail(r), Len(g) + Len(w) + Len(q2), n, th)
    BY <2>4, <2>5
  <2>11. QED
    BY <2>4, <2>6, <2>7, <2>9, <2>10 DEF Underway
<1>3. QED
  BY <1>1, <1>2 DEF FlowOf

LEMMA YieldFlow ==
  ASSUME NEW l, NEW wk, NEW th, NEW n \in Nat,
         NEW r \in Seq(Event), NEW q \in Seq(Event), NEW w \in Seq(Event), NEW g \in Seq(Event),
         q # <<>>, FlowOf(l, wk, th, n, r, q, w, g)
  PROVE  /\ l # "open" => FlowOf(l, wk, th, n, r, Tail(q), w, g)
         /\ l = "open" => FlowOf(IF Ends(Head(q)) THEN "eof" ELSE "open",
                                 wk, th, n, r, Tail(q), Append(w, Head(q)), g)
<1>1. l \notin {"none", "asked"}
  BY DEF FlowOf
<1>2. l # "open" => FlowOf(l, wk, th, n, r, Tail(q), w, g)
  BY <1>1 DEF FlowOf
<1>3. ASSUME l = "open"
      PROVE  FlowOf(IF Ends(Head(q)) THEN "eof" ELSE "open",
                    wk, th, n, r, Tail(q), Append(w, Head(q)), g)
  <2>0. /\ Len(g) \in Nat /\ Len(w) \in Nat /\ Len(q) \in Nat /\ Len(r) \in Nat
    OBVIOUS
  <2>1. Underway(wk, th, n, r, q, w, g) /\ Delivered(n, th, w, g)
    BY <1>3 DEF FlowOf
  <2>2. InOrder(w, Len(g), n, th) /\ InOrder(q, Len(g) + Len(w), n, th)
    BY <2>1 DEF Underway, Delivered
  <2>3. /\ Len(Append(w, Head(q))) = Len(w) + 1 /\ Len(Tail(q)) = Len(q) - 1
        /\ InOrder(Append(w, Head(q)), Len(g), n, th)
        /\ InOrder(Tail(q), Len(g) + Len(w) + 1, n, th)
        /\ Says(Head(q), Len(g) + Len(w) + 1, n, th)
    BY <2>0, <2>2, MoveInOrder
  <2>4. Delivered(n, th, Append(w, Head(q)), g)
    BY <2>1, <2>3 DEF Delivered
  <2>5. /\ Len(g) + Len(Append(w, Head(q))) = Len(g) + Len(w) + 1
        /\ Len(g) + Len(Append(w, Head(q))) + Len(Tail(q)) = Len(g) + Len(w) + Len(q)
    BY <2>0, <2>3
  <2>6. Underway(wk, th, n, r, Tail(q), Append(w, Head(q)), g)
    BY <2>1, <2>3, <2>5 DEF Underway
  <2>7. Ends(Head(q)) => th # "running"
    BY <2>3 DEF Ends, Says, Line, Outcomes
  <2>8. QED
    BY <2>4, <2>6, <2>7 DEF FlowOf
<1>4. QED
  BY <1>2, <1>3

LEMMA ReceiveFlow ==
  ASSUME NEW l, NEW wk, NEW th, NEW n \in Nat,
         NEW r \in Seq(Event), NEW q \in Seq(Event), NEW w \in Seq(Event), NEW g \in Seq(Event),
         w # <<>>, FlowOf(l, wk, th, n, r, q, w, g)
  PROVE  /\ FlowOf(l, wk, th, n, r, q, Tail(w), Append(g, Head(w)))
         /\ Says(Head(w), Len(g) + 1, n, th)
<1>0. /\ Len(g) \in Nat /\ Len(w) \in Nat /\ Len(q) \in Nat /\ Len(r) \in Nat /\ 0 + Len(g) = Len(g)
  OBVIOUS
<1>1. l \notin {"none", "asked", "rejected", "left"}
  BY DEF FlowOf
<1>2. InOrder(g, 0, n, th) /\ InOrder(w, 0 + Len(g), n, th)
  BY <1>0 DEF FlowOf, Delivered
<1>3. /\ Len(Append(g, Head(w))) = Len(g) + 1 /\ Len(Tail(w)) = Len(w) - 1
      /\ InOrder(Append(g, Head(w)), 0, n, th)
      /\ InOrder(Tail(w), 0 + Len(g) + 1, n, th)
      /\ Says(Head(w), 0 + Len(g) + 1, n, th)
  BY <1>2, MoveInOrder
<1>4. Delivered(n, th, Tail(w), Append(g, Head(w)))
  BY <1>0, <1>3 DEF Delivered
<1>5. Len(Append(g, Head(w))) + Len(Tail(w)) = Len(g) + Len(w)
  BY <1>0, <1>3
<1>6. ASSUME l = "open" PROVE Underway(wk, th, n, r, q, Tail(w), Append(g, Head(w)))
  <2>1. Underway(wk, th, n, r, q, w, g)
    BY <1>6 DEF FlowOf
  <2>2. QED
    BY <1>5, <2>1 DEF Underway
<1>7. QED
  BY <1>0, <1>1, <1>3, <1>4, <1>6 DEF FlowOf

LEMMA LeaveFlow ==
  ASSUME NEW l, NEW wk, NEW th, NEW n, NEW r, NEW q, NEW w, NEW g,
         FlowOf(l, wk, th, n, r, q, w, g)
  PROVE  FlowOf(IF l \in {"asked", "open"} THEN "left" ELSE l, wk, th, n, r, q, <<>>, <<>>)
  BY NothingYet DEF FlowOf

LEMMA ExitFlow ==
  ASSUME NEW l, NEW wk, NEW th, NEW n \in Nat, NEW wk2,
         NEW r \in Seq(Event), NEW q \in Seq(Event), NEW w \in Seq(Event), NEW g \in Seq(Event),
         FlowOf(l, wk, th, n, r, q, w, g)
  PROVE  FlowOf(IF l \in {"asked", "open"} THEN "broken" ELSE l, wk2,
                IF th = "running" THEN "ended" ELSE th, n, <<>>, <<>>, w, g)
<1>1. Delivered(n, IF th = "running" THEN "ended" ELSE th, w, g)
  <2>1. CASE th = "running"
    BY <2>1, OneMoreLine DEF FlowOf, Delivered
  <2>2. CASE th # "running"
    BY <2>2 DEF FlowOf, Delivered
  <2>3. QED
    BY <2>1, <2>2
<1>2. QED
  BY <1>1 DEF FlowOf

----------------------------------------------------------------------------
(***************************************************************************)
(* The stream: one lemma for each action.                                  *)
(***************************************************************************)
LEMMA FlowInit == StreamInit => FlowInv
<1> SUFFICES ASSUME StreamInit PROVE FlowInv
  OBVIOUS
<1>1. StreamTypeOK
  BY EmptySeq, StreamAssumption DEF StreamInit, StreamTypeOK
<1>2. ASSUME NEW s \in Requests PROVE Flow(s)
  BY NothingYet DEF StreamInit, Flow, FlowOf
<1>3. QED
  BY <1>1, <1>2 DEF FlowInv

LEMMA Sequences ==
  ASSUME StreamTypeOK, NEW s \in Requests
  PROVE  /\ got[s] \in Seq(Event) /\ wire[s] \in Seq(Event)
         /\ queue[s] \in Seq(Event) /\ ready[s] \in Seq(Event)
         /\ lines[s] \in Nat
  BY StreamAssumption DEF StreamTypeOK

\* What happens to one request leaves the others alone.
LEMMA OnlyOne ==
  ASSUME \A r \in Requests : Flow(r), StreamTypeOK', NEW s \in Requests, Flow(s)',
         \A r \in Requests \ {s} :
           /\ link'[r] = link[r] /\ worker'[r] = worker[r] /\ thread'[r] = thread[r]
           /\ lines'[r] = lines[r] /\ ready'[r] = ready[r] /\ queue'[r] = queue[r]
           /\ wire'[r] = wire[r] /\ got'[r] = got[r]
  PROVE  FlowInv'
<1>1. ASSUME NEW r \in Requests, r # s PROVE Flow(r)'
  BY <1>1 DEF Flow
<1>2. QED
  BY <1>1 DEF FlowInv

LEMMA FlowAsk ==
  ASSUME FlowInv, NEW s \in Requests, Ask(s)
  PROVE  FlowInv'
<1>1. StreamTypeOK /\ \A r \in Requests : Flow(r)
  BY DEF FlowInv
<1>2. /\ got[s] \in Seq(Event) /\ wire[s] \in Seq(Event)
      /\ queue[s] \in Seq(Event) /\ ready[s] \in Seq(Event)
      /\ lines[s] \in Nat
  BY <1>1, Sequences
<1>3. /\ link[s] = "none" /\ link'[s] \in {"asked", "broken"}
      /\ worker'[s] = worker[s] /\ thread'[s] = thread[s] /\ lines'[s] = lines[s]
      /\ ready'[s] = ready[s] /\ queue'[s] = queue[s] /\ wire'[s] = wire[s] /\ got'[s] = got[s]
  BY <1>1 DEF StreamTypeOK, Ask, loopVars
<1>4. StreamTypeOK'
  BY <1>1, StreamAssumption DEF StreamTypeOK, Ask, loopVars
<1>5. Flow(s)'
  BY <1>1, <1>3 DEF Flow, FlowOf
<1>6. \A r \in Requests \ {s} :
        /\ link'[r] = link[r] /\ worker'[r] = worker[r] /\ thread'[r] = thread[r]
        /\ lines'[r] = lines[r] /\ ready'[r] = ready[r] /\ queue'[r] = queue[r]
        /\ wire'[r] = wire[r] /\ got'[r] = got[r]
  BY <1>1 DEF StreamTypeOK, Ask, loopVars
<1>7. QED
  BY <1>1, <1>4, <1>5, <1>6, OnlyOne

LEMMA FlowReject ==
  ASSUME FlowInv, NEW s \in Requests, Reject(s)
  PROVE  FlowInv'
<1>1. StreamTypeOK /\ \A r \in Requests : Flow(r)
  BY DEF FlowInv
<1>2. /\ got[s] \in Seq(Event) /\ wire[s] \in Seq(Event)
      /\ queue[s] \in Seq(Event) /\ ready[s] \in Seq(Event)
      /\ lines[s] \in Nat
  BY <1>1, Sequences
<1>3. /\ link[s] = "asked" /\ link'[s] = "rejected"
      /\ worker'[s] = worker[s] /\ thread'[s] = thread[s] /\ lines'[s] = lines[s]
      /\ ready'[s] = ready[s] /\ queue'[s] = queue[s] /\ wire'[s] = wire[s] /\ got'[s] = got[s]
  BY <1>1 DEF StreamTypeOK, Reject, loopVars
<1>4. StreamTypeOK'
  BY <1>1, StreamAssumption DEF StreamTypeOK, Reject, loopVars
<1>5. Flow(s)'
  BY <1>1, <1>3 DEF Flow, FlowOf
<1>6. \A r \in Requests \ {s} :
        /\ link'[r] = link[r] /\ worker'[r] = worker[r] /\ thread'[r] = thread[r]
        /\ lines'[r] = lines[r] /\ ready'[r] = ready[r] /\ queue'[r] = queue[r]
        /\ wire'[r] = wire[r] /\ got'[r] = got[r]
  BY <1>1 DEF StreamTypeOK, Reject, loopVars
<1>7. QED
  BY <1>1, <1>4, <1>5, <1>6, OnlyOne

LEMMA FlowAccept ==
  ASSUME FlowInv, NEW s \in Requests, Accept(s)
  PROVE  FlowInv'
<1>1. StreamTypeOK /\ \A r \in Requests : Flow(r)
  BY DEF FlowInv
<1>2. /\ got[s] \in Seq(Event) /\ wire[s] \in Seq(Event)
      /\ queue[s] \in Seq(Event) /\ ready[s] \in Seq(Event)
      /\ lines[s] \in Nat
  BY <1>1, Sequences
<1>3. /\ link[s] = "asked" /\ link'[s] = "open" /\ worker'[s] = "waiting"
      /\ thread'[s] = "running" /\ lines'[s] = lines[s]
      /\ ready'[s] = ready[s] /\ queue'[s] = queue[s] /\ wire'[s] = wire[s] /\ got'[s] = got[s]
  BY <1>1 DEF StreamTypeOK, Accept, loopVars
<1>4. StreamTypeOK'
  BY <1>1, StreamAssumption DEF StreamTypeOK, Accept, loopVars
<1>5. Flow(s)'
  <2>1. /\ lines[s] = 0 /\ thread[s] = "none"
        /\ got[s] = <<>> /\ wire[s] = <<>> /\ queue[s] = <<>> /\ ready[s] = <<>>
    BY <1>1, <1>3 DEF Flow, FlowOf
  <2>2. QED
    BY <1>1, <1>3, <2>1, BeginFlow DEF Flow
<1>6. \A r \in Requests \ {s} :
        /\ link'[r] = link[r] /\ worker'[r] = worker[r] /\ thread'[r] = thread[r]
        /\ lines'[r] = lines[r] /\ ready'[r] = ready[r] /\ queue'[r] = queue[r]
        /\ wire'[r] = wire[r] /\ got'[r] = got[r]
  BY <1>1 DEF StreamTypeOK, Accept, loopVars
<1>7. QED
  BY <1>1, <1>4, <1>5, <1>6, OnlyOne

LEMMA FlowRefuse ==
  ASSUME FlowInv, NEW s \in Requests, Refuse(s)
  PROVE  FlowInv'
<1>1. StreamTypeOK /\ \A r \in Requests : Flow(r)
  BY DEF FlowInv
<1>2. /\ got[s] \in Seq(Event) /\ wire[s] \in Seq(Event)
      /\ queue[s] \in Seq(Event) /\ ready[s] \in Seq(Event)
      /\ lines[s] \in Nat
  BY <1>1, Sequences
<1>3. /\ link[s] = "asked" /\ link'[s] = "eof" /\ wire'[s] = <<Final("error")>>
      /\ worker'[s] = worker[s] /\ thread'[s] = thread[s] /\ lines'[s] = lines[s]
      /\ ready'[s] = ready[s] /\ queue'[s] = queue[s] /\ got'[s] = got[s]
  BY <1>1 DEF StreamTypeOK, Refuse, loopVars
<1>4. StreamTypeOK'
  <2>1. <<Final("error")>> \in Seq(Event)
    BY EventsAre DEF Outcomes
  <2>2. QED
    BY <1>1, <2>1 DEF StreamTypeOK, Refuse, loopVars
<1>5. Flow(s)'
  <2>1. /\ lines[s] = 0 /\ thread[s] = "none"
        /\ got[s] = <<>> /\ wire[s] = <<>> /\ queue[s] = <<>> /\ ready[s] = <<>>
    BY <1>1, <1>3 DEF Flow, FlowOf
  <2>2. QED
    BY <1>1, <1>3, <2>1, RefusedFlow DEF Flow
<1>6. \A r \in Requests \ {s} :
        /\ link'[r] = link[r] /\ worker'[r] = worker[r] /\ thread'[r] = thread[r]
        /\ lines'[r] = lines[r] /\ ready'[r] = ready[r] /\ queue'[r] = queue[r]
        /\ wire'[r] = wire[r] /\ got'[r] = got[r]
  BY <1>1 DEF StreamTypeOK, Refuse, loopVars
<1>7. QED
  BY <1>1, <1>4, <1>5, <1>6, OnlyOne

LEMMA FlowOnLog ==
  ASSUME FlowInv, NEW s \in Requests, OnLog(s)
  PROVE  FlowInv'
<1>1. StreamTypeOK /\ \A r \in Requests : Flow(r)
  BY DEF FlowInv
<1>2. /\ got[s] \in Seq(Event) /\ wire[s] \in Seq(Event)
      /\ queue[s] \in Seq(Event) /\ ready[s] \in Seq(Event)
      /\ lines[s] \in Nat
  BY <1>1, Sequences
<1>3. /\ thread[s] = "running" /\ thread'[s] = "running" /\ lines'[s] = lines[s] + 1
      /\ ready'[s] = Append(ready[s], Line(lines[s] + 1)) /\ Line(lines[s] + 1) \in Event
      /\ link'[s] = link[s] /\ worker'[s] = worker[s]
      /\ queue'[s] = queue[s] /\ wire'[s] = wire[s] /\ got'[s] = got[s]
  BY <1>1, <1>2, EventsAre, StreamAssumption DEF StreamTypeOK, OnLog, CallSoon
<1>4. StreamTypeOK'
  <2>1. ready'[s] \in Seq(Event)
    BY <1>2, <1>3
  <2>2. QED
    BY <1>1, <1>2, <2>1, StreamAssumption DEF StreamTypeOK, OnLog, CallSoon
<1>5. Flow(s)'
  BY <1>1, <1>2, <1>3, LogFlow DEF Flow
<1>6. \A r \in Requests \ {s} :
        /\ link'[r] = link[r] /\ worker'[r] = worker[r] /\ thread'[r] = thread[r]
        /\ lines'[r] = lines[r] /\ ready'[r] = ready[r] /\ queue'[r] = queue[r]
        /\ wire'[r] = wire[r] /\ got'[r] = got[r]
  BY <1>1 DEF StreamTypeOK, OnLog, CallSoon
<1>7. QED
  BY <1>1, <1>4, <1>5, <1>6, OnlyOne

LEMMA FlowReturn ==
  ASSUME FlowInv, NEW s \in Requests, NEW o \in Outcomes, Return(s, o)
  PROVE  FlowInv'
<1>1. StreamTypeOK /\ \A r \in Requests : Flow(r)
  BY DEF FlowInv
<1>2. /\ got[s] \in Seq(Event) /\ wire[s] \in Seq(Event)
      /\ queue[s] \in Seq(Event) /\ ready[s] \in Seq(Event)
      /\ lines[s] \in Nat
  BY <1>1, Sequences
<1>3. /\ thread[s] = "running" /\ thread'[s] = "ended" /\ lines'[s] = lines[s]
      /\ ready'[s] = Append(ready[s], Final(o)) /\ Final(o) \in Event
      /\ link'[s] = link[s] /\ worker'[s] = worker[s]
      /\ queue'[s] = queue[s] /\ wire'[s] = wire[s] /\ got'[s] = got[s]
  BY <1>1, EventsAre DEF StreamTypeOK, Return, CallSoon
<1>4. StreamTypeOK'
  <2>1. ready'[s] \in Seq(Event)
    BY <1>2, <1>3
  <2>2. QED
    BY <1>1, <1>2, <2>1 DEF StreamTypeOK, Return, CallSoon
<1>5. Flow(s)'
  BY <1>1, <1>2, <1>3, ReturnFlow DEF Flow
<1>6. \A r \in Requests \ {s} :
        /\ link'[r] = link[r] /\ worker'[r] = worker[r] /\ thread'[r] = thread[r]
        /\ lines'[r] = lines[r] /\ ready'[r] = ready[r] /\ queue'[r] = queue[r]
        /\ wire'[r] = wire[r] /\ got'[r] = got[r]
  BY <1>1 DEF StreamTypeOK, Return, CallSoon
<1>7. QED
  BY <1>1, <1>4, <1>5, <1>6, OnlyOne

LEMMA FlowRunCallback ==
  ASSUME FlowInv, NEW s \in Requests, RunCallback(s)
  PROVE  FlowInv'
<1>1. StreamTypeOK /\ \A r \in Requests : Flow(r)
  BY DEF FlowInv
<1>2. /\ got[s] \in Seq(Event) /\ wire[s] \in Seq(Event)
      /\ queue[s] \in Seq(Event) /\ ready[s] \in Seq(Event)
      /\ lines[s] \in Nat
  BY <1>1, Sequences
<1>a. /\ ready[s] # <<>> /\ Head(ready[s]) \in Event /\ Tail(ready[s]) \in Seq(Event)
      /\ Append(queue[s], Head(ready[s])) \in Seq(Event)
  BY <1>2, HeadTailProperties DEF RunCallback
<1>3. /\ link'[s] = link[s] /\ thread'[s] = thread[s] /\ lines'[s] = lines[s]
      /\ ready'[s] = Tail(ready[s]) /\ wire'[s] = wire[s] /\ got'[s] = got[s]
      /\ worker[s] = "waiting" =>
           /\ queue'[s] = Append(queue[s], Head(ready[s]))
           /\ worker'[s] = IF Head(ready[s]).kind \in Outcomes THEN "done" ELSE worker[s]
  BY <1>1 DEF StreamTypeOK, RunCallback, Enqueue
<1>4. StreamTypeOK'
  <2>1. queue' \in [Requests -> Seq(Event)] /\ ready' \in [Requests -> Seq(Event)]
    BY <1>1, <1>a DEF StreamTypeOK, RunCallback, Enqueue
  <2>2. worker' \in [Requests -> {"none", "waiting", "done", "cancelled"}]
    BY <1>1 DEF StreamTypeOK, RunCallback
  <2>3. QED
    BY <1>1, <2>1, <2>2 DEF StreamTypeOK, RunCallback
<1>5. Flow(s)'
  <2>1. FlowOf(link[s], worker[s], thread[s], lines[s], ready[s], queue[s], wire[s], got[s])
    BY <1>1 DEF Flow
  <2>2. FlowOf(link[s], worker'[s], thread[s], lines[s],
               Tail(ready[s]), queue'[s], wire[s], got[s])
    BY <1>2, <1>3, <1>a, <2>1, CallbackFlow
  <2>3. QED
    BY <1>3, <2>2 DEF Flow
<1>6. \A r \in Requests \ {s} :
        /\ link'[r] = link[r] /\ worker'[r] = worker[r] /\ thread'[r] = thread[r]
        /\ lines'[r] = lines[r] /\ ready'[r] = ready[r] /\ queue'[r] = queue[r]
        /\ wire'[r] = wire[r] /\ got'[r] = got[r]
  BY <1>1 DEF StreamTypeOK, RunCallback, Enqueue
<1>7. QED
  BY <1>1, <1>4, <1>5, <1>6, OnlyOne

LEMMA FlowYield ==
  ASSUME FlowInv, NEW s \in Requests, Yield(s)
  PROVE  FlowInv'
<1>1. StreamTypeOK /\ \A r \in Requests : Flow(r)
  BY DEF FlowInv
<1>2. /\ got[s] \in Seq(Event) /\ wire[s] \in Seq(Event)
      /\ queue[s] \in Seq(Event) /\ ready[s] \in Seq(Event)
      /\ lines[s] \in Nat
  BY <1>1, Sequences
<1>a. /\ queue[s] # <<>> /\ Head(queue[s]) \in Event /\ Tail(queue[s]) \in Seq(Event)
      /\ Append(wire[s], Head(queue[s])) \in Seq(Event)
  BY <1>2, HeadTailProperties DEF Yield
<1>3. /\ worker'[s] = worker[s] /\ thread'[s] = thread[s] /\ lines'[s] = lines[s]
      /\ ready'[s] = ready[s] /\ queue'[s] = Tail(queue[s]) /\ got'[s] = got[s]
      /\ wire'[s] = IF link[s] = "open" THEN Append(wire[s], Head(queue[s])) ELSE wire[s]
      /\ link'[s] = IF Ends(Head(queue[s])) /\ link[s] = "open" THEN "eof" ELSE link[s]
  BY <1>1 DEF StreamTypeOK, Yield
<1>4. StreamTypeOK'
  <2>1. queue' \in [Requests -> Seq(Event)] /\ wire' \in [Requests -> Seq(Event)]
    BY <1>1, <1>a DEF StreamTypeOK, Yield
  <2>2. QED
    BY <1>1, <2>1 DEF StreamTypeOK, Yield
<1>5. Flow(s)'
  <2>1. FlowOf(link[s], worker[s], thread[s], lines[s], ready[s], queue[s], wire[s], got[s])
    BY <1>1 DEF Flow
  <2>2. CASE link[s] = "open"
    <3>1. FlowOf(IF Ends(Head(queue[s])) THEN "eof" ELSE "open", worker[s], thread[s], lines[s],
                 ready[s], Tail(queue[s]), Append(wire[s], Head(queue[s])), got[s])
      BY <1>2, <1>a, <2>1, <2>2, YieldFlow
    <3>2. link'[s] = IF Ends(Head(queue[s])) THEN "eof" ELSE "open"
      BY <1>3, <2>2
    <3>3. QED
      BY <1>3, <2>2, <3>1, <3>2 DEF Flow
  <2>3. CASE link[s] # "open"
    BY <1>2, <1>3, <1>a, <2>1, <2>3, YieldFlow DEF Flow
  <2>4. QED
    BY <2>2, <2>3
<1>6. \A r \in Requests \ {s} :
        /\ link'[r] = link[r] /\ worker'[r] = worker[r] /\ thread'[r] = thread[r]
        /\ lines'[r] = lines[r] /\ ready'[r] = ready[r] /\ queue'[r] = queue[r]
        /\ wire'[r] = wire[r] /\ got'[r] = got[r]
  BY <1>1 DEF StreamTypeOK, Yield
<1>7. QED
  BY <1>1, <1>4, <1>5, <1>6, OnlyOne

LEMMA FlowCancel ==
  ASSUME FlowInv, NEW s \in Requests, Cancel(s)
  PROVE  FlowInv'
<1>1. StreamTypeOK /\ \A r \in Requests : Flow(r)
  BY DEF FlowInv
<1>2. /\ got[s] \in Seq(Event) /\ wire[s] \in Seq(Event)
      /\ queue[s] \in Seq(Event) /\ ready[s] \in Seq(Event)
      /\ lines[s] \in Nat
  BY <1>1, Sequences
<1>3. /\ link[s] = "left" /\ link'[s] = "left" /\ thread'[s] = thread[s] /\ lines'[s] = lines[s]
      /\ wire'[s] = wire[s] /\ got'[s] = got[s]
  BY <1>1 DEF StreamTypeOK, Cancel
<1>4. StreamTypeOK'
  BY <1>1, StreamAssumption DEF StreamTypeOK, Cancel
<1>5. Flow(s)'
  BY <1>1, <1>3 DEF Flow, FlowOf
<1>6. \A r \in Requests \ {s} :
        /\ link'[r] = link[r] /\ worker'[r] = worker[r] /\ thread'[r] = thread[r]
        /\ lines'[r] = lines[r] /\ ready'[r] = ready[r] /\ queue'[r] = queue[r]
        /\ wire'[r] = wire[r] /\ got'[r] = got[r]
  BY <1>1 DEF StreamTypeOK, Cancel
<1>7. QED
  BY <1>1, <1>4, <1>5, <1>6, OnlyOne

LEMMA FlowReceive ==
  ASSUME FlowInv, NEW s \in Requests, Receive(s)
  PROVE  FlowInv'
<1>1. StreamTypeOK /\ \A r \in Requests : Flow(r)
  BY DEF FlowInv
<1>2. /\ got[s] \in Seq(Event) /\ wire[s] \in Seq(Event)
      /\ queue[s] \in Seq(Event) /\ ready[s] \in Seq(Event)
      /\ lines[s] \in Nat
  BY <1>1, Sequences
<1>a. /\ wire[s] # <<>> /\ Head(wire[s]) \in Event /\ Tail(wire[s]) \in Seq(Event)
      /\ Append(got[s], Head(wire[s])) \in Seq(Event)
  BY <1>2, HeadTailProperties DEF Receive
<1>3. /\ link'[s] = link[s] /\ worker'[s] = worker[s] /\ thread'[s] = thread[s]
      /\ lines'[s] = lines[s] /\ ready'[s] = ready[s] /\ queue'[s] = queue[s]
      /\ wire'[s] = Tail(wire[s]) /\ got'[s] = Append(got[s], Head(wire[s]))
  BY <1>1 DEF StreamTypeOK, Receive, loopVars
<1>4. StreamTypeOK'
  BY <1>1, <1>a DEF StreamTypeOK, Receive, loopVars
<1>5. Flow(s)'
  BY <1>1, <1>2, <1>3, <1>a, ReceiveFlow DEF Flow
<1>6. \A r \in Requests \ {s} :
        /\ link'[r] = link[r] /\ worker'[r] = worker[r] /\ thread'[r] = thread[r]
        /\ lines'[r] = lines[r] /\ ready'[r] = ready[r] /\ queue'[r] = queue[r]
        /\ wire'[r] = wire[r] /\ got'[r] = got[r]
  BY <1>1 DEF StreamTypeOK, Receive, loopVars
<1>7. QED
  BY <1>1, <1>4, <1>5, <1>6, OnlyOne

LEMMA FlowLeave ==
  ASSUME FlowInv, NEW s \in Requests, Leave(s)
  PROVE  FlowInv'
<1>1. StreamTypeOK /\ \A r \in Requests : Flow(r)
  BY DEF FlowInv
<1>2. /\ got[s] \in Seq(Event) /\ wire[s] \in Seq(Event)
      /\ queue[s] \in Seq(Event) /\ ready[s] \in Seq(Event)
      /\ lines[s] \in Nat
  BY <1>1, Sequences
<1>3. /\ link'[s] = IF link[s] \in {"asked", "open"} THEN "left" ELSE link[s]
      /\ worker'[s] = worker[s] /\ thread'[s] = thread[s] /\ lines'[s] = lines[s]
      /\ ready'[s] = ready[s] /\ queue'[s] = queue[s] /\ wire'[s] = <<>> /\ got'[s] = <<>>
  BY <1>1 DEF StreamTypeOK, Leave, loopVars
<1>4. StreamTypeOK'
  BY <1>1, StreamAssumption DEF StreamTypeOK, Leave, loopVars
<1>5. Flow(s)'
  <2>1. Flow(s)
    BY <1>1
  <2>2. QED
    BY <1>3, <2>1, LeaveFlow DEF Flow
<1>6. \A r \in Requests \ {s} :
        /\ link'[r] = link[r] /\ worker'[r] = worker[r] /\ thread'[r] = thread[r]
        /\ lines'[r] = lines[r] /\ ready'[r] = ready[r] /\ queue'[r] = queue[r]
        /\ wire'[r] = wire[r] /\ got'[r] = got[r]
  BY <1>1 DEF StreamTypeOK, Leave, loopVars
<1>7. QED
  BY <1>1, <1>4, <1>5, <1>6, OnlyOne

LEMMA FlowExit ==
  ASSUME FlowInv, Exit
  PROVE  FlowInv'
<1>1. StreamTypeOK /\ \A r \in Requests : Flow(r)
  BY DEF FlowInv
<1>2. StreamTypeOK'
  BY <1>1, EmptySeq DEF StreamTypeOK, Exit
<1>3. ASSUME NEW r \in Requests PROVE Flow(r)'
  <2>1. /\ link'[r] = IF link[r] \in {"asked", "open"} THEN "broken" ELSE link[r]
        /\ thread'[r] = IF thread[r] = "running" THEN "ended" ELSE thread[r]
        /\ lines'[r] = lines[r] /\ ready'[r] = <<>> /\ queue'[r] = <<>>
        /\ wire'[r] = wire[r] /\ got'[r] = got[r]
    BY <1>1 DEF StreamTypeOK, Exit
  <2>2. FlowOf(link[r], worker[r], thread[r], lines[r], ready[r], queue[r], wire[r], got[r])
    BY <1>1 DEF Flow
  <2>3. /\ got[r] \in Seq(Event) /\ wire[r] \in Seq(Event)
        /\ queue[r] \in Seq(Event) /\ ready[r] \in Seq(Event) /\ lines[r] \in Nat
    BY <1>1, Sequences
  <2>4. FlowOf(IF link[r] \in {"asked", "open"} THEN "broken" ELSE link[r], worker'[r],
               IF thread[r] = "running" THEN "ended" ELSE thread[r], lines[r],
               <<>>, <<>>, wire[r], got[r])
    BY <2>2, <2>3, ExitFlow
  <2>5. QED
    BY <2>1, <2>4 DEF Flow
<1>4. QED
  BY <1>2, <1>3 DEF FlowInv

LEMMA FlowStart ==
  ASSUME FlowInv, Start
  PROVE  FlowInv'
  BY DEF FlowInv, StreamTypeOK, Flow, Start, loopVars

LEMMA FlowUnchanged ==
  ASSUME FlowInv, UNCHANGED streamVars
  PROVE  FlowInv'
  BY DEF FlowInv, StreamTypeOK, Flow, streamVars, loopVars

LEMMA FlowServer ==
  ASSUME FlowInv, ServerStep
  PROVE  FlowInv' /\ got' = got
<1>1. CASE Exit \/ Start
  BY <1>1, FlowExit, FlowStart DEF Exit, Start
<1>2. ASSUME NEW s \in Requests, OnLog(s) \/ Cancel(s) PROVE FlowInv' /\ got' = got
  BY <1>2, FlowOnLog, FlowCancel DEF OnLog, Cancel
<1>3. ASSUME NEW s \in Requests, Serve(s) PROVE FlowInv' /\ got' = got
  <2>1. CASE Accept(s) \/ Refuse(s) \/ Reject(s)
    BY <2>1, FlowAccept, FlowRefuse, FlowReject DEF Accept, Refuse, Reject
  <2>2. ASSUME NEW o \in Outcomes, Return(s, o) PROVE FlowInv' /\ got' = got
    BY <2>2, FlowReturn DEF Return
  <2>3. CASE RunCallback(s) \/ Yield(s)
    BY <2>3, FlowRunCallback, FlowYield DEF RunCallback, Yield
  <2>4. QED
    BY <1>3, <2>1, <2>2, <2>3 DEF Serve
<1>4. QED
  BY <1>1, <1>2, <1>3 DEF ServerStep

----------------------------------------------------------------------------
(***************************************************************************)
(* The page.                                                               *)
(***************************************************************************)
\* Only what is being read has been received.
ReadingInv == \A s \in Requests : got[s] # <<>> => s = current /\ phase = "read"

\* The console has the log of what is awaited, up to what has been received.
ConsoleInv ==
  logs # <<>> /\ current # Nobody =>
    /\ phase \in {"read", "stuck"}
    /\ logs[Len(logs)][1] = current
    /\ phase = "read" => \/ logs[Len(logs)][2] = Len(got[current])
                         \/ Len(got[current]) > lines[current]

\* What is shown while a conversion or `format` is awaited.
AwaitedInv ==
  /\ running => status = "none"
  /\ phase \in {"fetch", "format"} => result = NoResult
  /\ current # Nobody => /\ ~changed => asked = [source |-> source, target |-> target]
                         /\ result # NoResult =>
                              result = [of |-> "conversion", asked |-> asked] /\ ok

PageInv ==
  /\ PlaygroundTypeOK
  /\ FlowInv
  /\ ReadingInv
  /\ ValidCombination
  /\ LogIsOfOneRun /\ ConsoleInv
  /\ ShownAgrees /\ AwaitedInv

LEMMA InitPageInv == PlaygroundInit => PageInv
<1> SUFFICES ASSUME PlaygroundInit PROVE PageInv
  OBVIOUS
<1>1. FlowInv /\ ReadingInv
  BY FlowInit DEF PlaygroundInit, ReadingInv, StreamInit
<1>2. PlaygroundTypeOK
  BY <1>1, PlaygroundAssumption, EmptySeq
     DEF PlaygroundInit, BlankPage, PlaygroundTypeOK, FlowInv, AllTargets, Asked, NoFormats, Shown, NoResult
<1>3. ValidCombination
  BY DEF PlaygroundInit, BlankPage, ValidCombination, Targets, AllTargets, NoFormats
<1>4. LogIsOfOneRun /\ ConsoleInv
  BY EmptySeq DEF PlaygroundInit, BlankPage, LogIsOfOneRun, ConsoleInv
<1>5. ShownAgrees /\ AwaitedInv
  BY DEF PlaygroundInit, BlankPage, ShownAgrees, AwaitedInv, NoResult, running
<1>6. QED
  BY <1>1, <1>2, <1>3, <1>4, <1>5 DEF PageInv

\* What the server does.
LEMMA ServerKeepsPageInv ==
  ASSUME PageInv, ServerStep, UNCHANGED pageVars
  PROVE  PageInv'
<1> USE DEF PageInv, pageVars, formVars, runVars, shownVars
<1>1. FlowInv' /\ got' = got
  BY FlowServer
<1>2. PlaygroundTypeOK'
  BY <1>1 DEF PlaygroundTypeOK, FlowInv
<1>3. ReadingInv' /\ ValidCombination' /\ LogIsOfOneRun' /\ ShownAgrees' /\ AwaitedInv'
  BY <1>1 DEF ReadingInv, ValidCombination, LogIsOfOneRun, ShownAgrees, AwaitedInv, running
<1>4. ConsoleInv'
  <2>1. ASSUME NEW s \in Requests PROVE Len(got[s]) > lines[s] => Len(got[s]) > lines'[s]
    <3>1. CASE OnLog(s)
      <4>1. /\ got[s] \in Seq(Event) /\ Len(got[s]) \in Nat /\ lines[s] \in Nat
            /\ InOrder(got[s], 0, lines[s], "running")
        BY <3>1, Sequences DEF FlowInv, OnLog, Flow, FlowOf, Delivered
      <4>2. \A i \in 1..Len(got[s]) : i <= lines[s]
        BY <4>1 DEF InOrder, Says
      <4>3. QED
        BY <4>1, <4>2
    <3>2. CASE ~OnLog(s)
      <4>1. lines'[s] = lines[s]
        BY <3>2 DEF ServerStep, Serve, Accept, Refuse, Reject, Return, RunCallback, Yield,
                    OnLog, Cancel, Exit, Start, loopVars, FlowInv, StreamTypeOK
      <4>2. QED
        BY <4>1
    <3>3. QED
      BY <3>1, <3>2
  <2>2. current \in Requests \cup {Nobody}
    BY DEF PlaygroundTypeOK
  <2>3. QED
    BY <1>1, <2>1, <2>2 DEF ConsoleInv
<1>5. QED
  BY <1>1, <1>2, <1>3, <1>4

\* What the user edits, and `format`.
LEMMA PageKeepsPageInv ==
  ASSUME PageInv, PageStep, UNCHANGED streamVars
  PROVE  PageInv'
<1>0. /\ PlaygroundTypeOK /\ FlowInv /\ ReadingInv /\ ValidCombination
      /\ LogIsOfOneRun /\ ConsoleInv /\ ShownAgrees /\ AwaitedInv
  BY DEF PageInv
<1>1. FlowInv' /\ got' = got /\ lines' = lines
  BY <1>0, FlowUnchanged DEF streamVars, loopVars
<1>2. \A f : "auto" \in Targets(f)
  BY DEF Targets, AllTargets
<1>3. Nobody \notin Requests /\ "cloudformation" \in Sources /\ FormatOf \in [Examples -> Sources]
  BY PlaygroundAssumption
<1>4. ASSUME \/ \E f \in Sources : ChangeSource(f)
             \/ \E t \in Targets(source) : ChangeTarget(t)
             \/ \E e \in fetching : ExampleLoaded(e)
      PROVE  PageInv'
  <2>1. /\ source' \in Sources /\ target' \in Targets(source') /\ target' \in AllTargets
        /\ fetching' \subseteq Examples
    BY <1>0, <1>2, <1>3, <1>4
       DEF ChangeSource, ChangeTarget, ExampleLoaded, PlaygroundTypeOK, ValidCombination, Targets
  <2>2. /\ UNCHANGED <<phase, current, asked, ok>> /\ ResetIO /\ changed' = running
    BY <1>4 DEF ChangeSource, ChangeTarget, ExampleLoaded, runVars
  <2>3. PlaygroundTypeOK'
    BY <1>0, <1>1, <2>1, <2>2, EmptySeq
       DEF PlaygroundTypeOK, FlowInv, ResetIO, running, Shown
  <2>4. ReadingInv' /\ ValidCombination' /\ LogIsOfOneRun' /\ ConsoleInv'
    BY <1>0, <1>1, <2>1, <2>2, EmptySeq
       DEF ReadingInv, ValidCombination, LogIsOfOneRun, ConsoleInv, ResetIO
  <2>5. current # Nobody => running
    BY <1>0 DEF PlaygroundTypeOK, running
  <2>6. ShownAgrees' /\ AwaitedInv'
    BY <2>2, <2>5 DEF ShownAgrees, AwaitedInv, ResetIO, NoResult, running
  <2>7. QED
    BY <1>1, <2>3, <2>4, <2>6 DEF PageInv
<1>5. ASSUME \/ \E e \in Examples : PickExample(e)
             \/ \E e \in fetching : ExampleFails(e)
             \/ ClearLogs
      PROVE  PageInv'
  <2>1. /\ UNCHANGED <<source, target, phase, current, asked, ok, result, status, changed>>
        /\ logs' \in {logs, <<>>} /\ fetching' \subseteq Examples
    BY <1>0, <1>5 DEF PickExample, ExampleFails, ClearLogs, formVars, runVars, shownVars, PlaygroundTypeOK
  <2>2. PlaygroundTypeOK'
    BY <1>0, <1>1, <2>1, EmptySeq DEF PlaygroundTypeOK, FlowInv
  <2>3. ReadingInv' /\ ValidCombination' /\ LogIsOfOneRun' /\ ConsoleInv'
    BY <1>0, <1>1, <2>1, EmptySeq
       DEF ReadingInv, ValidCombination, LogIsOfOneRun, ConsoleInv
  <2>4. ShownAgrees' /\ AwaitedInv'
    BY <1>0, <2>1 DEF ShownAgrees, AwaitedInv, running
  <2>5. QED
    BY <1>1, <2>2, <2>3, <2>4 DEF PageInv
<1>6. CASE FilesRead
  <2>1. /\ UNCHANGED <<source, target, fetching, phase, current, asked, ok, changed>>
        /\ logs' = <<>> /\ result' = NoResult /\ status' = "none"
    BY <1>6 DEF FilesRead, ResetIO, formVars, runVars
  <2>2. PlaygroundTypeOK'
    BY <1>0, <1>1, <2>1, EmptySeq DEF PlaygroundTypeOK, FlowInv, Shown
  <2>3. ReadingInv' /\ ValidCombination' /\ LogIsOfOneRun' /\ ConsoleInv'
    BY <1>0, <1>1, <2>1, EmptySeq
       DEF ReadingInv, ValidCombination, LogIsOfOneRun, ConsoleInv
  <2>4. ShownAgrees' /\ AwaitedInv'
    BY <1>0, <2>1 DEF ShownAgrees, AwaitedInv, running, NoResult
  <2>5. QED
    BY <1>1, <2>2, <2>3, <2>4 DEF PageInv
<1>7. CASE ClickFormat
  <2>1. /\ UNCHANGED <<source, target, fetching, current, asked, ok>> /\ changed' = FALSE
        /\ phase = "idle" /\ phase' = "format" /\ current = Nobody
        /\ logs' = <<>> /\ result' = NoResult /\ status' = "none"
    BY <1>0, <1>7 DEF ClickFormat, ResetIO, formVars, Enabled, running, PlaygroundTypeOK
  <2>2. PlaygroundTypeOK'
    BY <1>0, <1>1, <2>1, EmptySeq DEF PlaygroundTypeOK, FlowInv, Shown
  <2>3. ReadingInv' /\ ValidCombination' /\ LogIsOfOneRun' /\ ConsoleInv'
    BY <1>0, <1>1, <2>1, EmptySeq
       DEF ReadingInv, ValidCombination, LogIsOfOneRun, ConsoleInv
  <2>4. ShownAgrees' /\ AwaitedInv'
    BY <1>0, <2>1 DEF ShownAgrees, AwaitedInv, running, NoResult
  <2>5. QED
    BY <1>1, <2>2, <2>3, <2>4 DEF PageInv
<1>8. ASSUME NEW formatted \in BOOLEAN, FormatAnswered(formatted) PROVE PageInv'
  <2>1. /\ UNCHANGED <<source, target, fetching, current, asked, ok, logs, changed>>
        /\ phase = "format" /\ phase' = "idle" /\ current = Nobody
        /\ result' = IF formatted THEN [of |-> "format"] ELSE NoResult
        /\ status' = IF formatted THEN "ok" ELSE "err"
    BY <1>0, <1>8 DEF FormatAnswered, formVars, PlaygroundTypeOK, AwaitedInv
  <2>2. PlaygroundTypeOK'
    BY <1>0, <1>1, <2>1 DEF PlaygroundTypeOK, FlowInv, Shown
  <2>3. ReadingInv' /\ ValidCombination' /\ LogIsOfOneRun' /\ ConsoleInv'
    BY <1>0, <1>1, <2>1 DEF ReadingInv, ValidCombination, LogIsOfOneRun, ConsoleInv
  <2>4. ShownAgrees' /\ AwaitedInv'
    BY <1>0, <2>1 DEF ShownAgrees, AwaitedInv, running, NoResult
  <2>5. QED
    BY <1>1, <2>2, <2>3, <2>4 DEF PageInv
<1>9. QED
  BY <1>4, <1>5, <1>6, <1>7, <1>8 DEF PageStep, UserEdits

\* What runTransform does, and a page that is reloaded.
LEMMA EndKeepsPageInv ==
  ASSUME PageInv, current \in Requests, Finish, FlowInv',
         \A s \in Requests : got'[s] # <<>> => s # current /\ got[s] # <<>>
  PROVE  PageInv'
<1>0. /\ PlaygroundTypeOK /\ ReadingInv /\ ValidCombination
      /\ LogIsOfOneRun /\ ShownAgrees /\ AwaitedInv
  BY DEF PageInv
<1>1. /\ UNCHANGED <<source, target, fetching, logs, result, changed>>
      /\ phase' = "idle" /\ current' = Nobody /\ asked' = NoFormats /\ ok' = FALSE
      /\ ok => status' = "ok"
      /\ ~ok => status' = "err"
  BY DEF Finish, formVars
<1>a. current # Nobody
  BY PlaygroundAssumption
<1>2. PlaygroundTypeOK'
  BY <1>0, <1>1, PlaygroundAssumption
     DEF PlaygroundTypeOK, FlowInv, NoFormats, Asked, AllTargets
<1>3. ReadingInv'
  BY <1>0 DEF ReadingInv
<1>4. ValidCombination' /\ LogIsOfOneRun' /\ ConsoleInv'
  BY <1>0, <1>1 DEF ValidCombination, LogIsOfOneRun, ConsoleInv, Targets, AllTargets, NoFormats
<1>5. ShownAgrees'
  BY <1>0, <1>1, <1>a DEF ShownAgrees, AwaitedInv, NoResult
<1>6. AwaitedInv'
  BY <1>1 DEF AwaitedInv, running
<1>7. QED
  BY <1>2, <1>3, <1>4, <1>5, <1>6 DEF PageInv

LEMMA ConversingKeepsPageInv ==
  ASSUME PageInv, Conversing
  PROVE  PageInv'
<1>0. /\ PlaygroundTypeOK /\ FlowInv /\ ReadingInv /\ ValidCombination
      /\ LogIsOfOneRun /\ ConsoleInv /\ ShownAgrees /\ AwaitedInv
  BY DEF PageInv
<1>1. Nobody \notin Requests /\ "cloudformation" \in Sources
  BY PlaygroundAssumption
<1>2. ASSUME NEW s \in Requests, ClickTransform(s) PROVE PageInv'
  <2>1. /\ UNCHANGED <<source, target, fetching>> /\ changed' = FALSE /\ phase = "idle"
        /\ phase' = "fetch" /\ current' = s /\ asked' = [source |-> source, target |-> target]
        /\ ok' = FALSE /\ logs' = <<>> /\ result' = NoResult /\ status' = "none"
    BY <1>2 DEF ClickTransform, ResetIO, formVars, Enabled, running
  <2>2. FlowInv' /\ got' = got
    BY <1>0, <1>2, FlowAsk DEF ClickTransform, Ask
  <2>3. PlaygroundTypeOK'
    BY <1>0, <1>1, <2>1, <2>2, EmptySeq DEF PlaygroundTypeOK, FlowInv, Shown, Asked
  <2>4. ReadingInv'
    BY <1>0, <2>1, <2>2 DEF ReadingInv
  <2>5. ValidCombination' /\ LogIsOfOneRun' /\ ConsoleInv'
    BY <1>0, <2>1, EmptySeq DEF ValidCombination, LogIsOfOneRun, ConsoleInv
  <2>6. ShownAgrees' /\ AwaitedInv'
    BY <2>1 DEF ShownAgrees, AwaitedInv, running, NoResult
  <2>7. QED
    BY <2>2, <2>3, <2>4, <2>5, <2>6 DEF PageInv
<1>3. CASE ResponseArrives
  <2>1. /\ UNCHANGED <<source, target, fetching, current, asked, ok, logs, result, status, changed>>
        /\ phase = "fetch" /\ phase' = "read"
    BY <1>3 DEF ResponseArrives, formVars, shownVars
  <2>2. FlowInv' /\ got' = got
    BY <1>0, <1>3, FlowUnchanged DEF ResponseArrives, streamVars
  <2>3. logs = <<>> /\ current \in Requests
    BY <1>0, <2>1 DEF ConsoleInv, PlaygroundTypeOK
  <2>4. PlaygroundTypeOK'
    BY <1>0, <2>1, <2>2 DEF PlaygroundTypeOK, FlowInv
  <2>5. ReadingInv' /\ ValidCombination' /\ LogIsOfOneRun' /\ ConsoleInv'
    BY <1>0, <2>1, <2>2, <2>3 DEF ReadingInv, ValidCombination, LogIsOfOneRun, ConsoleInv
  <2>6. ShownAgrees' /\ AwaitedInv'
    BY <1>0, <2>1 DEF ShownAgrees, AwaitedInv, running
  <2>7. QED
    BY <2>2, <2>4, <2>5, <2>6 DEF PageInv
<1>4. CASE RequestFails \/ StreamEnds
  <2>1. current \in Requests /\ Finish /\ Leave(current)
    BY <1>0, <1>4 DEF RequestFails, StreamEnds, PlaygroundTypeOK
  <2>2. FlowInv'
    BY <1>0, <2>1, FlowLeave
  <2>3. \A s \in Requests : got'[s] # <<>> => s # current /\ got[s] # <<>>
    BY <1>0, <2>1 DEF Leave, FlowInv, StreamTypeOK
  <2>4. QED
    BY <2>1, <2>2, <2>3, EndKeepsPageInv
<1>5. CASE Dispatch
  <2> DEFINE event == Head(wire[current])
  <2>1. /\ UNCHANGED <<source, target, fetching, phase, current, asked, status, changed>>
        /\ phase = "read" /\ current \in Requests /\ wire[current] # <<>>
        /\ lines' = lines /\ got' = [got EXCEPT ![current] = Append(@, event)]
        /\ logs' = IF event.kind = "log" THEN Append(logs, <<current, event.line>>) ELSE logs
        /\ result' = IF event.kind = "result"
                       THEN [of |-> "conversion", asked |-> asked] ELSE result
        /\ ok' = (ok \/ event.kind = "result")
    BY <1>0, <1>5 DEF Dispatch, Receive, formVars, loopVars, PlaygroundTypeOK
  <2>2. FlowInv'
    BY <1>0, <1>5, <2>1, FlowReceive DEF Dispatch
  <2>3. /\ got[current] \in Seq(Event) /\ wire[current] \in Seq(Event)
        /\ queue[current] \in Seq(Event) /\ ready[current] \in Seq(Event)
        /\ lines[current] \in Nat /\ Len(got[current]) \in Nat
    BY <1>0, <2>1, Sequences DEF FlowInv
  <2>4. FlowOf(link[current], worker[current], thread[current], lines[current],
               ready[current], queue[current], wire[current], got[current])
    BY <1>0, <2>1 DEF FlowInv, Flow
  <2>5. /\ event \in Event
        /\ Says(event, Len(got[current]) + 1, lines[current], thread[current])
        /\ got'[current] = Append(got[current], event)
        /\ Len(got'[current]) = Len(got[current]) + 1
    BY <1>0, <2>1, <2>3, <2>4, ReceiveFlow, HeadTailProperties, AppendProperties
       DEF FlowInv, StreamTypeOK
  <2> HIDE DEF event
  <2>6. event.kind = "log" => /\ event.line = Len(got[current]) + 1
                              /\ Len(got[current]) + 1 <= lines[current]
                              /\ event.line \in 1..MaxLines
    <3>1. event.kind = "log" => /\ Len(got[current]) + 1 <= lines[current]
                                /\ event = Line(Len(got[current]) + 1)
      BY <2>5 DEF Says, Outcomes
    <3>2. \A n : Line(n).line = n
      BY DEF Line
    <3>3. lines[current] \in 0..MaxLines
      BY <1>0, <2>1 DEF FlowInv, StreamTypeOK
    <3>4. QED
      BY <2>3, <3>1, <3>2, <3>3, StreamAssumption
  <2>7. logs \in Seq(Requests \X (1..MaxLines)) /\ logs' \in Seq(Requests \X (1..MaxLines))
    BY <1>0, <2>1, <2>6 DEF PlaygroundTypeOK
  <2>8. PlaygroundTypeOK'
    BY <1>0, <2>1, <2>2, <2>7 DEF PlaygroundTypeOK, FlowInv, Shown
  <2>9. ReadingInv' /\ ValidCombination'
    BY <1>0, <2>1 DEF ReadingInv, ValidCombination, FlowInv, StreamTypeOK
  <2>10. LogIsOfOneRun' /\ ConsoleInv'
    <3>1. CASE event.kind # "log"
      <4>1. ConsoleInv'
        <5>1. Len(got'[current]) > lines[current]
          BY <2>3, <2>5, <3>1, EventsAre DEF Says, Line
        <5>2. QED
          BY <1>0, <2>1, <3>1, <5>1 DEF ConsoleInv
      <4>2. QED
        BY <1>0, <2>1, <3>1, <4>1 DEF LogIsOfOneRun
    <3>2. CASE event.kind = "log"
      <4>1. /\ logs' = Append(logs, <<current, event.line>>)
            /\ <<current, event.line>> \in Requests \X (1..MaxLines)
        BY <2>1, <2>6, <3>2
      <4>2. /\ Len(logs) \in Nat /\ Len(logs') = Len(logs) + 1
            /\ \A i \in 1..Len(logs) : logs'[i] = logs[i]
            /\ logs'[Len(logs) + 1] = <<current, event.line>>
            /\ logs' # <<>>
        BY <2>7, <4>1, AppendProperties
      <4>3. ConsoleInv'
        BY <2>1, <2>5, <2>6, <3>2, <4>2 DEF ConsoleInv
      <4>4. LogIsOfOneRun'
        <5>1. CASE logs = <<>>
          BY <4>2, <5>1, EmptySeq DEF LogIsOfOneRun
        <5>2. CASE logs # <<>>
          <6>1. Len(logs) \in Nat \ {0}
            BY <2>7, <5>2, EmptySeq
          <6>2. logs[Len(logs)] = <<current, Len(got[current])>>
            <7>1. logs[Len(logs)] \in Requests \X (1..MaxLines)
              BY <2>7, <6>1, ElementOfSeq
            <7>2. /\ logs[Len(logs)][1] = current /\ logs[Len(logs)][2] = Len(got[current])
              BY <1>0, <1>1, <2>1, <2>3, <2>6, <3>2, <5>2 DEF ConsoleInv
            <7>3. QED
              BY <7>1, <7>2
          <6>3. logs[1] \in Requests \X (1..MaxLines)
            BY <2>7, <6>1, ElementOfSeq
          <6>4. \A i \in 2..Len(logs) : logs[i] = <<logs[1][1], logs[1][2] + i - 1>>
            BY <1>0 DEF LogIsOfOneRun
          <6>5. logs[1][1] = current /\ Len(got[current]) = logs[1][2] + Len(logs) - 1
            <7>1. CASE Len(logs) = 1
              BY <6>2, <6>3, <7>1
            <7>2. CASE Len(logs) # 1
              BY <6>1, <6>2, <6>3, <6>4, <7>2
            <7>3. QED
              BY <7>1, <7>2
          <6>6. logs'[Len(logs) + 1] = <<logs[1][1], logs[1][2] + (Len(logs) + 1) - 1>>
            BY <2>6, <3>2, <4>2, <6>1, <6>3, <6>5
          <6>7. logs'[1] = logs[1]
            BY <4>2, <6>1
          <6>8. QED
            BY <4>2, <6>1, <6>4, <6>6, <6>7 DEF LogIsOfOneRun
        <5>3. QED
          BY <5>1, <5>2
      <4>5. QED
        BY <4>3, <4>4
    <3>3. QED
      BY <3>1, <3>2
  <2>11. ShownAgrees' /\ AwaitedInv'
    <3>1. running /\ status = "none" /\ current # Nobody
      BY <1>0, <1>1, <2>1 DEF running, AwaitedInv
    <3>2. CASE event.kind = "result"
      BY <1>0, <2>1, <3>1, <3>2 DEF ShownAgrees, AwaitedInv, running, NoResult
    <3>3. CASE event.kind # "result"
      BY <1>0, <2>1, <3>1, <3>3 DEF ShownAgrees, AwaitedInv, running, NoResult
    <3>4. QED
      BY <3>2, <3>3
  <2>12. QED
    BY <2>2, <2>8, <2>9, <2>10, <2>11 DEF PageInv
<1>6. CASE StreamBreaks
  <2>1. /\ UNCHANGED <<source, target, fetching, current, asked, ok, logs, result, status, changed>>
        /\ phase = "read" /\ phase' = "stuck" /\ current \in Requests /\ Leave(current)
    BY <1>0, <1>6 DEF StreamBreaks, formVars, shownVars, PlaygroundTypeOK
  <2>2. FlowInv'
    BY <1>0, <2>1, FlowLeave
  <2>3. PlaygroundTypeOK'
    BY <1>0, <2>1, <2>2 DEF PlaygroundTypeOK, FlowInv
  <2>4. ReadingInv'
    BY <1>0, <2>1 DEF ReadingInv, Leave, FlowInv, StreamTypeOK
  <2>5. ValidCombination' /\ LogIsOfOneRun' /\ ConsoleInv'
    BY <1>0, <2>1 DEF ValidCombination, LogIsOfOneRun, ConsoleInv
  <2>6. ShownAgrees' /\ AwaitedInv'
    BY <1>0, <2>1 DEF ShownAgrees, AwaitedInv, running
  <2>7. QED
    BY <2>2, <2>3, <2>4, <2>5, <2>6 DEF PageInv
<1>7. CASE Reload
  <2>1. /\ source' = "cloudformation" /\ target' = "auto" /\ fetching' = {}
        /\ phase' = "idle" /\ current' = Nobody /\ ok' = FALSE /\ asked' = NoFormats
        /\ logs' = <<>> /\ result' = NoResult /\ status' = "none" /\ changed' = FALSE
    BY <1>7 DEF Reload, ResetIO
  <2>2. FlowInv' /\ ReadingInv'
    <3>1. CASE current = Nobody
      BY <1>0, <1>1, <1>7, <3>1, FlowUnchanged DEF Reload, ReadingInv, streamVars
    <3>2. CASE current # Nobody
      <4>1. current \in Requests /\ Leave(current)
        BY <1>0, <1>7, <3>2 DEF Reload, PlaygroundTypeOK
      <4>2. FlowInv'
        BY <1>0, <4>1, FlowLeave
      <4>3. ReadingInv'
        BY <1>0, <4>1 DEF ReadingInv, Leave, FlowInv, StreamTypeOK
      <4>4. QED
        BY <4>2, <4>3
    <3>3. QED
      BY <3>1, <3>2
  <2>3. PlaygroundTypeOK'
    BY <1>1, <2>1, <2>2, EmptySeq
       DEF PlaygroundTypeOK, FlowInv, NoFormats, Asked, AllTargets, Shown
  <2>4. ValidCombination' /\ LogIsOfOneRun' /\ ConsoleInv'
    BY <2>1, EmptySeq DEF ValidCombination, LogIsOfOneRun, ConsoleInv, Targets, AllTargets, NoFormats
  <2>5. ShownAgrees' /\ AwaitedInv'
    BY <2>1 DEF ShownAgrees, AwaitedInv, running, NoResult
  <2>6. QED
    BY <2>2, <2>3, <2>4, <2>5 DEF PageInv
<1>8. QED
  BY <1>2, <1>3, <1>4, <1>5, <1>6, <1>7 DEF Conversing

\* PageInv is inductive, of a page and a server in any interleaving.
THEOREM PageInvariant == PlaygroundSpec => []PageInv
<1>1. PageInv /\ [PlaygroundNext]_pgVars => PageInv'
  <2> SUFFICES ASSUME PageInv, [PlaygroundNext]_pgVars PROVE PageInv'
    OBVIOUS
  <2>1. CASE PageStep /\ UNCHANGED streamVars
    BY <2>1, PageKeepsPageInv
  <2>2. CASE Conversing
    BY <2>2, ConversingKeepsPageInv
  <2>3. CASE ServerStep /\ UNCHANGED pageVars
    BY <2>3, ServerKeepsPageInv
  <2>4. CASE UNCHANGED pgVars
    <3>1. FlowInv'
      BY <2>4, FlowUnchanged DEF PageInv, pgVars
    <3>2. QED
      BY <2>4, <3>1
         DEF PageInv, pgVars, streamVars, loopVars, pageVars, formVars, runVars, shownVars,
             PlaygroundTypeOK, FlowInv, ReadingInv, ValidCombination, LogIsOfOneRun, ConsoleInv,
             ShownAgrees, AwaitedInv, running
  <2>5. QED
    BY <2>1, <2>2, <2>3, <2>4 DEF PlaygroundNext
<1>2. QED
  BY <1>1, InitPageInv, PTL DEF PlaygroundSpec

\* The types, for any requests, logs, formats and examples.
THEOREM PageTypeCorrect == PlaygroundSpec => []PlaygroundTypeOK
<1>1. PageInv => PlaygroundTypeOK
  BY DEF PageInv
<1>2. QED
  BY <1>1, PageInvariant, PTL

\* What StreamIsWhole says of the events of one conversion of n lines.
Whole(sent, n) ==
  \A i \in 1..Len(sent) :
    \/ sent[i] = Line(i)
    \/ sent[i].kind \in Outcomes /\ i = Len(sent) /\ i = n + 1

LEMMA DeliveredIsWhole ==
  ASSUME NEW n \in Nat, NEW th, NEW w \in Seq(Event), NEW g \in Seq(Event), Delivered(n, th, w, g)
  PROVE  Whole(g \o w, n)
<1>1. InOrder(g, 0, n, th) /\ InOrder(w, Len(g), n, th)
  BY DEF Delivered
<1>2. /\ Len(g) \in Nat /\ Len(w) \in Nat /\ Len(g \o w) = Len(g) + Len(w)
      /\ \A i \in 1..(Len(g) + Len(w)) :
           (g \o w)[i] = IF i <= Len(g) THEN g[i] ELSE w[i - Len(g)]
  BY ConcatProperties
<1>a. g \o w \in Seq(Event)
  BY ConcatProperties
<1>3. PICK sent \in Seq(Event) : sent = g \o w
  BY <1>a
<1>4. ASSUME NEW i \in 1..Len(sent) PROVE Says(sent[i], i, n, th)
  <2>1. CASE i <= Len(g)
    <3>1. Says(g[i], 0 + i, n, th) /\ 0 + i = i /\ sent[i] = g[i]
      BY <1>1, <1>2, <1>3, <1>4, <2>1 DEF InOrder
    <3>2. QED
      BY <3>1
  <2>2. CASE ~(i <= Len(g))
    <3>1. i - Len(g) \in 1..Len(w) /\ Len(g) + (i - Len(g)) = i /\ sent[i] = w[i - Len(g)]
      BY <1>2, <1>3, <1>4, <2>2
    <3>2. Says(w[i - Len(g)], Len(g) + (i - Len(g)), n, th)
      BY <1>1, <3>1 DEF InOrder
    <3>3. QED
      BY <3>1, <3>2
  <2>3. QED
    BY <2>1, <2>2
<1>5. ASSUME NEW i \in 1..Len(sent), ~(i <= n)
      PROVE  sent[i].kind \in Outcomes /\ i = Len(sent) /\ i = n + 1
  <2>1. sent[i].kind \in Outcomes /\ i = n + 1
    BY <1>4, <1>5 DEF Says
  <2>2. ASSUME i # Len(sent) PROVE FALSE
    <3>1. i + 1 \in 1..Len(sent) /\ ~(i + 1 <= n)
      BY <1>5, <2>2
    <3>2. Says(sent[i + 1], i + 1, n, th)
      BY <1>4, <3>1
    <3>3. i + 1 = n + 1
      BY <3>1, <3>2 DEF Says
    <3>4. QED
      BY <2>1, <3>3
  <2>3. QED
    BY <2>1, <2>2
<1>6. QED
  BY <1>3, <1>4, <1>5 DEF Whole, Says

\* The events of /transform/stream arrive in order, each once, and the outcome
\* after all lines of the log: the thread hands both to the event loop, and it
\* keeps their order (on_log, worker, event_gen).
THEOREM EventsInOrder == PlaygroundSpec => []StreamIsWhole
<1>1. PageInv => StreamIsWhole
  <2> SUFFICES ASSUME PageInv, NEW s \in Requests PROVE Whole(got[s] \o wire[s], lines[s])
    BY DEF StreamIsWhole, Whole
  <2>1. /\ got[s] \in Seq(Event) /\ wire[s] \in Seq(Event) /\ lines[s] \in Nat
        /\ Delivered(lines[s], thread[s], wire[s], got[s])
    BY Sequences DEF PageInv, FlowInv, Flow, FlowOf
  <2>2. QED
    BY <2>1, DeliveredIsWhole
<1>2. QED
  BY <1>1, PageInvariant, PTL

\* No combination of formats that does not exist is selected or asked for.
THEOREM OnlyValidCombinations == PlaygroundSpec => []ValidCombination
<1>1. PageInv => ValidCombination
  BY DEF PageInv
<1>2. QED
  BY <1>1, PageInvariant, PTL

\* The console never mixes the logs of two conversions.
THEOREM OneLogAtATime == PlaygroundSpec => []LogIsOfOneRun
<1>1. PageInv => LogIsOfOneRun
  BY DEF PageInv
<1>2. QED
  BY <1>1, PageInvariant, PTL

\* What is shown is of the formats selected, unless they were changed while a
\* conversion ran, and a failure shows no result.
THEOREM ShownIsAsked == PlaygroundSpec => []ShownAgrees
<1>1. PageInv => ShownAgrees
  BY DEF PageInv
<1>2. QED
  BY <1>1, PageInvariant, PTL
=============================================================================
