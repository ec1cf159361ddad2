-------------------------- MODULE ConversionService --------------------------
(***************************************************************************)
(* What the web service promises for Terraform conversions                 *)
(* (rostran/web/service.py, transform): a request is answered with the     *)
(* right targets or refused; what was converted once is kept, across       *)
(* restarts too, and from then on the same request is always answered.     *)
(* TransformService implements this when no two requests in flight are     *)
(* identical and the cache has room for every conversion asked for.        *)
(***************************************************************************)
CONSTANTS Threads, Keys, NoKey

VARIABLES
  request,    \* the conversion each thread is working on
  reply,      \* what the client of each thread's last request got
  published   \* the conversions whose result is kept

vars == <<request, reply, published>>

Init ==
  /\ request = [t \in Threads |-> NoKey]
  /\ reply = [t \in Threads |-> "none"]
  /\ published = {}

\* A client asks for the conversion k.
Submit(t, k) ==
  /\ request[t] = NoKey
  /\ \A u \in Threads : request[u] # k
  /\ request' = [request EXCEPT ![t] = k]
  /\ reply' = [reply EXCEPT ![t] = "none"]
  /\ UNCHANGED published

\* The conversion succeeds and its result is kept for good.
Publish(t) ==
  /\ request[t] \in Keys \ published
  /\ published' = published \cup {request[t]}
  /\ UNCHANGED <<request, reply>>

End(t, r) ==
  /\ request' = [request EXCEPT ![t] = NoKey]
  /\ reply' = [reply EXCEPT ![t] = r]
  /\ UNCHANGED published

\* Only a result that is kept is served.
Serve(t) ==
  /\ request[t] \in published
  /\ End(t, "right")

\* Only a request whose result is not known is refused.
Refuse(t) ==
  /\ request[t] \in Keys \ published
  /\ End(t, "failed")

\* The server goes down and comes back.
Restart ==
  /\ request' = [t \in Threads |-> NoKey]
  /\ reply' = [t \in Threads |-> "none"]
  /\ UNCHANGED published

Next ==
  \/ \E t \in Threads :
       \/ \E k \in Keys : Submit(t, k)
       \/ Publish(t) \/ Serve(t) \/ Refuse(t)
  \/ Restart

Spec == Init /\ [][Next]_vars
=============================================================================
