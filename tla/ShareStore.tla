----------------------------- MODULE ShareStore -----------------------------
(***************************************************************************)
(* The keeper's table of encrypted shares and the requests that change it. *)
(* The N rows of an order are written in one transaction and deleted by    *)
(* one statement, so an order has all of them or none.  Both requests are  *)
(* sent once and never again; a request may be lost, and it may do its     *)
(* work although its sender sees an error.                                 *)
(***************************************************************************)
CONSTANT Orders  \* commitment hashes

VARIABLES
  stored,   \* the orders that have their share rows
  forwards, \* the orders with a POST /api/shares in flight
  prunes    \* the orders with a DELETE /api/shares in flight

shareVars == <<stored, forwards, prunes>>

ShareTypeOK == stored \subseteq Orders /\ forwards \subseteq Orders /\ prunes \subseteq Orders

ShareInit == stored = {} /\ forwards = {} /\ prunes = {}

\* A goroutine of its own sends the shares.
ForwardInBackground(o) == /\ forwards' = forwards \cup {o}
                          /\ UNCHANGED <<stored, prunes>>

PruneInBackground(o) == /\ prunes' = prunes \cup {o}
                        /\ UNCHANGED <<stored, forwards>>

\* The handler sends the shares itself and waits: 201, or an error.
ForwardAndWait(o, ok) ==
  /\ \/ stored' = stored \cup {o}
     \/ ~ok /\ UNCHANGED stored
  /\ UNCHANGED <<forwards, prunes>>

InsertShares(o) == /\ o \in forwards
                   /\ forwards' = forwards \ {o}
                   /\ stored' = stored \cup {o}
                   /\ UNCHANGED prunes

LoseForward(o) == /\ o \in forwards
                  /\ forwards' = forwards \ {o}
                  /\ UNCHANGED <<stored, prunes>>

DeleteShares(o) == /\ o \in prunes
                   /\ prunes' = prunes \ {o}
                   /\ stored' = stored \ {o}
                   /\ UNCHANGED forwards

LosePrune(o) == /\ o \in prunes
                /\ prunes' = prunes \ {o}
                /\ UNCHANGED <<stored, forwards>>

ShareStep(o) == InsertShares(o) \/ LoseForward(o) \/ DeleteShares(o) \/ LosePrune(o)
=============================================================================
