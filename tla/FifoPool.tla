------------------------------ MODULE FifoPool ------------------------------
(***************************************************************************)
(* What the pool of LLM slots promises to the requests that join it: each  *)
(* waits, holds a slot and is gone, once and in this order; slots go first *)
(* come, first served, a number to one request at a time, and only while   *)
(* fewer are held than the server's capacity.  Whoever lets its time run   *)
(* out may be given up, but no sooner than somebody asks for a slot.       *)
(***************************************************************************)
EXTENDS Integers, FiniteSets

CONSTANTS
  Requests,
  Capacities,  \* of those who serve
  NoNumber     \* of a request that holds no slot

VARIABLES
  place,   \* of each request
  ahead,   \* who waits in front of whom
  number   \* of the slot a request holds

pool == <<place, ahead, number>>

Waiting == {r \in Requests : place[r] = "waiting"}
Holding == {r \in Requests : place[r] = "holding"}

Init ==
  /\ place = [r \in Requests |-> "out"]
  /\ ahead = {}
  /\ number = [r \in Requests |-> NoNumber]

Join(r) ==
  /\ place[r] = "out"
  /\ place' = [place EXCEPT ![r] = "waiting"]
  /\ ahead' = ahead \cup (Waiting \X {r})
  /\ UNCHANGED number

\* The requests in leaving are gone, and the others keep their order.
Part(leaving) ==
  /\ number' = [q \in Requests |-> IF q \in leaving THEN NoNumber ELSE number[q]]
  /\ place' = [q \in Requests |-> IF q \in leaving THEN "gone" ELSE place[q]]
  /\ ahead' = ahead \cap ((Waiting \ leaving) \X (Waiting \ leaving))

Leave(r) == place[r] \in {"waiting", "holding"} /\ Part({r})

\* Somebody goes on waiting: whoever asks for a slot finds the others expired.
GiveUp ==
  \E lost \in SUBSET (Waiting \cup Holding) : Waiting \ lost # {} /\ Part(lost)

\* Nobody who goes on waiting was there before the request that is served.
Serve(r) ==
  /\ place[r] = "waiting"
  /\ \E lost \in SUBSET ((Waiting \cup Holding) \ {r}) :
       /\ place' = [q \in Requests |-> CASE q = r -> "holding"
                                         [] q \in lost -> "gone"
                                         [] OTHER -> place[q]]
       /\ LET line == Waiting \ (lost \cup {r})
          IN (\A q \in line : <<r, q>> \in ahead) /\ ahead' = ahead \cap (line \X line)
       /\ \E capacity \in Capacities :
            /\ Cardinality(Holding \ lost) < capacity
            /\ \E n \in (0 .. capacity - 1) \ {number[q] : q \in Holding \ lost} :
                 number' = [q \in Requests |-> CASE q = r -> n
                                                 [] q \in lost -> NoNumber
                                                 [] OTHER -> number[q]]

Next == GiveUp \/ \E r \in Requests : Join(r) \/ Leave(r) \/ Serve(r)

Spec == Init /\ [][Next]_pool
=============================================================================
