---------------------------- MODULE StreamService ----------------------------
(***************************************************************************)
(* What a client of the plugin's socket is promised, whatever packets and  *)
(* credits are behind it: a stream is opened, its one request is answered  *)
(* once, the answer arrives in order and the stream ends only after all of *)
(* it, unless the stream is broken off.                                    *)
(***************************************************************************)
EXTENDS Naturals

CONSTANTS Streams, AnswerLens

VARIABLES
  phase,  \* of a stream, as its client sees it
  total,  \* length of the stream's answer, 0 before there is one
  got     \* units of the answer the client has received

service == <<phase, total, got>>

Init ==
  /\ phase = [s \in Streams |-> "closed"]
  /\ total = [s \in Streams |-> 0]
  /\ got = [s \in Streams |-> 0]

Open(s) ==
  /\ phase[s] = "closed"
  /\ phase' = [phase EXCEPT ![s] = "open"]
  /\ UNCHANGED <<total, got>>

\* The client may be gone by the time its request is answered.
Answer(s) ==
  /\ phase[s] # "closed" /\ total[s] = 0
  /\ \E n \in AnswerLens : total' = [total EXCEPT ![s] = n]
  /\ UNCHANGED <<phase, got>>

Deliver(s) ==
  /\ phase[s] = "open"
  /\ \E n \in (got[s] + 1) .. total[s] : got' = [got EXCEPT ![s] = n]
  /\ UNCHANGED <<phase, total>>

End(s) ==
  /\ phase[s] = "open" /\ total[s] > 0 /\ got[s] = total[s]
  /\ phase' = [phase EXCEPT ![s] = "ended"]
  /\ UNCHANGED <<total, got>>

\* One stream is closed or broken off, or a transport reset breaks off all.
Leave ==
  /\ \E gone \in SUBSET Streams :
       phase' = [s \in Streams |-> IF s \in gone THEN "over" ELSE phase[s]]
  /\ UNCHANGED <<total, got>>

Next ==
  \/ \E s \in Streams : Open(s) \/ Answer(s) \/ Deliver(s) \/ End(s)
  \/ Leave

Spec == Init /\ [][Next]_service
=============================================================================
