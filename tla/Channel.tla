------------------------------- MODULE Channel -------------------------------
(***************************************************************************)
(* What a Connection promises about the data it carries, whatever the      *)
(* order in which threads, completions, timers and errors come about:      *)
(*   - buffers reach the peer in the order of the calls of Send, whole and *)
(*     never interleaved, and OnSend confirms each one only after all of   *)
(*     it has been written;                                                *)
(*   - OnRecv is told the bytes of the peer's stream in order, without     *)
(*     gaps or duplicates: one report per call of Recv, of the size that   *)
(*     call asked for;                                                     *)
(*   - nothing is written, confirmed or reported before the channel is     *)
(*     dialled nor after it has failed; one that had failed before it was  *)
(*     dialled is mute: it may still write what it was given, but neither  *)
(*     confirms nor reports anything.                                      *)
(***************************************************************************)
EXTENDS Naturals, Sequences

CONSTANTS Parts,     \* pieces a buffer is written in
          Asks,      \* total_bytes of the successive calls of Recv
          RecvSize   \* the most a call of Recv(0) reports

VARIABLES
  accepted,   \* buffers 1..accepted were given to Send
  wire,       \* the pieces the peer was sent, each named by its buffer
  confirmed,  \* buffers OnSend was called with
  invited,    \* calls of Recv
  reported,   \* what the calls of OnRecv were given
  state       \* "new" until it is dialled, then "up", "down" after OnError;
              \* "refused" if OnError came first, "mute" once that is dialled

chan == <<accepted, wire, confirmed, invited, reported, state>>


\* The last byte of the stream that was reported.
Upto == IF reported = <<>> THEN 0
        ELSE LET last == reported[Len(reported)] IN last[Len(last)]

\* "If total_bytes is 0, then as many bytes as possible ... If Recv is not 0,
\* then the connection will wait for exactly total_bytes" (wrapper.h:237-240).
Sizes(r) == IF Asks[r] > 0 THEN {Asks[r]} ELSE 1 .. RecvSize

Init ==
  /\ accepted = 0 /\ wire = <<>> /\ confirmed = <<>>
  /\ invited = 0 /\ reported = <<>> /\ state = "new"

Accept ==
  /\ accepted' = accepted + 1
  /\ UNCHANGED <<wire, confirmed, invited, reported, state>>

\* The next piece: of the buffer after the last complete one.
Write ==
  /\ state \in {"up", "mute"}
  /\ LET buffer == (Len(wire) \div Parts) + 1
     IN buffer <= accepted /\ wire' = Append(wire, buffer)
  /\ UNCHANGED <<accepted, confirmed, invited, reported, state>>

Confirm ==
  /\ state = "up"
  /\ (Len(confirmed) + 1) * Parts <= Len(wire)
  /\ confirmed' = Append(confirmed, Len(confirmed) + 1)
  /\ UNCHANGED <<accepted, wire, invited, reported, state>>

Invite ==
  /\ invited' = invited + 1
  /\ UNCHANGED <<accepted, wire, confirmed, reported, state>>

Report ==
  /\ state = "up" /\ Len(reported) < invited
  /\ \E n \in Sizes(Len(reported) + 1) :
       reported' = Append(reported, [i \in 1 .. n |-> Upto + i])
  /\ UNCHANGED <<accepted, wire, confirmed, invited, state>>

\* Connect is called: a channel that has failed by then stays failed.
Dial ==
  /\ \/ state = "new" /\ state' = "up"
     \/ state = "refused" /\ state' = "mute"
  /\ UNCHANGED <<accepted, wire, confirmed, invited, reported>>

Fail ==
  /\ \/ state = "new" /\ state' = "refused"
     \/ state = "up" /\ state' = "down"
  /\ UNCHANGED <<accepted, wire, confirmed, invited, reported>>

Next == Accept \/ Write \/ Confirm \/ Invite \/ Report \/ Dial \/ Fail

Spec == Init /\ [][Next]_chan
=============================================================================
