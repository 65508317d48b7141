------------------------------- MODULE TcpState -------------------------------
(***************************************************************************)
(* The TCP transition table of src/ids/stages/flow.py: which state the     *)
(* first packet of a flow gives it, which state a later packet moves it    *)
(* to, and which packet starts a new flow on the same endpoints.           *)
(*                                                                         *)
(* A packet is the set of the flags the table reads and the direction it   *)
(* travels in.  `fins' lists the directions that have sent a FIN, in the   *)
(* order of their first FIN.                                               *)
(***************************************************************************)
EXTENDS Sequences

Flags == {"SYN", "ACK", "FIN", "RST"}
Directions == {"forward", "backward"}
States == {"HANDSHAKE", "ESTABLISHED", "CLOSING", "CLOSED", "RESET"}
Ended == {"CLOSING", "CLOSED", "RESET"}

\* The values of fin_directions: no direction occurs twice.
FinOrders == {<<>>, <<"forward">>, <<"backward">>,
              <<"forward", "backward">>, <<"backward", "forward">>}

WithFin(fins, dir) ==
  IF \E i \in DOMAIN fins : fins[i] = dir THEN fins ELSE Append(fins, dir)

\* Slip: one FIN is enough.
LastFinCameFromTheOtherSide(fins, dir) == fins # <<>> /\ dir # fins[Len(fins)]

BothFinsSeenAndLastCameFromTheOtherSide(fins, dir) ==
  Len(fins) = 2 /\ dir # fins[2]

\* The first row of the table: a SYN that does not answer one, on a flow that is over or ending.
Restarts(state, flags) ==
  "SYN" \in flags /\ "ACK" \notin flags /\ state \in Ended

FirstStep(flags, dir) ==
  CASE "SYN" \in flags -> [state |-> "HANDSHAKE", fins |-> <<>>]
    [] "SYN" \notin flags /\ "RST" \in flags -> [state |-> "RESET", fins |-> <<>>]
    [] flags \cap {"SYN", "RST"} = {} /\ "FIN" \in flags -> [state |-> "CLOSING", fins |-> <<dir>>]
    [] flags \cap {"SYN", "RST", "FIN"} = {} -> [state |-> "ESTABLISHED", fins |-> <<>>]

\* Slip: a RST resets a connection that is closed.
AlwaysReset(state) == "RESET"

AfterReset(state) == IF state = "CLOSED" THEN "CLOSED" ELSE "RESET"

\* The other rows: the first one that matches wins, and a packet no row names changes nothing.
NextStep(state, flags, dir, fins) ==
  LET row(to, seen) == [state |-> to, fins |-> seen]
  IN  IF "SYN" \in flags THEN row(state, fins)
      ELSE IF "RST" \in flags
           THEN row(AfterReset(state), fins)
      ELSE IF "FIN" \in flags /\ state \in {"HANDSHAKE", "ESTABLISHED", "CLOSING"}
           THEN row("CLOSING", WithFin(fins, dir))
      ELSE IF "ACK" \in flags /\ state = "HANDSHAKE"
           THEN row("ESTABLISHED", fins)
      ELSE IF /\ "ACK" \in flags
              /\ state = "CLOSING"
              /\ BothFinsSeenAndLastCameFromTheOtherSide(fins, dir)
           THEN row("CLOSED", fins)
      ELSE row(state, fins)
-------------------------------------------------------------------------------
\* What the rows of the table promise together.

\* The states that a flow can reach from each state.
After(state) ==
  CASE state = "HANDSHAKE" -> States
    [] state = "ESTABLISHED" -> States \ {"HANDSHAKE"}
    [] state = "CLOSING" -> Ended
    [] state \in {"CLOSED", "RESET"} -> {state}

\* Which FINs a flow remembers in each state.  A reset can come at any point of a close.
FinsFit(state, fins) ==
  /\ state \in {"HANDSHAKE", "ESTABLISHED"} => fins = <<>>
  /\ state = "CLOSING" => fins # <<>>
  /\ state = "CLOSED" => fins \in {<<"forward", "backward">>, <<"backward", "forward">>}
===============================================================================
