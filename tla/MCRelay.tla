------------------------------ MODULE MCRelay ------------------------------
(* Small instances of Relay for TLC. *)
EXTENDS Relay, FiniteSets, TLC

\* Addresses are only compared with each other and with NULL.
Symmetry == Permutations(Addr)

\* Bounds of relay_two: both lines have a Session, which always gets a libcoap
\* session again; one ping waits at a time, once all messages have been accepted;
\* and nothing is explored behind a message given up, or behind undefined
\* behaviour other than what the draining of a message into two sessions meets.
TwoSessions == sessions \in {{}, Lines} /\ \A s \in sessions : session[s] # NULL
OnePing == Cardinality({a \in Addr : pdus[a][Ping] > 0})
             <= IF accepted = MaxMsg THEN 1 ELSE 0
OneFault == faults \subseteq {"double_free"}
MixUps == TwoSessions /\ OnePing /\ OneFault /\ given_up = {}
=============================================================================
